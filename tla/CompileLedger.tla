---------------------------- MODULE CompileLedger ----------------------------
(***************************************************************************)
(* What the worker promises whoever enqueues a compile, with no queue, no  *)
(* blob and no process in sight: a compile is attempted a bounded number   *)
(* of times, its outcome is recorded, and its message goes away only after *)
(* the outcome is on record.  CompileWorker is shown to implement this.    *)
(***************************************************************************)
EXTENDS Naturals

CONSTANTS Compiles,      \* the compiles that were asked for
          MaxAttempts    \* how often one of them may be started

VARIABLES outstanding,   \* compiles whose message is still in a queue
          attempts,      \* how often each was started
          recorded       \* compiles whose outcome a reader can find

ledgerVars == <<outstanding, attempts, recorded>>

Init ==
  /\ outstanding = Compiles
  /\ attempts = [c \in Compiles |-> 0]
  /\ recorded \subseteq Compiles

Attempt(c) ==
  /\ attempts[c] < MaxAttempts
  /\ attempts' = [attempts EXCEPT ![c] = @ + 1]
  /\ UNCHANGED <<outstanding, recorded>>

Record(c) ==
  /\ recorded' = recorded \cup {c}
  /\ UNCHANGED <<outstanding, attempts>>

Settle(c) ==
  /\ c \in recorded
  /\ outstanding' = outstanding \ {c}
  /\ UNCHANGED <<attempts, recorded>>

Next == \E c \in Compiles : Attempt(c) \/ Record(c) \/ Settle(c)

Spec == Init /\ [][Next]_ledgerVars
==============================================================================
