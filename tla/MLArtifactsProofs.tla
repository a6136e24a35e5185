--------------------------- MODULE MLArtifactsProofs ---------------------------
(***************************************************************************)
(* What holds of MLArtifacts for any containers, heads, entries and rows,  *)
(* whatever fails.  What is said of the registry needs that one container  *)
(* at most trains and prunes, as the nightly job is the only one that      *)
(* does, and, of what is deleted, that this one does not start without     *)
(* its artifacts.                                                          *)
(***************************************************************************)
EXTENDS MLArtifacts, TLAPS

USE DEF storeVars, diskVars, writeVars, historyVars, Fault, Go, Die

\* At most one container trains and prunes.
OneRegistrar == \A c, d \in Registrars : c = d
\* No container that does starts without its artifacts.
RegistrarsFetch == Registrars \cap Optional = {}

\* A write-back deletes when it has uploaded.
MLTypeInv ==
  /\ TypeOK
  /\ \A c \in Containers : at[c] = "delete" => toUpload[c] = {}

\* How a boot comes to have its heads: the files are downloaded, the tarballs
\* extracted or the failure noted, and the gate looks for the rest.
HeadsInv ==
  \A c \in Containers :
    /\ at[c] = "extract" => \A h \in Heads \ Archived : source[h] = "there" => h \in landed[c]
    /\ at[c] = "gate" /\ ~ failed[c] => \A h \in Heads : source[h] = "there" => h \in landed[c]
    /\ c \notin Optional /\ at[c] \notin {"off", "fetch", "extract", "gate"} =>
         \A h \in Configured : source[h] # "absent" => h \in landed[c]

\* Who does not register has nothing of the registry, and deletes nothing of it.
\* What the registrar lacks of it has been pruned, from its download on.
KeptInv ==
  \A c \in Containers :
    /\ c \notin Registrars => entries[c] = {} /\ toDelete[c] = {}
    /\ c \in Registrars /\ at[c] \notin {"off", "fetch"} => registry \subseteq entries[c] \cup pruned
    /\ toDelete[c] \subseteq pruned

\* What a write-back no longer has to upload is in the store, unless it failed.
PromotedInv ==
  \A c \in Containers :
    /\ c \notin Registrars => entries[c] = {} /\ toDelete[c] = {}
    /\ at[c] = "upload" /\ ~ missed[c] => entries[c] \subseteq registry \cup toUpload[c]
    /\ at[c] \in {"delete", "log"} /\ ~ missed[c] => entries[c] \subseteq registry
------------------------------------------------------------------------------
\* Every step keeps the types and the order of a write-back.
LEMMA MLTypeStep ==
  ASSUME MLTypeInv, [Next]_vars
  PROVE  MLTypeInv'
<1> USE ContainersAssumption DEF MLTypeInv, TypeOK, Place
<1>1. ASSUME NEW c \in Containers, Boot(c) PROVE MLTypeInv'
  BY <1>1 DEF Boot
<1>2. ASSUME NEW c \in Containers, Fetch(c) PROVE MLTypeInv'
  BY <1>2 DEF Fetch
<1>3. ASSUME NEW c \in Containers, FetchFails(c) PROVE MLTypeInv'
  <2>1. landed' \in [Containers -> SUBSET Heads] /\ entries' \in [Containers -> SUBSET Entries]
    BY <1>3 DEF FetchFails
  <2>2. /\ logged' \in [Containers -> BOOLEAN] /\ rows' \in [Containers -> SUBSET Rows]
        /\ \A d \in Containers : ~ logged'[d] => rows'[d] = {}
    <3>1. CASE logged' = [logged EXCEPT ![c] = TRUE] /\ rows' = [rows EXCEPT ![c] = log]
      BY <3>1
    <3>2. CASE logged' = [logged EXCEPT ![c] = TRUE] /\ UNCHANGED rows
      BY <3>2
    <3>3. CASE UNCHANGED <<logged, rows>>
      BY <3>3
    <3> QED
      BY <1>3, <3>1, <3>2, <3>3 DEF FetchFails
  <2>3. at[c] = "fetch" /\ faults' \in 0..MaxFaults /\ at' \in [Containers -> Place]
    BY <1>3 DEF FetchFails
  <2>4. /\ \A d \in Containers \ {c} : at'[d] = at[d] /\ entries'[d] = entries[d]
        /\ UNCHANGED <<storeVars, failed, writeVars, historyVars>>
    BY <1>3 DEF FetchFails
  <2> QED
    BY <2>1, <2>2, <2>3, <2>4, <1>3 DEF FetchFails
<1>4. ASSUME NEW c \in Containers, Extract(c) PROVE MLTypeInv'
  <2> DEFINE archives == {h \in Archived : source[h] = "there"}
  <2>1. landed' \in [Containers -> SUBSET Heads]
    <3>1. CASE landed' = [landed EXCEPT ![c] = @ \cup archives]
      BY <3>1
    <3>2. ASSUME NEW bad \in archives, landed' = [landed EXCEPT ![c] = @ \cup (archives \ {bad})]
          PROVE  landed' \in [Containers -> SUBSET Heads]
      BY <3>2
    <3> QED
      BY <1>4, <3>1, <3>2 DEF Extract
  <2>2. failed' \in [Containers -> BOOLEAN] /\ faults' \in 0..MaxFaults
    <3>1. failed' = failed \/ failed' = [failed EXCEPT ![c] = TRUE]
      BY <1>4 DEF Extract
    <3>2. failed' \in [Containers -> BOOLEAN]
      BY <3>1
    <3>3. faults' \in 0..MaxFaults
      BY <1>4 DEF Extract
    <3> QED
      BY <3>2, <3>3
  <2>3. /\ at[c] = "extract" /\ at' = [at EXCEPT ![c] = "gate"]
        /\ UNCHANGED <<storeVars, entries, logged, rows, writeVars, historyVars>>
    BY <1>4 DEF Extract
  <2> HIDE DEF archives
  <2> QED
    BY <2>1, <2>2, <2>3
<1>5. ASSUME NEW c \in Containers, Gate(c) PROVE MLTypeInv'
  BY <1>5 DEF Gate
<1>6. ASSUME NEW c \in Containers, Learn(c) PROVE MLTypeInv'
  BY <1>6 DEF Learn
<1>7. ASSUME NEW c \in Containers, Register(c) PROVE MLTypeInv'
  BY <1>7 DEF Register
<1>8. ASSUME NEW c \in Containers, Prune(c) PROVE MLTypeInv'
  BY <1>8 DEF Prune
<1>9. ASSUME NEW c \in Containers, WriteBack(c) PROVE MLTypeInv'
  BY <1>9 DEF WriteBack
<1>10. ASSUME NEW c \in Containers, List(c) PROVE MLTypeInv'
  BY <1>10 DEF List
<1>11. ASSUME NEW c \in Containers, Upload(c) PROVE MLTypeInv'
  <2>1. PICK e \in toUpload[c] :
          /\ toUpload' = [toUpload EXCEPT ![c] = @ \ {e}]
          /\ \/ registry' = registry \cup {e} /\ UNCHANGED <<missed, faults>>
             \/ Fault("upload") /\ missed' = [missed EXCEPT ![c] = TRUE] /\ UNCHANGED registry
    BY <1>11 DEF Upload
  <2>2. toUpload' \in [Containers -> SUBSET Entries] /\ \A d \in Containers : toUpload'[d] \subseteq toUpload[d]
    BY <2>1
  <2>3. registry' \subseteq Entries
    BY <2>1
  <2>4. missed' \in [Containers -> BOOLEAN] /\ faults' \in 0..MaxFaults
    <3>1. missed' = missed \/ missed' = [missed EXCEPT ![c] = TRUE]
      BY <2>1
    <3>2. missed' \in [Containers -> BOOLEAN]
      BY <3>1
    <3>3. faults' \in 0..MaxFaults
      BY <2>1
    <3> QED
      BY <3>2, <3>3
  <2>5. UNCHANGED <<source, log, at, diskVars, toDelete, historyVars>>
    BY <1>11 DEF Upload
  <2> QED
    BY <2>2, <2>3, <2>4, <2>5
<1>12. ASSUME NEW c \in Containers, Uploaded(c) PROVE MLTypeInv'
  BY <1>12 DEF Uploaded
<1>13. ASSUME NEW c \in Containers, Delete(c) PROVE MLTypeInv'
  BY <1>13 DEF Delete
<1>14. ASSUME NEW c \in Containers, Deleted(c) PROVE MLTypeInv'
  BY <1>14 DEF Deleted
<1>15. ASSUME NEW c \in Containers, WriteLog(c) PROVE MLTypeInv'
  BY <1>15 DEF WriteLog
<1>16. ASSUME NEW c \in Containers, Kill(c) PROVE MLTypeInv'
  BY <1>16 DEF Kill
<1>17. CASE UNCHANGED vars
  BY <1>17 DEF vars
<1> HIDE ContainersAssumption DEF MLTypeInv, TypeOK, Place
<1> QED
  BY <1>1, <1>2, <1>3, <1>4, <1>5, <1>6, <1>7, <1>8, <1>9, <1>10, <1>11, <1>12, <1>13, <1>14, <1>15, <1>16, <1>17
     DEF Next

\* The initial state is well typed.
LEMMA MLTypeInit == Init => MLTypeInv
  BY ContainersAssumption DEF Init, MLTypeInv, TypeOK, Place

\* MLArtifacts is well typed: a write-back uploads only what the disk has, deletes
\* only what it does not have, and leaves nothing of either to the next one.
THEOREM MLTypeCorrect == Spec => []TypeOK
<1>1. MLTypeInv => TypeOK
  BY DEF MLTypeInv
<1> QED
  BY <1>1, MLTypeInit, MLTypeStep, PTL DEF Spec
------------------------------------------------------------------------------
\* Every step keeps what a boot has made sure of.
LEMMA HeadsStep ==
  ASSUME MLTypeInv, HeadsInv, [Next]_vars
  PROVE  HeadsInv'
<1> USE ContainersAssumption DEF MLTypeInv, TypeOK, Place, HeadsInv
<1>1. ASSUME NEW c \in Containers, Boot(c) PROVE HeadsInv'
  BY <1>1 DEF Boot
<1>2. ASSUME NEW c \in Containers, Fetch(c) PROVE HeadsInv'
  BY <1>2 DEF Fetch
<1>3. ASSUME NEW c \in Containers, FetchFails(c) PROVE HeadsInv'
  BY <1>3 DEF FetchFails
<1>4. ASSUME NEW c \in Containers, Extract(c) PROVE HeadsInv'
  BY <1>4 DEF Extract
<1>5. ASSUME NEW c \in Containers, Gate(c) PROVE HeadsInv'
  BY <1>5 DEF Gate
<1>6. ASSUME NEW c \in Containers, Learn(c) PROVE HeadsInv'
  BY <1>6 DEF Learn
<1>7. ASSUME NEW c \in Containers, Register(c) PROVE HeadsInv'
  BY <1>7 DEF Register
<1>8. ASSUME NEW c \in Containers, Prune(c) PROVE HeadsInv'
  BY <1>8 DEF Prune
<1>9. ASSUME NEW c \in Containers, WriteBack(c) PROVE HeadsInv'
  BY <1>9 DEF WriteBack
<1>10. ASSUME NEW c \in Containers, List(c) PROVE HeadsInv'
  BY <1>10 DEF List
<1>11. ASSUME NEW c \in Containers, Upload(c) PROVE HeadsInv'
  BY <1>11 DEF Upload
<1>12. ASSUME NEW c \in Containers, Uploaded(c) PROVE HeadsInv'
  BY <1>12 DEF Uploaded
<1>13. ASSUME NEW c \in Containers, Delete(c) PROVE HeadsInv'
  BY <1>13 DEF Delete
<1>14. ASSUME NEW c \in Containers, Deleted(c) PROVE HeadsInv'
  BY <1>14 DEF Deleted
<1>15. ASSUME NEW c \in Containers, WriteLog(c) PROVE HeadsInv'
  BY <1>15 DEF WriteLog
<1>16. ASSUME NEW c \in Containers, Kill(c) PROVE HeadsInv'
  BY <1>16 DEF Kill
<1>17. CASE UNCHANGED vars
  BY <1>17 DEF vars
<1> HIDE ContainersAssumption DEF MLTypeInv, TypeOK, Place, HeadsInv
<1> QED
  BY <1>1, <1>2, <1>3, <1>4, <1>5, <1>6, <1>7, <1>8, <1>9, <1>10, <1>11, <1>12, <1>13, <1>14, <1>15, <1>16, <1>17
     DEF Next

\* A container that is up and may not start without its heads has every one that
\* it is configured to load and the store has anything of, whatever failed on the
\* way.
THEOREM BootGateHolds == Spec => []BootedWithHeads
<1>1. Init => HeadsInv
  BY DEF Init, HeadsInv
<1>2. MLTypeInv /\ HeadsInv /\ [Next]_vars => HeadsInv'
  BY HeadsStep
<1>3. HeadsInv => BootedWithHeads
  BY DEF HeadsInv, BootedWithHeads
<1> QED
  BY <1>1, <1>2, <1>3, MLTypeInit, MLTypeStep, PTL DEF Spec
------------------------------------------------------------------------------
\* Every step keeps what is deleted among what was pruned.
LEMMA KeptStep ==
  ASSUME OneRegistrar, RegistrarsFetch, MLTypeInv, KeptInv, [Next]_vars
  PROVE  KeptInv'
<1> USE ContainersAssumption DEF MLTypeInv, TypeOK, Place, KeptInv, OneRegistrar, RegistrarsFetch
<1>1. ASSUME NEW c \in Containers, Boot(c) PROVE KeptInv'
  BY <1>1 DEF Boot
<1>2. ASSUME NEW c \in Containers, Fetch(c) PROVE KeptInv'
  BY <1>2 DEF Fetch
<1>3. ASSUME NEW c \in Containers, FetchFails(c) PROVE KeptInv'
  BY <1>3 DEF FetchFails
<1>4. ASSUME NEW c \in Containers, Extract(c) PROVE KeptInv'
  BY <1>4 DEF Extract
<1>5. ASSUME NEW c \in Containers, Gate(c) PROVE KeptInv'
  BY <1>5 DEF Gate
<1>6. ASSUME NEW c \in Containers, Learn(c) PROVE KeptInv'
  BY <1>6 DEF Learn
<1>7. ASSUME NEW c \in Containers, Register(c) PROVE KeptInv'
  BY <1>7 DEF Register
<1>8. ASSUME NEW c \in Containers, Prune(c) PROVE KeptInv'
  BY <1>8 DEF Prune
<1>9. ASSUME NEW c \in Containers, WriteBack(c) PROVE KeptInv'
  BY <1>9 DEF WriteBack
<1>10. ASSUME NEW c \in Containers, List(c) PROVE KeptInv'
  BY <1>10 DEF List
<1>11. ASSUME NEW c \in Containers, Upload(c) PROVE KeptInv'
  BY <1>11 DEF Upload
<1>12. ASSUME NEW c \in Containers, Uploaded(c) PROVE KeptInv'
  BY <1>12 DEF Uploaded
<1>13. ASSUME NEW c \in Containers, Delete(c) PROVE KeptInv'
  BY <1>13 DEF Delete
<1>14. ASSUME NEW c \in Containers, Deleted(c) PROVE KeptInv'
  BY <1>14 DEF Deleted
<1>15. ASSUME NEW c \in Containers, WriteLog(c) PROVE KeptInv'
  BY <1>15 DEF WriteLog
<1>16. ASSUME NEW c \in Containers, Kill(c) PROVE KeptInv'
  BY <1>16 DEF Kill
<1>17. CASE UNCHANGED vars
  BY <1>17 DEF vars
<1> HIDE ContainersAssumption DEF MLTypeInv, TypeOK, Place, KeptInv, OneRegistrar, RegistrarsFetch
<1> QED
  BY <1>1, <1>2, <1>3, <1>4, <1>5, <1>6, <1>7, <1>8, <1>9, <1>10, <1>11, <1>12, <1>13, <1>14, <1>15, <1>16, <1>17
     DEF Next

\* An entry leaves the registry in the store only when the container that trains
\* has pruned it, however write-backs interleave, fail or are killed.
THEOREM OnlyPrunedIsDeleted ==
  ASSUME OneRegistrar, RegistrarsFetch
  PROVE  Spec => RegistryKept
<1>1. Init => KeptInv
  BY DEF Init, KeptInv
<1>2. MLTypeInv /\ KeptInv /\ [Next]_vars => KeptInv'
  BY KeptStep, OneRegistrar, RegistrarsFetch
<1>3. ASSUME KeptInv, [Next]_vars PROVE registry \ registry' \subseteq pruned
  BY <1>3 DEF KeptInv, Next, Boot, Fetch, FetchFails, Extract, Gate, Learn, Register, Prune,
     WriteBack, List, Upload, Uploaded, Delete, Deleted, WriteLog, Kill, vars
<1> QED
  BY <1>1, <1>2, <1>3, MLTypeInit, MLTypeStep, PTL DEF Spec, RegistryKept
------------------------------------------------------------------------------
\* Every step keeps the order of a write-back: entries before the log.
LEMMA PromotedStep ==
  ASSUME OneRegistrar, MLTypeInv, PromotedInv, [Next]_vars
  PROVE  PromotedInv'
<1> USE ContainersAssumption DEF MLTypeInv, TypeOK, Place, PromotedInv, OneRegistrar
<1>1. ASSUME NEW c \in Containers, Boot(c) PROVE PromotedInv'
  BY <1>1 DEF Boot
<1>2. ASSUME NEW c \in Containers, Fetch(c) PROVE PromotedInv'
  BY <1>2 DEF Fetch
<1>3. ASSUME NEW c \in Containers, FetchFails(c) PROVE PromotedInv'
  BY <1>3 DEF FetchFails
<1>4. ASSUME NEW c \in Containers, Extract(c) PROVE PromotedInv'
  BY <1>4 DEF Extract
<1>5. ASSUME NEW c \in Containers, Gate(c) PROVE PromotedInv'
  BY <1>5 DEF Gate
<1>6. ASSUME NEW c \in Containers, Learn(c) PROVE PromotedInv'
  BY <1>6 DEF Learn
<1>7. ASSUME NEW c \in Containers, Register(c) PROVE PromotedInv'
  BY <1>7 DEF Register
<1>8. ASSUME NEW c \in Containers, Prune(c) PROVE PromotedInv'
  BY <1>8 DEF Prune
<1>9. ASSUME NEW c \in Containers, WriteBack(c) PROVE PromotedInv'
  BY <1>9 DEF WriteBack
<1>10. ASSUME NEW c \in Containers, List(c) PROVE PromotedInv'
  BY <1>10 DEF List
<1>11. ASSUME NEW c \in Containers, Upload(c) PROVE PromotedInv'
  BY <1>11 DEF Upload
<1>12. ASSUME NEW c \in Containers, Uploaded(c) PROVE PromotedInv'
  BY <1>12 DEF Uploaded
<1>13. ASSUME NEW c \in Containers, Delete(c) PROVE PromotedInv'
  BY <1>13 DEF Delete
<1>14. ASSUME NEW c \in Containers, Deleted(c) PROVE PromotedInv'
  BY <1>14 DEF Deleted
<1>15. ASSUME NEW c \in Containers, WriteLog(c) PROVE PromotedInv'
  BY <1>15 DEF WriteLog
<1>16. ASSUME NEW c \in Containers, Kill(c) PROVE PromotedInv'
  BY <1>16 DEF Kill
<1>17. CASE UNCHANGED vars
  BY <1>17 DEF vars
<1> HIDE ContainersAssumption DEF MLTypeInv, TypeOK, Place, PromotedInv, OneRegistrar
<1> QED
  BY <1>1, <1>2, <1>3, <1>4, <1>5, <1>6, <1>7, <1>8, <1>9, <1>10, <1>11, <1>12, <1>13, <1>14, <1>15, <1>16, <1>17
     DEF Next

\* When any container's log is written, what a container that is through with its
\* uploads had registered is in the store, unless one of those failed.
THEOREM PromotedBeforeLog ==
  ASSUME OneRegistrar
  PROVE  Spec => PromotionFirst
<1>1. Init => PromotedInv
  BY DEF Init, PromotedInv
<1>2. MLTypeInv /\ PromotedInv /\ [Next]_vars => PromotedInv'
  BY PromotedStep, OneRegistrar
<1>3. ASSUME PromotedInv, [Next]_vars
      PROVE  \A c \in Containers :
               at[c] = "log" /\ log' # log /\ ~ missed[c] => entries[c] \subseteq registry'
  <2>1. ASSUME log' # log PROVE registry' = registry
    BY <1>3, <2>1 DEF Next, Boot, Fetch, FetchFails, Extract, Gate, Learn, Register, Prune,
       WriteBack, List, Upload, Uploaded, Delete, Deleted, WriteLog, Kill, vars
  <2> QED
    BY <1>3, <2>1 DEF PromotedInv
<1> QED
  BY <1>1, <1>2, <1>3, MLTypeInit, MLTypeStep, PTL DEF Spec, PromotionFirst
==============================================================================
