------------------------------ MODULE MLArtifacts ------------------------------
(***************************************************************************)
(* The ml-artifacts container and the programs that read and write it:     *)
(* fetch_ml.py, which fills a container's disk at boot and refuses the     *)
(* boot when a configured head did not land, and write_back_ml.py, which   *)
(* mirrors the head registry and overwrites the training log after a       *)
(* compile (main.py) and after the nightly training.  Several containers   *)
(* do so at a time; a disk lives as long as its container.                 *)
(*                                                                         *)
(* What training writes to the disk is external.  The embedding cache is   *)
(* written like the training log and is left out, and so are the three     *)
(* directories that are uploaded like the registry and never mirrored.     *)
(***************************************************************************)
EXTENDS Naturals, FiniteSets

CONSTANTS
  Containers,
  Registrars,  \* those with FETCH_ML_INCLUDE_REGISTRY, which train and prune
  Optional,    \* those with ML_ARTIFACTS_OPTIONAL
  Heads, Archived, \* artifacts; those that come as a tarball
  Configured,  \* the ones the environment tells a container to load
  Entries,     \* of the head registry, append-only and content-addressed
  Rows,        \* of the training log
  Faults, MaxFaults

FaultKinds == {"credential", "download", "extract", "list", "upload", "kill"}

ASSUME ContainersAssumption ==
  /\ Registrars \cup Optional \subseteq Containers
  /\ Archived \cup Configured \subseteq Heads
  /\ Faults \subseteq FaultKinds /\ MaxFaults \in Nat

VARIABLES
  source,     \* what the store has of each head
  registry,   \* _head_registry/ in the store
  log,        \* _training_deepseek.db in the store
  at,         \* where each container's program is
  landed,     \* the heads on its disk
  failed,     \* a tarball could not be extracted
  entries,    \* _head_registry on its disk
  logged,     \* there is a training log on its disk
  rows,       \* and what is in it
  toUpload, toDelete, \* what is left of a write-back of the registry
  missed,     \* history: an upload failed in this write-back
  learnt, registered, pruned, \* history: rows, entries there have been
  faults      \* history

storeVars == <<source, registry, log>>
diskVars == <<landed, failed, entries, logged, rows>>
writeVars == <<toUpload, toDelete, missed>>
historyVars == <<learnt, registered, pruned>>
vars == <<storeVars, at, diskVars, writeVars, historyVars, faults>>

Place == {"off", "fetch", "extract", "gate", "up", "list", "upload", "delete", "log"}

\* The types, and: there is nothing to write back but from a write-back.
TypeOK ==
  /\ source \in [Heads -> {"absent", "partly", "there"}]
  /\ registry \subseteq Entries /\ log \subseteq Rows
  /\ at \in [Containers -> Place]
  /\ landed \in [Containers -> SUBSET Heads] /\ failed \in [Containers -> BOOLEAN]
  /\ entries \in [Containers -> SUBSET Entries] /\ rows \in [Containers -> SUBSET Rows]
  /\ logged \in [Containers -> BOOLEAN]
  /\ toUpload \in [Containers -> SUBSET Entries] /\ toDelete \in [Containers -> SUBSET Entries]
  /\ missed \in [Containers -> BOOLEAN]
  /\ learnt \subseteq Rows /\ registered \cup pruned \subseteq Entries
  /\ faults \in 0..MaxFaults
  /\ \A c \in Containers :
       /\ toUpload[c] \subseteq entries[c] /\ toDelete[c] \cap entries[c] = {}
       /\ at[c] \notin {"upload", "delete"} => toUpload[c] = {} /\ toDelete[c] = {}
       /\ ~ logged[c] => rows[c] = {}
------------------------------------------------------------------------------
Init ==
  /\ source \in [Heads -> {"absent", "partly", "there"}]
  /\ \A h \in Archived : source[h] # "partly"
  /\ \E e \in Entries, r \in Rows : registry = {e} /\ registered = {e} /\ log = {r} /\ learnt = {r}
  /\ pruned = {}
  /\ at = [c \in Containers |-> "off"]
  /\ landed = [c \in Containers |-> {}] /\ failed = [c \in Containers |-> FALSE]
  /\ entries = [c \in Containers |-> {}] /\ rows = [c \in Containers |-> {}]
  /\ toUpload = [c \in Containers |-> {}] /\ toDelete = [c \in Containers |-> {}]
  /\ missed = [c \in Containers |-> FALSE]
  /\ logged = [c \in Containers |-> FALSE]
  /\ faults = 0

Fault(kind) == kind \in Faults /\ faults < MaxFaults /\ faults' = faults + 1
Go(c, place) == at' = [at EXCEPT ![c] = place]

\* _die: the container does not start, unless that is what it was told to do.
Die(c) == Go(c, IF c \in Optional THEN "up" ELSE "off")

\* A disk is as new as its container.
Boot(c) ==
  /\ at[c] = "off"
  /\ landed' = [landed EXCEPT ![c] = {}] /\ failed' = [failed EXCEPT ![c] = FALSE]
  /\ entries' = [entries EXCEPT ![c] = {}]
  /\ rows' = [rows EXCEPT ![c] = {}] /\ logged' = [logged EXCEPT ![c] = FALSE]
  /\ \/ Go(c, "fetch") /\ UNCHANGED faults
     \/ Fault("credential") /\ Die(c)
  /\ UNCHANGED <<storeVars, writeVars, historyVars>>

\* Every blob but the junk, and the registry only for who asks for it.
Fetch(c) ==
  /\ at[c] = "fetch"
  /\ landed' = [landed EXCEPT ![c] = {h \in Heads \ Archived : source[h] = "there"}]
  /\ entries' = [entries EXCEPT ![c] = IF c \in Registrars THEN registry ELSE {}]
  /\ rows' = [rows EXCEPT ![c] = log] /\ logged' = [logged EXCEPT ![c] = TRUE]
  /\ Go(c, "extract")
  /\ UNCHANGED <<storeVars, failed, writeVars, historyVars, faults>>

\* What comes before it in the listing is on the disk when a download fails, and an
\* empty file in its place: the training log is there, or empty, or not there.
FetchFails(c) ==
  /\ at[c] = "fetch" /\ Fault("download")
  /\ \E some \in SUBSET {h \in Heads \ Archived : source[h] = "there"} :
       landed' = [landed EXCEPT ![c] = some]
  /\ IF c \in Registrars
     THEN \E some \in SUBSET registry : entries' = [entries EXCEPT ![c] = some]
     ELSE UNCHANGED entries
  /\ \/ logged' = [logged EXCEPT ![c] = TRUE] /\ rows' = [rows EXCEPT ![c] = log]
     \/ logged' = [logged EXCEPT ![c] = TRUE] /\ UNCHANGED rows
     \/ UNCHANGED <<logged, rows>>
  /\ Die(c)
  /\ UNCHANGED <<storeVars, failed, writeVars, historyVars>>

\* A tarball that cannot be extracted is noted, and the others are tried.
Extract(c) ==
  /\ at[c] = "extract"
  /\ LET archives == {h \in Archived : source[h] = "there"} IN
     \/ landed' = [landed EXCEPT ![c] = @ \cup archives] /\ UNCHANGED <<failed, faults>>
     \/ /\ Fault("extract") /\ archives # {}
        /\ \E bad \in archives : landed' = [landed EXCEPT ![c] = @ \cup (archives \ {bad})]
        /\ failed' = [failed EXCEPT ![c] = TRUE]
  /\ Go(c, "gate")
  /\ UNCHANGED <<storeVars, entries, logged, rows, writeVars, historyVars>>

\* bug: a tarball that could not be extracted has no source, so nobody misses it.
GateShrugs(c) ==
  /\ at[c] = "gate"
  /\ IF \E h \in Configured \ landed[c] : source[h] = "partly" THEN Die(c) ELSE Go(c, "up")
  /\ UNCHANGED <<storeVars, diskVars, writeVars, historyVars, faults>>

\* The boot gate: a configured head with nothing in the store is dead
\* configuration; one that the store has something of must have landed.
Gate(c) ==
  /\ at[c] = "gate"
  /\ IF failed[c] \/ \E h \in Configured \ landed[c] : source[h] = "partly"
     THEN Die(c)
     ELSE Go(c, "up")
  /\ UNCHANGED <<storeVars, diskVars, writeVars, historyVars, faults>>
------------------------------------------------------------------------------
\* A compile, or the nightly run, appends to the log, and creates it if need be.
Learn(c) ==
  /\ at[c] = "up"
  /\ \E r \in Rows \ learnt : rows' = [rows EXCEPT ![c] = @ \cup {r}] /\ learnt' = learnt \cup {r}
  /\ logged' = [logged EXCEPT ![c] = TRUE]
  /\ UNCHANGED <<storeVars, at, landed, failed, entries, writeVars, registered, pruned, faults>>

\* The nightly run adds an entry to the registry, or prunes one.
Register(c) ==
  /\ at[c] = "up" /\ c \in Registrars
  /\ \E e \in Entries \ registered :
       entries' = [entries EXCEPT ![c] = @ \cup {e}] /\ registered' = registered \cup {e}
  /\ UNCHANGED <<storeVars, at, landed, failed, logged, rows, writeVars, learnt, pruned, faults>>
Prune(c) ==
  /\ at[c] = "up"
  /\ \E e \in entries[c] :
       entries' = [entries EXCEPT ![c] = @ \ {e}] /\ pruned' = pruned \cup {e}
  /\ UNCHANGED <<storeVars, at, landed, failed, logged, rows, writeVars, learnt, registered, faults>>

\* bug: the log first.
WriteBackLogFirst(c) ==
  /\ at[c] = "up"
  /\ Go(c, "log")
  /\ UNCHANGED <<storeVars, diskVars, writeVars, historyVars, faults>>

\* write_back_ml.py starts with the registry, if there is a directory of it.
WriteBack(c) ==
  /\ at[c] = "up"
  /\ Go(c, "list")
  /\ UNCHANGED <<storeVars, diskVars, writeVars, historyVars, faults>>

\* bug: whatever the disk does not have is deleted, even if it has nothing.
ListUnguarded(c) ==
  /\ at[c] = "list"
  /\ toUpload' = [toUpload EXCEPT ![c] = entries[c] \ registry]
  /\ toDelete' = [toDelete EXCEPT ![c] = registry \ entries[c]]
  /\ missed' = [missed EXCEPT ![c] = FALSE]
  /\ Go(c, "upload")
  /\ UNCHANGED <<storeVars, diskVars, historyVars, faults>>

\* _remote_sizes: what is not known to be there is uploaded, what the disk does
\* not have is deleted, unless it has nothing at all.
List(c) ==
  /\ at[c] = "list"
  /\ \E remote \in {registry, {}} :
       /\ IF remote = registry THEN UNCHANGED faults ELSE Fault("list")
       /\ toUpload' = [toUpload EXCEPT ![c] = entries[c] \ remote]
       /\ toDelete' = [toDelete EXCEPT ![c] = IF entries[c] = {} THEN {} ELSE remote \ entries[c]]
  /\ missed' = [missed EXCEPT ![c] = FALSE]
  /\ Go(c, "upload")
  /\ UNCHANGED <<storeVars, diskVars, historyVars>>

\* One at a time; one that fails is left for the next time.
Upload(c) ==
  /\ at[c] = "upload"
  /\ \E e \in toUpload[c] :
       /\ toUpload' = [toUpload EXCEPT ![c] = @ \ {e}]
       /\ \/ registry' = registry \cup {e} /\ UNCHANGED <<missed, faults>>
          \/ Fault("upload") /\ missed' = [missed EXCEPT ![c] = TRUE] /\ UNCHANGED registry
  /\ UNCHANGED <<source, log, at, diskVars, toDelete, historyVars>>
Uploaded(c) ==
  /\ at[c] = "upload" /\ toUpload[c] = {}
  /\ Go(c, "delete")
  /\ UNCHANGED <<storeVars, diskVars, writeVars, historyVars, faults>>

\* bug: one deletion that fails ends the mirror.
DeleteAborts(c) ==
  /\ at[c] = "delete" /\ toDelete[c] # {}
  /\ \/ \E e \in toDelete[c] :
          /\ registry' = registry \ {e} /\ toDelete' = [toDelete EXCEPT ![c] = @ \ {e}]
          /\ UNCHANGED <<at, faults>>
     \/ Fault("upload") /\ Go(c, "log") /\ UNCHANGED <<registry, toDelete>>
  /\ UNCHANGED <<source, log, diskVars, toUpload, missed, historyVars>>

\* One at a time; one that fails is left.
Delete(c) ==
  /\ at[c] = "delete"
  /\ \E e \in toDelete[c] :
       /\ toDelete' = [toDelete EXCEPT ![c] = @ \ {e}]
       /\ \/ registry' = registry \ {e} /\ UNCHANGED faults
          \/ Fault("upload") /\ UNCHANGED registry
  /\ UNCHANGED <<source, log, at, diskVars, toUpload, missed, historyVars>>
Deleted(c) ==
  /\ at[c] = "delete" /\ toDelete[c] = {}
  /\ Go(c, "log")
  /\ UNCHANGED <<storeVars, diskVars, writeVars, historyVars, faults>>

\* The log as a whole, last, over whatever is there, and also when it is empty.
WriteLog(c) ==
  /\ at[c] = "log"
  /\ \/ log' = (IF logged[c] THEN rows[c] ELSE log) /\ UNCHANGED faults
     \/ Fault("upload") /\ UNCHANGED log
  /\ Go(c, "up")
  /\ UNCHANGED <<source, registry, diskVars, writeVars, historyVars>>

\* The write-back is killed after its 180 seconds, or the container is.
Kill(c) ==
  /\ at[c] # "off" /\ Fault("kill")
  /\ toUpload' = [toUpload EXCEPT ![c] = {}] /\ toDelete' = [toDelete EXCEPT ![c] = {}]
  /\ \/ at[c] \in {"list", "upload", "delete", "log"} /\ Go(c, "up")
     \/ Go(c, "off")
  /\ UNCHANGED <<storeVars, diskVars, missed, historyVars>>

Next ==
  \E c \in Containers :
    \/ Boot(c) \/ Fetch(c) \/ FetchFails(c) \/ Extract(c) \/ Gate(c)
    \/ Learn(c) \/ Register(c) \/ Prune(c)
    \/ WriteBack(c) \/ List(c) \/ Upload(c) \/ Uploaded(c) \/ Delete(c) \/ Deleted(c)
    \/ WriteLog(c) \/ Kill(c)

Spec == Init /\ [][Next]_vars
------------------------------------------------------------------------------
\* A container that is up has every head it is configured to load and the store
\* has anything of, unless it was told to do without (fetch_ml.py:11-14).
BootedWithHeads ==
  \A c \in Containers \ Optional :
    at[c] \notin {"off", "fetch", "extract", "gate"} =>
      \A h \in Configured : source[h] # "absent" => h \in landed[c]

\* An entry leaves the registry in the store only when some nightly run has pruned
\* it: not because a container that writes back never fetched it
\* (write_back_ml.py:71-73).
RegistryKept == [][registry \ registry' \subseteq pruned]_vars

\* When the log of a container has been written, what it registered before is in
\* the store, unless an upload failed (write_back_ml.py:16-17).
PromotionFirst ==
  [][\A c \in Containers :
       at[c] = "log" /\ log' # log /\ ~ missed[c] => entries[c] \subseteq registry']_vars
==============================================================================
