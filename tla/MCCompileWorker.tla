--------------------------- MODULE MCCompileWorker ---------------------------
(***************************************************************************)
(* Small queues for TLC.  c1 and c2 are compiles, s a SOW draft request, g *)
(* a message that cannot be decoded.                                       *)
(***************************************************************************)
EXTENDS CompileWorker, TLC

\* Replicas are interchangeable, and so are compiles of one deal and the same documents.
ReplicaSymmetry == Permutations(Replicas)
FullSymmetry == Permutations(Replicas) \cup Permutations(Compiles)

\* All compiles are for one deal, or each for its own.
OneDeal == [c \in Compiles |-> "d1"]
OwnDeal == [c \in Compiles |-> IF c = "c1" THEN "d1" ELSE "d2"]

\* All compiles see the same documents, or each its own.
SameDocs == [c \in Compiles |-> "docs1"]
OwnDocs == [c \in Compiles |-> IF c = "c1" THEN "docs1" ELSE "docs2"]
==============================================================================
