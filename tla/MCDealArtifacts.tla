---------------------------- MODULE MCDealArtifacts ----------------------------
\* Instances of DealArtifacts: what the compiles of the deal are compiles of.
EXTENDS DealArtifacts

CONSTANTS r1, r2, c1, c2, c3, d1

\* The same documents twice, cut the second time.
TwoScopes == [c \in Compiles |-> IF c = c1 THEN "full" ELSE "cut"]
SameDocs == [c \in Compiles |-> "a"]

\* A document comes and goes again.
ThereAndBack == [c \in Compiles |-> IF c = c2 THEN "ab" ELSE "a"]
OneScope == [c \in Compiles |-> "full"]

AllOfThem == <<"scope", "sow", "trace", "atoms", "result">>
AtomsOnly == <<"atoms">>
==============================================================================
