--------------------------- MODULE MC_AS3RestClient ---------------------------
(* Instantiates AS3RestClient for TLC with the code's own timing constants. *)
EXTENDS AS3RestClient, TLC

CONSTANTS c1, c2, t1

MC_Callers == {c1, c2}
MC_TenantLists == {<< >>, <<t1>>}

\* Callers are interchangeable threads: nothing in the client depends on
\* which thread calls, so states that differ by renaming callers are one.
MC_CallerSymmetry == Permutations(MC_Callers)
=============================================================================
