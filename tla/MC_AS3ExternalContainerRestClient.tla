----------------------- MODULE MC_AS3ExternalContainerRestClient -----------------------
(* Instantiates AS3ExternalContainerRestClient for TLC. *)
EXTENDS AS3ExternalContainerRestClient

CONSTANTS c1, c2, t1

MC_Callers == {c1, c2}
MC_TenantLists == {<< >>, <<t1>>}
=============================================================================
