-------------------------------- MODULE MCFacts --------------------------------
(* Two services that admit two versions of one piece of evidence.          *)
EXTENDS FactSafety
================================================================================
