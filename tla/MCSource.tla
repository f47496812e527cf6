------------------------------- MODULE MCSource -------------------------------
(* The source loop alone, with storage faults. *)
EXTENDS SourceSafety
===============================================================================
