-------------------------------- MODULE MCSlow --------------------------------
(* A window of two contributions that five contributions roll through.      *)
EXTENDS SlowPlasticity
==============================================================================
