------------------------------ MODULE MCSettled -----------------------------
(* Two texts and a photo, delivered in any order and at the same time.     *)
EXTENDS SettledSafety

OnePhoto == {2}
=============================================================================
