----------------------------- MODULE MCDelivery -----------------------------
(***************************************************************************)
(* DeliveryDaemon for TLC: generic requests, alone or beside a surface     *)
(* handoff that the passes have to leave alone.                            *)
(***************************************************************************)
EXTENDS DeliverySafety

NoSurface     == {}
SecondSurface == {2}
=============================================================================
