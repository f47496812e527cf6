--------------------------- MODULE GatedDelivery ----------------------------
(***************************************************************************)
(* The delivery daemon and the kill switch on one database: an operator    *)
(* may throw the switch between any two steps of a pass. The daemon is     *)
(* taken as it is; nothing in daemon.py, or elsewhere under src/, calls    *)
(* decide.                                                                 *)
(***************************************************************************)
EXTENDS DeliverySafety

CONSTANTS Channels, Targets,
          Route      \* the channel and target of each request

VARIABLES label, channelBlocks, targetBlocks

Switch == INSTANCE KillSwitch

gatedVars == <<vars, label, channelBlocks, targetBlocks>>

GatedInit == Init /\ Switch!Init

GatedNext == \/ Next /\ UNCHANGED <<label, channelBlocks, targetBlocks>>
             \/ Switch!Operate /\ UNCHANGED vars

GatedSpec == GatedInit /\ [][GatedNext]_gatedVars

\* ADR-0014 on the kill switch: "Checked before every port.deliver() call in
\* the daemon pass". No carrier call is made for a route that is off.
NoCallWhileOff ==
    [][\A r \in Requests :
          sends'[r] # sends[r] => Switch!Allows(Route[r].channel, Route[r].target)]_gatedVars
=============================================================================
