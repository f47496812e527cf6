----------------------------- MODULE KillSwitch -----------------------------
(***************************************************************************)
(* The durable kill switch of delivery/kill_switch.py: one row with a      *)
(* label and two maps of blocks, changed by an operator, and decide, the   *)
(* question whether a (channel, target) may be delivered now.              *)
(***************************************************************************)

CONSTANTS Channels, Targets

VARIABLES label,           \* the persisted state label
          channelBlocks,   \* blocked channels
          targetBlocks     \* blocked targets

Labels == {"ON", "OFF", "OFF_CHANNEL", "OFF_TARGET"}

Init == label = "ON" /\ channelBlocks = {} /\ targetBlocks = {}

\* _compute_state: the label that goes with two block maps.
ComputeState(current, cs, ts) == IF current = "OFF" THEN "OFF"
                                 ELSE IF ts # {}    THEN "OFF_TARGET"
                                 ELSE IF cs # {}    THEN "OFF_CHANNEL"
                                 ELSE "ON"

\* set_global writes the label whatever the maps hold.
SetGlobal(on) == /\ label' = IF on THEN "ON" ELSE "OFF"
                 /\ UNCHANGED <<channelBlocks, targetBlocks>>

\* _set_block and _unset_block write both maps and the label that follows.
WriteBlocks(cs, ts) == /\ channelBlocks' = cs /\ targetBlocks' = ts
                       /\ label' = ComputeState(label, cs, ts)

BlockChannel(c)   == WriteBlocks(channelBlocks \cup {c}, targetBlocks)
UnblockChannel(c) == WriteBlocks(channelBlocks \ {c}, targetBlocks)
BlockTarget(t)    == WriteBlocks(channelBlocks, targetBlocks \cup {t})
UnblockTarget(t)  == WriteBlocks(channelBlocks, targetBlocks \ {t})

\* decide(channel, target).allowed
Allows(c, t) == label # "OFF" /\ c \notin channelBlocks /\ t \notin targetBlocks

Operate == \/ \E on \in BOOLEAN : SetGlobal(on)
           \/ \E c \in Channels : BlockChannel(c) \/ UnblockChannel(c)
           \/ \E t \in Targets : BlockTarget(t) \/ UnblockTarget(t)
=============================================================================
