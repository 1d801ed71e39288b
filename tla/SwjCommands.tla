------------------------------ MODULE SwjCommands ------------------------------
(***************************************************************************)
(* The CMSIS-DAP firmware's commands that use the pins' functions, in any  *)
(* order the host sends them (external: the firmware is not part of the    *)
(* repository; DAP_config.h documents which function is for what).         *)
(***************************************************************************)
EXTENDS SwdPins

VARIABLES
    connected,  \* DAP_Connect has set the pins up for SWD
    written     \* the level the host last set SWDIO to

commandVars == <<pinVars, connected, written>>

Init ==
    /\ swclk_mode = "in" /\ swdio_mode = "in"
    /\ swclk = 0 /\ swdio = 0
    /\ connected = FALSE
    /\ written = 1

DAP_Connect == PORT_SWD_SETUP /\ connected' = TRUE /\ written' = 1

DAP_Disconnect == PORT_OFF /\ connected' = FALSE /\ UNCHANGED written

\* DAP_SWJ_Sequence: each bit goes out by PIN_SWDIO_TMS_SET or _CLR and a clock.
DAP_SWJ_Sequence(bit) ==
    /\ connected
    /\ (bit = 1 /\ PIN_SWDIO_TMS_SET) \/ (bit = 0 /\ PIN_SWDIO_TMS_CLR)
    /\ written' = bit
    /\ UNCHANGED connected

\* DAP_SWJ_Pins reads the pins back for its response.
DAP_SWJ_Pins == connected /\ PIN_SWDIO_TMS_IN /\ UNCHANGED <<connected, written>>

Next ==
    \/ DAP_Connect \/ DAP_Disconnect \/ DAP_SWJ_Pins
    \/ \E bit \in Bits : DAP_SWJ_Sequence(bit)

Spec == Init /\ [][Next]_commandVars

\* "Set the SWDIO/TMS DAP hardware I/O pin to high level" (DAP_config.h:391) and
\* "to low level" (:399): what the host last wrote is on the line while the
\* debugger is connected and the target does not drive it.
WritesReachTheLine == connected => Line(Undriven) = written
=============================================================================
