------------------------------- MODULE Firmware -------------------------------
(***************************************************************************)
(* The processor from reset to reset: Boot runs up to startup_late_hook,   *)
(* KernelPort from there on, and a crash of any code, in either, goes      *)
(* through the crash handler back to reset.                                *)
(***************************************************************************)
EXTENDS Boot, KernelPort

Frozen == UNCHANGED vars

\* ResetHandler2 and the crash handler, with the kernel not there.
StartOrCrash == BootNext /\ stage # "unplugged" /\ Frozen

\* A reset forgets the kernel: it is as the late hook will find it.
KernelAfterReset ==
    /\ boot' = "mask"
    /\ pc' = [t \in Tasks |-> IF t \in Pollers THEN "recv" ELSE "run"]
    /\ depth' = [t \in Tasks |-> 0]
    /\ current' = "main"
    /\ ready' = << >>
    /\ asleep' = {}
    /\ basepri' = 0
    /\ primask' = FALSE
    /\ nesting' = UNSTARTED
    /\ prio' = [e \in Exceptions |-> IF e = "usb" THEN 128 ELSE 32]
    /\ vector' = [e \in Exceptions |-> "teensy"]
    /\ ticking' = TRUE
    /\ halted' = FALSE
    /\ pending' = {}
    /\ active' = {}
    /\ handler' = [e \in Exceptions |-> "idle"]

Restart == Reset /\ KernelAfterReset

Run == stage = "late" /\ Next /\ UNCHANGED bootVars

FirmwareInit == BootInit /\ Init
FirmwareNext == StartOrCrash \/ Restart \/ Run

FirmwareVars == <<bootVars, vars>>

\* Start-up and the crash handler run on, the PLL locks, the controller resets.
FirmwareFairness ==
    /\ WF_bootVars(ResetHandler2) /\ WF_bootVars(CrashHandler)
    /\ WF_bootVars(PllLocks) /\ WF_bootVars(UsbIsReset)
    /\ Fairness

FirmwareSpec == FirmwareInit /\ [][FirmwareNext]_FirmwareVars /\ FirmwareFairness

FirmwareTypeOK == BootTypeOK /\ TypeOK
=============================================================================
