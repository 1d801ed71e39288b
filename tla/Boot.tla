--------------------------------- MODULE Boot ---------------------------------
(***************************************************************************)
(* From reset to the late start-up hook, and from a crash back to reset:   *)
(* ResetHandler2, the memory protection, the USB PLL, the PSRAM chips,     *)
(* usb_init's treatment of the controller (startup.c, usb.c), and          *)
(* unused_interrupt_vector.                                                *)
(*                                                                         *)
(* A reset of the processor resets its own registers and caches, not the   *)
(* PSRAM chips, which keep their bus mode, nor the memory the crash report *)
(* is in.  What the boot ROM leaves in the PLL and the USB controller is   *)
(* arbitrary.                                                              *)
(***************************************************************************)
EXTENDS Integers, FiniteSets, Sequences

CONSTANTS
    Fittings,    \* the pairs of PSRAM chips that may be fitted
    CrashPolls,  \* the PIT periods the crash handler serves USB: 80
    MaxCrashes   \* a bound on the crashes

\* What the read-id command of a chip answers, by maker and size.
Ids == {"none", "AP 64Mb", "ISSI 64Mb", "ISSI 128Mb", "ISSI other"}

ASSUME BootAssumption == CrashPolls \in Nat \ {0} /\ MaxCrashes \in Nat
ASSUME FittingsAssumption == Fittings \subseteq [1 .. 2 -> Ids]

Stages == {"memory", "vectors", "cache", "systick", "pll", "pllset", "psram1",
           "psram2", "wait20", "usb", "usbreset", "usbdelay", "usbstart", "wait300",
           "late", "crash", "flush", "poll", "unplugged"}
Pll == [div528 : BOOLEAN, enable : BOOLEAN, power : BOOLEAN, lock : BOOLEAN,
        bypass : BOOLEAN, usbClocks : BOOLEAN]

\* The size of a chip in megabytes, 0 where start-up finds none it knows.
Capacity(id) ==
    CASE id \in {"AP 64Mb", "ISSI 64Mb"} -> 8
      [] id = "ISSI 128Mb" -> 16
      [] OTHER -> 0
WholeWindow == 64  \* FLSHA1CR0 after a reset: every address is the first chip's

VARIABLES
    stage,    \* where ResetHandler2 or the crash handler is
    mpu,      \* the regions are enabled
    counting, \* SysTick counts milliseconds
    pll,      \* CCM_ANALOG_PLL_USB1
    n,        \* usb_pll_start's copy of it
    fitted,   \* the two PSRAM chips
    quad,     \* which of them is in quad (QPI) mode
    window,   \* FLEXSPI2_FLSHA1CR0, in megabytes: where the second chip begins
    external_psram_size,
    usb,      \* the USB controller: "on" from before, "resetting", "off", "running"
    count,    \* PIT periods since the crash
    crashes,  \* how many crashes there have been
    cached,   \* the crash a report in the data cache is about, 0 if none
    report,   \* the crash the report in memory is about
    corrupted \* a stray access went through

bootVars == <<stage, mpu, counting, pll, n, fitted, quad, window,
              external_psram_size, usb, count, crashes, cached, report, corrupted>>
pllVars == <<pll, n>>
hardware == <<fitted, crashes, report, corrupted>>
crashVars == <<count, crashes, cached, report, corrupted>>
psramVars == <<fitted, quad, window, external_psram_size>>

LeftByRom == {p \in Pll : p.lock => p.power}

BootInit ==
    /\ stage = "memory"
    /\ mpu = FALSE
    /\ counting = FALSE
    /\ pll \in LeftByRom
    /\ n = pll
    /\ fitted \in Fittings
    /\ quad = [i \in 1 .. 2 |-> FALSE]
    /\ window = WholeWindow
    /\ external_psram_size = 0
    /\ usb \in {"on", "off"}
    /\ count = 0
    /\ crashes = 0
    /\ cached = 0
    /\ report = 0
    /\ corrupted = FALSE

Goto(from, to) == stage = from /\ stage' = to

-----------------------------------------------------------------------------
(* ResetHandler2, in its order.                                            *)

\* The stack and the memory banks; code and data copied, .bss cleared.
InitMemory ==
    /\ Goto("memory", "vectors")
    /\ external_psram_size' = 0
    /\ UNCHANGED <<mpu, counting, pllVars, fitted, quad, window, usb, crashVars>>

\* Every vector is unused_interrupt_vector, and faults are enabled.
InitVectors ==
    /\ Goto("vectors", "cache")
    /\ UNCHANGED <<mpu, counting, pllVars, psramVars, usb, crashVars>>

\* configure_cache: of the regions that cover an address the last one counts.
Places == {"null", "itcm", "rom", "dtcm", "guard", "ocram", "peripherals",
           "flash", "psram", "semc", "nowhere"}
Region(covers, access) == [covers |-> covers, access |-> access]

\* Mutant: the trap below the stack comes before the region it lies in.
RegionsGuardFirst ==
    <<Region(Places, "none"), Region({"null", "itcm"}, "read"),
      Region({"null"}, "none"), Region({"rom"}, "read"),
      Region({"guard"}, "none"), Region({"dtcm", "guard"}, "write"),
      Region({"ocram"}, "write"), Region({"peripherals"}, "write"),
      Region({"flash"}, "read"), Region({"psram"}, "write"),
      Region({"semc"}, "write")>>
Regions ==
    <<Region(Places, "none"),
      Region({"null", "itcm"}, "read"),
      Region({"null"}, "none"),
      Region({"rom"}, "read"),
      Region({"dtcm", "guard"}, "write"),
      Region({"guard"}, "none"),
      Region({"ocram"}, "write"),
      Region({"peripherals"}, "write"),
      Region({"flash"}, "read"),
      Region({"psram"}, "write"),
      Region({"semc"}, "write")>>
Access(place) ==
    LET covering == {i \in 1 .. Len(Regions) : place \in Regions[i].covers}
    IN Regions[CHOOSE i \in covering : \A j \in covering : j <= i].access

configure_cache ==
    /\ Goto("cache", "systick")
    /\ mpu' = TRUE
    /\ UNCHANGED <<counting, pllVars, psramVars, usb, crashVars>>

configure_systick ==
    /\ Goto("systick", "pll")
    /\ counting' = TRUE
    /\ UNCHANGED <<mpu, pllVars, psramVars, usb, crashVars>>

\* Each round of usb_pll_start's loop reads the register and then sets or clears
\* the bits that correct the first thing the copy shows wrong.
ReadPll ==
    /\ Goto("pll", "pllset")
    /\ n' = pll
    /\ UNCHANGED <<mpu, counting, pll, psramVars, usb, crashVars>>

AsItShouldBe(p) ==
    /\ p.enable /\ p.power /\ p.lock /\ p.usbClocks
    /\ ~p.div528 /\ ~p.bypass

Corrected ==
    IF n.div528
    THEN [pll EXCEPT !.bypass = TRUE, !.power = FALSE, !.div528 = FALSE,
                     !.enable = FALSE, !.usbClocks = FALSE, !.lock = FALSE]
    ELSE IF ~n.enable THEN [pll EXCEPT !.enable = TRUE]
    ELSE IF ~n.power THEN [pll EXCEPT !.power = TRUE]
    ELSE IF ~n.lock THEN pll
    ELSE IF n.bypass THEN [pll EXCEPT !.bypass = FALSE]
    ELSE [pll EXCEPT !.usbClocks = TRUE]

SetPll ==
    /\ Goto("pllset", IF AsItShouldBe(n) THEN "psram1" ELSE "pll")
    /\ pll' = Corrected
    /\ UNCHANGED <<mpu, counting, n, psramVars, usb, crashVars>>

\* The PLL locks some time after it is powered, and loses it with the power.
PllLocks ==
    /\ pll.power /\ ~pll.lock
    /\ pll' = [pll EXCEPT !.lock = TRUE]
    /\ UNCHANGED <<stage, mpu, counting, n, psramVars, usb, crashVars>>

\* The chip an address reaches; the commands a chip understands depend on its
\* mode: in quad mode it answers only what is sent on four lines.
ChipAt(megabyte) == IF megabyte < window THEN 1 ELSE 2

\* Mutant: no exit-quad command is sent.
ExitQuadMissing(inQuad) == inQuad
ExitQuad(inQuad) == FALSE
ResetChip(inQuad) == inQuad
AfterProbe(inQuad) == ResetChip(ExitQuad(inQuad))
flexspi2_psram_size(chip) ==
    IF AfterProbe(quad[chip]) THEN 0 ELSE Capacity(fitted[chip])

\* configure_external_ram, up to the first chip.
FirstPsram ==
    LET chip == ChipAt(0)
        size == flexspi2_psram_size(chip)
    IN /\ Goto("psram1", IF size > 0 THEN "psram2" ELSE "wait20")
       /\ external_psram_size' = size
       /\ window' = IF size > 0 THEN size ELSE window
       /\ quad' = [quad EXCEPT ![chip] = size > 0 \/ AfterProbe(quad[chip])]
       /\ UNCHANGED <<mpu, counting, pllVars, fitted, usb, crashVars>>

\* The second chip is looked for behind the first.
SecondPsram ==
    LET chip == ChipAt(external_psram_size)
        size == flexspi2_psram_size(chip)
    IN /\ Goto("psram2", "wait20")
       /\ external_psram_size' = external_psram_size + size
       /\ quad' = [quad EXCEPT ![chip] = size > 0 \/ AfterProbe(quad[chip])]
       /\ UNCHANGED <<mpu, counting, pllVars, fitted, window, usb, crashVars>>

\* The milliseconds that millis() and delay() wait for pass.
Wait(from, to) ==
    /\ counting
    /\ Goto(from, to)
    /\ UNCHANGED <<mpu, counting, pllVars, psramVars, usb, crashVars>>

\* usb_init resets a controller that is on from previous use, and waits.
InitUsb ==
    /\ Goto("usb", IF usb = "on" THEN "usbreset" ELSE "usbstart")
    /\ usb' = IF usb = "on" THEN "resetting" ELSE usb
    /\ UNCHANGED <<mpu, counting, pllVars, psramVars, crashVars>>

UsbIsReset ==
    /\ usb = "resetting"
    /\ usb' = "off"
    /\ UNCHANGED <<stage, mpu, counting, pllVars, psramVars, crashVars>>

UsbResetDone ==
    /\ Goto("usbreset", "usbdelay")
    /\ usb # "resetting"
    /\ UNCHANGED <<mpu, counting, pllVars, psramVars, usb, crashVars>>

StartUsb ==
    /\ Goto("usbstart", "wait300")
    /\ usb' = "running"
    /\ UNCHANGED <<mpu, counting, pllVars, psramVars, crashVars>>

ResetHandler2 ==
    \/ InitMemory \/ InitVectors \/ configure_cache \/ configure_systick
    \/ ReadPll \/ SetPll \/ FirstPsram \/ SecondPsram \/ Wait("wait20", "usb")
    \/ InitUsb \/ UsbResetDone \/ Wait("usbdelay", "usbstart") \/ StartUsb
    \/ Wait("wait300", "late")

-----------------------------------------------------------------------------
(* Crashes.                                                                *)

Crashed == {"crash", "flush", "poll", "unplugged"}

\* Any code writes where it must not: it faults, or the write goes through.
StrayWrite ==
    /\ mpu
    /\ stage \notin Crashed
    /\ crashes < MaxCrashes
    /\ \E place \in {"null", "itcm", "rom", "guard", "flash", "nowhere"} :
          IF Access(place) = "write"
          THEN corrupted' = TRUE /\ UNCHANGED <<stage, crashes>>
          ELSE stage' = "crash" /\ crashes' = crashes + 1 /\ UNCHANGED corrupted
    /\ UNCHANGED <<mpu, counting, pllVars, psramVars, usb, count, cached, report>>

\* unused_interrupt_vector writes its report, with a CRC, through the cache ...
WriteReport ==
    /\ Goto("crash", "flush")
    /\ cached' = crashes
    /\ UNCHANGED <<mpu, counting, pllVars, psramVars, usb, count, crashes, report, corrupted>>

\* ... which arm_dcache_flush_delete empties, and starts the PIT.
FlushReport ==
    /\ Goto("flush", "poll")
    /\ report' = IF cached # 0 THEN cached ELSE report
    /\ cached' = 0
    /\ count' = 0
    /\ UNCHANGED <<mpu, counting, pllVars, psramVars, usb, crashes, corrupted>>

\* It serves USB until enough PIT periods are counted, and turns it off.
PollUsb ==
    /\ stage = "poll"
    /\ count' = count + 1
    /\ IF count' >= CrashPolls
       THEN stage' = "unplugged" /\ usb' = "off"
       ELSE UNCHANGED <<stage, usb>>
    /\ UNCHANGED <<mpu, counting, pllVars, psramVars, crashes, cached, report, corrupted>>

\* SCB_AIRCR: the processor resets.
Reset ==
    /\ Goto("unplugged", "memory")
    /\ mpu' = FALSE
    /\ counting' = FALSE
    /\ pll' \in LeftByRom
    /\ n' = pll'
    /\ window' = WholeWindow
    /\ usb' \in {"on", "off"}
    /\ count' = 0
    /\ cached' = 0
    /\ UNCHANGED <<hardware, quad, external_psram_size>>

CrashHandler == WriteReport \/ FlushReport \/ PollUsb \/ Reset

BootNext == ResetHandler2 \/ PllLocks \/ UsbIsReset \/ StrayWrite \/ CrashHandler

-----------------------------------------------------------------------------
(* Properties.                                                             *)

BootTypeOK ==
    /\ stage \in Stages
    /\ {mpu, counting, corrupted} \subseteq BOOLEAN
    /\ {pll, n} \subseteq Pll
    /\ fitted \in Fittings
    /\ quad \in [1 .. 2 -> BOOLEAN]
    /\ window \in {8, 16, WholeWindow}
    /\ external_psram_size \in {0, 8, 16, 24, 32}
    /\ usb \in {"on", "resetting", "off", "running"}
    /\ count \in 0 .. CrashPolls
    /\ {crashes, cached, report} \subseteq 0 .. MaxCrashes

\* The second chip counts only behind a first.
FittedSize ==
    IF Capacity(fitted[1]) = 0 THEN 0
    ELSE Capacity(fitted[1]) + Capacity(fitted[2])

\* When start-up hands over to the late hook the board is as it should be,
\* whatever the boot ROM left and wherever an earlier run crashed: the USB PLL
\* gives a locked 480 MHz clock, the PSRAM that is fitted is found, every chip
\* of it in quad mode, though a crash leaves chips in a mode in which they do
\* not answer the usual commands, the USB controller runs, and the report in
\* memory is about the last crash.
HandOverComplete ==
    stage = "late" =>
        /\ AsItShouldBe(pll)
        /\ external_psram_size = FittedSize
        /\ FittedSize > 0 => \A i \in 1 .. 2 : Capacity(fitted[i]) > 0 => quad[i]
        /\ usb = "running"
        /\ report = crashes

\* Once the memory protection is on, no write through a null pointer, below the
\* stack, over the code or to where nothing is goes through: the trap regions
\* lie inside larger ones that allow the access, and the later region wins.
StrayWritesAreCaught == ~corrupted
=============================================================================
