----------------------------- MODULE GpioInterrupt -----------------------------
(***************************************************************************)
(* Pin interrupts (gpio_interrupt.c): attachInterrupt and detachInterrupt, *)
(* called by a task, register by register, and irq_anyport, which may      *)
(* interrupt them anywhere, for the pins of one port.                      *)
(***************************************************************************)
EXTENDS Naturals, FiniteSets

CONSTANTS
    Pins,             \* bit positions of the port, of 0 .. 31
    Functions,        \* the callbacks
    Modes             \* the modes tried: those below, and others

VARIABLES
    IMR, ISR, EDGE,   \* registers of the port, as sets of pins
    ICR,              \* ICR1 and ICR2, two bits for each pin
    table,            \* isr_table_gpio
    pc, pin, function, mode, copy,  \* the task: its call, and what it read of IMR
    irq, status,      \* the handler and its local variable
    attached,         \* the pins whose last call was attachInterrupt
    cause             \* what the pin was set to when its last event occurred

\* icr; CHANGE uses the edge register instead, and anything else is refused.
Icr(m) ==
    CASE m = "LOW" -> 0
      [] m = "HIGH" -> 1
      [] m = "RISING" -> 2
      [] m = "FALLING" -> 3
AnyChange == 4
KnownModes == {"CHANGE", "LOW", "HIGH", "RISING", "FALLING"}

registers == <<IMR, ISR, EDGE, ICR, table>>
call == <<pin, function, mode>>
handlerVars == <<irq, status>>
vars == <<registers, pc, call, copy, handlerVars, attached, cause>>

\* What a pin is set to: what it senses, and who is called for it.
Setting(p) ==
    [function |-> table[p], senses |-> IF p \in EDGE THEN AnyChange ELSE ICR[p]]

Init ==
    /\ IMR = {} /\ ISR = {} /\ EDGE = {}
    /\ ICR = [p \in Pins |-> 0]
    /\ table = [p \in Pins |-> "dummy_isr"]
    /\ pc = "idle"
    /\ pin \in Pins /\ function \in Functions /\ mode \in Modes
    /\ copy = {}
    /\ irq = "idle" /\ status = {}
    /\ attached = {}
    /\ cause = [p \in Pins |-> Setting(p)]

-----------------------------------------------------------------------------
(* attachInterrupt and detachInterrupt.  The task runs while no handler    *)
(* does; only IMR is written by others too, so only its read and write are *)
(* two steps.                                                              *)

Task(from, to) ==
    /\ irq = "idle"
    /\ pc = from
    /\ pc' = to
    /\ UNCHANGED <<handlerVars, cause>>

\* An unknown mode is refused before any register of the port is touched.
Attach ==
    /\ pin' \in Pins /\ function' \in Functions /\ mode' \in Modes
    /\ Task("idle", IF mode' \in KnownModes THEN "readmask" ELSE "idle")
    /\ attached' = IF mode' \in KnownModes THEN attached \ {pin'} ELSE attached
    /\ UNCHANGED <<registers, copy>>

Detach ==
    /\ pin' \in Pins
    /\ Task("idle", "readdetach")
    /\ UNCHANGED <<registers, function, mode, copy, attached>>

ReadMask ==
    /\ \/ Task("readmask", "mask")
       \/ Task("readdetach", "detach")
       \/ Task("readunmask", "unmask")
    /\ copy' = IMR
    /\ UNCHANGED <<registers, call, attached>>

Mask ==
    /\ Task("mask", "function")
    /\ IMR' = copy \ {pin}
    /\ UNCHANGED <<ISR, EDGE, ICR, table, call, copy, attached>>

SetFunction ==
    /\ Task("function", "sense")
    /\ table' = [table EXCEPT ![pin] = function]
    /\ UNCHANGED <<IMR, ISR, EDGE, ICR, call, copy, attached>>

SetEdge ==
    /\ Task("sense", IF mode = "CHANGE" THEN "clear" ELSE "icr")
    /\ EDGE' = IF mode = "CHANGE" THEN EDGE \cup {pin} ELSE EDGE \ {pin}
    /\ UNCHANGED <<IMR, ISR, ICR, table, call, copy, attached>>

SetIcr ==
    /\ Task("icr", "clear")
    /\ ICR' = [ICR EXCEPT ![pin] = Icr(mode)]
    /\ UNCHANGED <<IMR, ISR, EDGE, table, call, copy, attached>>

\* Mutant: "gpio[GPIO_ISR_INDEX] = mask" is missing.
ClearPendingMissing ==
    /\ Task("clear", "readunmask")
    /\ UNCHANGED <<registers, call, copy, attached>>
ClearPending ==
    /\ Task("clear", "readunmask")
    /\ ISR' = ISR \ {pin}
    /\ UNCHANGED <<IMR, EDGE, ICR, table, call, copy, attached>>

Unmask ==
    /\ Task("unmask", "idle")
    /\ IMR' = copy \cup {pin}
    /\ attached' = attached \cup {pin}
    /\ UNCHANGED <<ISR, EDGE, ICR, table, call, copy>>

DetachMask ==
    /\ Task("detach", "idle")
    /\ IMR' = copy \ {pin}
    /\ attached' = attached \ {pin}
    /\ UNCHANGED <<ISR, EDGE, ICR, table, call, copy>>

-----------------------------------------------------------------------------
(* The port raises events; irq_anyport answers those that are unmasked.    *)

Event(p) ==
    /\ ISR' = ISR \cup {p}
    /\ cause' = [cause EXCEPT ![p] = Setting(p)]
    /\ UNCHANGED <<IMR, EDGE, ICR, table, pc, call, copy, handlerVars, attached>>

ReadStatus ==
    /\ irq = "idle"
    /\ ISR \cap IMR # {}
    /\ status' = ISR \cap IMR
    /\ irq' = "clear"
    /\ UNCHANGED <<registers, pc, call, copy, attached, cause>>

ClearStatus ==
    /\ irq = "clear"
    /\ ISR' = ISR \ status
    /\ irq' = "calls"
    /\ UNCHANGED <<IMR, EDGE, ICR, table, pc, call, copy, status, attached,
                   cause>>

Index == CHOOSE p \in status : \A q \in status : p <= q

\* table[index]().  The callbacks do not call detachInterrupt: between the task's
\* read and write of IMR, what they clear there would be lost.
CallFunction ==
    /\ irq = "calls"
    /\ status' = status \ {Index}
    /\ irq' = IF status' = {} THEN "idle" ELSE "calls"
    /\ UNCHANGED <<registers, pc, call, copy, attached, cause>>

Next ==
    \/ Attach \/ Detach \/ ReadMask \/ Mask \/ SetFunction \/ SetEdge \/ SetIcr
    \/ ClearPending \/ Unmask \/ DetachMask
    \/ \E p \in Pins : Event(p)
    \/ ReadStatus \/ ClearStatus \/ CallFunction

Spec == Init /\ [][Next]_vars

-----------------------------------------------------------------------------
TypeOK ==
    /\ {IMR, ISR, EDGE, copy, status, attached} \subseteq SUBSET Pins
    /\ ICR \in [Pins -> 0 .. 3]
    /\ table \in [Pins -> Functions \cup {"dummy_isr"}]
    /\ pin \in Pins /\ function \in Functions /\ mode \in Modes
    /\ irq \in {"idle", "clear", "calls"}

\* A callback runs for an event of its own pin that occurred when the pin was
\* completely set up for it: never a function for an event of an earlier
\* attachInterrupt, of another mode, or of a pin that has been detached, wherever
\* the handler interrupts attachInterrupt (gpio_interrupt.c:120-147).
CallbackForItsEvent ==
    irq = "calls" => Index \in attached \cup {pin} /\ cause[Index] = Setting(Index)
=============================================================================
