------------------------------- MODULE I8259A -------------------------------
(***************************************************************************)
(* The driver of the two cascaded 8259A interrupt controllers of a PC      *)
(* (src/irq_verified.c), run by several CPUs at once.                      *)
(*                                                                         *)
(* The driver keeps the wanted mask of all lines in cached_irq_mask and    *)
(* copies a byte of it to a controller after every change; a byte is       *)
(* loaded and written in two steps.  i8259A_lock serialises the functions. *)
(* Reading a controller's command port returns its request (IRR) or its    *)
(* in-service (ISR) register, whichever was selected last.                 *)
(*                                                                         *)
(* External: the controllers themselves, the generic interrupt code that   *)
(* calls the driver with the line's descriptor locked, and the devices.    *)
(***************************************************************************)
EXTENDS Integers, Sequences

CONSTANTS
    CPUs,
    NoCpu,          \* i8259A_lock is free
    Irqs,           \* the lines in use
    MaxSuspends     \* bound on suspend/resume cycles

ASSUME CpuAssumption == NoCpu \notin CPUs

ASSUME IrqAssumption == Irqs \subseteq 0..15

ASSUME SuspendAssumption == MaxSuspends \in Nat

NoIrq == -1

\* A set bit of a mask is a line in a set.
VARIABLES
    cached_irq_mask,
    i8259A_lock,    \* the CPU that holds it
    cpu,            \* what each CPU executes, see Idle
    imr,            \* hardware: the masked lines
    isr,            \* hardware: the lines in service
    readSel,        \* hardware: register read at the command port
    disabled,       \* IRQ_DISABLED of the lines' descriptors
    inprogress,     \* IRQ_INPROGRESS of the lines' descriptors
    drifted,        \* history: controllers whose imr was not set from the cache
    elcr,           \* hardware: the level-triggered lines
    irq_trigger,    \* the copy i8259A_suspend took
    power,          \* "boot", "on", "suspended"
    suspends,       \* counts the suspensions, for the bound
    atSuspend       \* history: elcr at the last suspension

hwVars == <<imr, isr, readSel, drifted>>
coreVars == <<disabled, inprogress>>
powerVars == <<elcr, irq_trigger, power, suspends, atSuspend>>
vars == <<cached_irq_mask, i8259A_lock, cpu, hwVars, coreVars, powerVars>>

PICs == {"master", "slave"}
Fns == {"enable", "disable", "pending", "mask", "unmask", "ack", "init"}
Pcs == {"idle", "lock", "edit", "test", "select", "inb", "deselect",
        "ackmask", "ff", "icw", "load", "out", "unlock", "handler"}

\* outb goes to the port chosen by irq & 8 when a mask is written, by irq < 8
\* when a register is read.
MaskPort(irq) == IF (irq \div 8) % 2 = 1 THEN "slave" ELSE "master"
CommandPort(irq) == IF irq < 8 THEN "master" ELSE "slave"

\* The byte of the mask that belongs to a controller (cached_21, cached_A1).
Byte(pic, mask) == {i \in mask : MaskPort(i) = pic}

\* A CPU's record: its control point, the function it runs, the line it is
\* about, the descriptor it has locked, the controllers still to be written,
\* the loaded mask byte, is_real_irq, and whether the interrupt it handles was
\* really raised by a controller (history).
Idle == [pc |-> "idle", fn |-> "enable", irq |-> NoIrq, desc |-> NoIrq,
         outs |-> <<>>, reg |-> {}, real |-> TRUE, genuine |-> FALSE]

TypeOK ==
    /\ cached_irq_mask \subseteq Irqs
    /\ i8259A_lock \in CPUs \cup {NoCpu}
    /\ cpu \in [CPUs -> [pc : Pcs, fn : Fns, irq : Irqs \cup {NoIrq},
                         desc : Irqs \cup {NoIrq},
                         outs : {<<>>, <<"master">>, <<"slave">>,
                                 <<"master", "slave">>, <<"slave", "master">>},
                         reg : SUBSET Irqs, real : BOOLEAN,
                         genuine : BOOLEAN]]
    /\ imr \subseteq Irqs
    /\ isr \subseteq Irqs
    /\ readSel \in [PICs -> {"irr", "isr"}]
    /\ disabled \subseteq Irqs
    /\ inprogress \subseteq Irqs
    /\ drifted \subseteq PICs
    /\ elcr \subseteq Irqs
    /\ irq_trigger \subseteq Irqs
    /\ atSuspend \subseteq Irqs
    /\ power \in {"boot", "on", "suspended"}
    /\ suspends \in 0..MaxSuspends

\* Reset: every line masked in the cache, whatever the firmware left in the
\* controllers.
Init ==
    /\ cached_irq_mask = Irqs
    /\ i8259A_lock = NoCpu
    /\ cpu = [c \in CPUs |-> Idle]
    /\ imr \in {{}, Irqs}
    /\ isr \in {{}, Irqs}
    /\ readSel \in [PICs -> {"irr", "isr"}]
    /\ disabled = Irqs
    /\ inprogress = {}
    /\ drifted = PICs
    /\ elcr = Irqs
    /\ irq_trigger = {}
    /\ power = "boot"
    /\ suspends = 0
    /\ atSuspend = {}

-----------------------------------------------------------------------------
(* Calling a function: it starts by taking i8259A_lock *)

Call(c, fn, irq, desc, genuine) ==
    cpu' = [cpu EXCEPT ![c] =
              [Idle EXCEPT !.pc = "lock", !.fn = fn, !.irq = irq,
                           !.desc = desc, !.genuine = genuine]]

\* Where each function goes once it has the lock, and which controllers it
\* writes in which order (enable and disable: the one their line is on).
FirstPc(fn) ==
    CASE fn \in {"enable", "disable"} -> "edit"
      [] fn = "pending" -> "inb"
      [] fn \in {"mask", "init"} -> "ff"
      [] fn = "unmask" -> "load"
      [] fn = "ack" -> "test"

WriteOrder(fn, irq) ==
    CASE fn \in {"enable", "disable"} -> <<MaskPort(irq)>>
      [] fn \in {"mask", "unmask"} -> <<"slave", "master">>
      [] fn = "init" -> <<"master", "slave">>
      [] fn \in {"pending", "ack"} -> <<>>

At(c, pc) == cpu[c].pc = pc

\* Mutant: the functions run without the lock.
NoLock(c) ==
    /\ At(c, "lock")
    /\ cpu' = [cpu EXCEPT ![c].pc = FirstPc(cpu[c].fn),
                          ![c].outs = WriteOrder(cpu[c].fn, cpu[c].irq)]
    /\ i8259A_lock' = NoCpu
    /\ UNCHANGED <<cached_irq_mask, hwVars, coreVars, powerVars>>

spin_lock_irqsave(c) ==
    /\ At(c, "lock")
    /\ i8259A_lock = NoCpu
    /\ i8259A_lock' = c
    /\ cpu' = [cpu EXCEPT ![c].pc = FirstPc(cpu[c].fn),
                          ![c].outs = WriteOrder(cpu[c].fn, cpu[c].irq)]
    /\ UNCHANGED <<cached_irq_mask, hwVars, coreVars, powerVars>>

\* enable_8259A_irq and _disable_8259A_irq change one bit of the cache.
EditCache(c) ==
    /\ At(c, "edit")
    /\ cached_irq_mask' = IF cpu[c].fn = "enable"
                          THEN cached_irq_mask \ {cpu[c].irq}
                          ELSE cached_irq_mask \cup {cpu[c].irq}
    /\ cpu' = [cpu EXCEPT ![c].pc = "load"]
    /\ UNCHANGED <<i8259A_lock, hwVars, coreVars, powerVars>>

\* outb(cached_21, 0x21) and outb(cached_A1, 0xA1), the load ...
LoadByte(c) ==
    /\ At(c, "load")
    /\ cpu' = [cpu EXCEPT ![c].pc = "out",
                          ![c].reg = Byte(Head(cpu[c].outs), cached_irq_mask)]
    /\ UNCHANGED <<cached_irq_mask, i8259A_lock, hwVars, coreVars, powerVars>>

\* ... and the write.
OutByte(c) ==
    LET pic == Head(cpu[c].outs)
        rest == Tail(cpu[c].outs)
    IN  /\ At(c, "out")
        /\ imr' = (imr \ Byte(pic, Irqs)) \cup cpu[c].reg
        /\ drifted' = drifted \ {pic}
        /\ cpu' = [cpu EXCEPT
                     ![c].outs = rest,
                     ![c].pc = IF rest = <<>> THEN "unlock" ELSE "load"]
        /\ UNCHANGED <<cached_irq_mask, i8259A_lock, isr, readSel, coreVars, powerVars>>

\* Where mask_8259A and init_8259A go after masking a controller.
AfterFF(fn, rest) ==
    CASE rest # <<>> -> "ff"
      [] rest = <<>> /\ fn = "mask" -> "unlock"
      [] rest = <<>> /\ fn = "init" -> "icw"

\* outb(0xff, ...) to both controllers, in mask_8259A and init_8259A.
OutFF(c) ==
    LET pic == Head(cpu[c].outs)
        rest == Tail(cpu[c].outs)
    IN  /\ At(c, "ff")
        /\ imr' = imr \cup Byte(pic, Irqs)
        /\ drifted' = drifted \cup {pic}
        /\ cpu' = [cpu EXCEPT
                     ![c].outs = rest,
                     ![c].pc = AfterFF(cpu[c].fn, rest)]
        /\ UNCHANGED <<cached_irq_mask, i8259A_lock, isr, readSel, coreVars, powerVars>>

\* Mutant: init does not restore the masks.
IcwOnly(c) ==
    /\ At(c, "icw")
    /\ imr' = {}
    /\ isr' = {}
    /\ readSel' = [pic \in PICs |-> "irr"]
    /\ drifted' = {}
    /\ cpu' = [cpu EXCEPT ![c].pc = "unlock"]
    /\ UNCHANGED <<cached_irq_mask, i8259A_lock, coreVars, powerVars>>

\* The initialisation words of init_8259A.  ICW1 clears the mask and the
\* in-service register of a controller and selects its IRR.
OutIcw(c) ==
    /\ At(c, "icw")
    /\ imr' = {}
    /\ isr' = {}
    /\ readSel' = [pic \in PICs |-> "irr"]
    /\ drifted' = PICs
    /\ cpu' = [cpu EXCEPT ![c].pc = "load", ![c].outs = WriteOrder("init", NoIrq)]
    /\ UNCHANGED <<cached_irq_mask, i8259A_lock, coreVars, powerVars>>

\* i8259A_irq_pending reads the request register and is done; i8259A_irq_real
\* keeps the bit it reads.  Requests come and go, so their bits are arbitrary.
Inb(c) ==
    LET irq == cpu[c].irq
        bits == IF readSel[CommandPort(irq)] = "isr" THEN {irq \in isr}
                ELSE BOOLEAN
    IN
    /\ At(c, "inb")
    /\ \/ /\ cpu[c].fn = "pending"
          /\ cpu' = [cpu EXCEPT ![c].pc = "unlock"]
       \/ /\ cpu[c].fn = "ack"
          /\ \E bit \in bits :
                cpu' = [cpu EXCEPT ![c].pc = "deselect", ![c].real = bit]
    /\ UNCHANGED <<cached_irq_mask, i8259A_lock, hwVars, coreVars, powerVars>>

\* _mask_and_ack_8259A_irq asks the controller only about masked lines.
TestMasked(c) ==
    /\ At(c, "test")
    /\ cpu' = [cpu EXCEPT ![c].pc = IF cpu[c].irq \in cached_irq_mask
                                    THEN "select" ELSE "ackmask"]
    /\ UNCHANGED <<cached_irq_mask, i8259A_lock, hwVars, coreVars, powerVars>>

\* Mutant: the in-service register is not selected before the read.
SelectIsrNot(c) ==
    /\ At(c, "select")
    /\ cpu' = [cpu EXCEPT ![c].pc = "inb"]
    /\ UNCHANGED <<cached_irq_mask, i8259A_lock, hwVars, coreVars, powerVars>>

\* outb(0x0B, ...): the command port shows the in-service register.
SelectIsr(c) ==
    /\ At(c, "select")
    /\ readSel' = [readSel EXCEPT ![CommandPort(cpu[c].irq)] = "isr"]
    /\ cpu' = [cpu EXCEPT ![c].pc = "inb"]
    /\ UNCHANGED <<cached_irq_mask, i8259A_lock, imr, isr, drifted, coreVars, powerVars>>

\* Mutant: the in-service register stays selected.
DeselectNot(c) ==
    /\ At(c, "deselect")
    /\ cpu' = [cpu EXCEPT ![c].pc = "ackmask"]
    /\ UNCHANGED <<cached_irq_mask, i8259A_lock, hwVars, coreVars, powerVars>>

\* outb(0x0A, ...): back to the request register.  That a masked line not in
\* service was spurious is only logged (spurious_irq_mask: once per line).
SelectIrr(c) ==
    /\ At(c, "deselect")
    /\ readSel' = [readSel EXCEPT ![CommandPort(cpu[c].irq)] = "irr"]
    /\ cpu' = [cpu EXCEPT ![c].pc = "ackmask"]
    /\ UNCHANGED <<cached_irq_mask, i8259A_lock, imr, isr, drifted, coreVars, powerVars>>

\* The line is masked in the cache; the writes to the controllers and the end
\* of interrupt that should follow are commented out in the code.
AckMask(c) ==
    /\ At(c, "ackmask")
    /\ cached_irq_mask' = cached_irq_mask \cup {cpu[c].irq}
    /\ cpu' = [cpu EXCEPT ![c].pc = "unlock"]
    /\ UNCHANGED <<i8259A_lock, hwVars, coreVars, powerVars>>

-----------------------------------------------------------------------------
(* Returning, and what the generic interrupt code does after an ack: with   *)
(* the descriptor locked it runs the handlers (unlocked meanwhile) unless   *)
(* the line is disabled or already being handled, then calls end.           *)

DescFree(i) == \A c \in CPUs : cpu[c].desc # i

\* Mutant: the line is enabled again whatever its status.
EndAlwaysEnables(c, i, status) == Call(c, "enable", i, i, FALSE)

\* end_8259A_irq; status holds the lines that are disabled or in progress.
end_8259A_irq(c, i, status) ==
    \/ i \notin status /\ Call(c, "enable", i, i, FALSE)
    \/ i \in status /\ cpu' = [cpu EXCEPT ![c] = Idle]

spin_unlock_irqrestore(c) ==
    LET i == cpu[c].desc
        handled == cpu[c].fn = "ack" /\ i # NoIrq
        status == disabled \cup inprogress
    IN  /\ At(c, "unlock")
        /\ i8259A_lock' = NoCpu
        /\ power' = IF power = "boot" THEN "on" ELSE power
        /\ \/ /\ ~ handled
              /\ cpu' = [cpu EXCEPT ![c] = Idle]
              /\ UNCHANGED inprogress
           \/ /\ handled /\ i \in status
              /\ end_8259A_irq(c, i, status)
              /\ UNCHANGED inprogress
           \/ /\ handled /\ i \notin status
              /\ inprogress' = inprogress \cup {i}
              /\ cpu' = [cpu EXCEPT ![c].pc = "handler", ![c].desc = NoIrq]
        /\ UNCHANGED <<cached_irq_mask, hwVars, disabled, elcr, irq_trigger, suspends,
                       atSuspend>>

HandlerDone(c) ==
    LET i == cpu[c].irq IN
    /\ At(c, "handler")
    /\ DescFree(i)
    /\ inprogress' = inprogress \ {i}
    /\ end_8259A_irq(c, i, disabled \cup inprogress')
    /\ UNCHANGED <<cached_irq_mask, i8259A_lock, hwVars, disabled, powerVars>>

-----------------------------------------------------------------------------
(* Calls made by the rest of the hypervisor, and by the hardware *)

\* IRQ2 is the cascade: init_IRQ gives it no handler.
Lines == Irqs \ {2}

Ready(c) == power = "on" /\ At(c, "idle")

\* init_IRQ, on the boot CPU, before anything else uses the controllers.
init_IRQ(c) ==
    /\ power = "boot"
    /\ \A d \in CPUs : At(d, "idle")
    /\ Call(c, "init", NoIrq, NoIrq, FALSE)
    /\ UNCHANGED <<cached_irq_mask, i8259A_lock, hwVars, coreVars, powerVars>>

\* The descriptor is marked and the driver told, under the descriptor's lock
\* (startup_8259A_irq is enable_8259A_irq).
EnableIrq(c, i) ==
    /\ Ready(c) /\ DescFree(i)
    /\ disabled' = disabled \ {i}
    /\ Call(c, "enable", i, i, FALSE)
    /\ UNCHANGED <<cached_irq_mask, i8259A_lock, hwVars, inprogress, powerVars>>

DisableIrq(c, i) ==
    /\ Ready(c) /\ DescFree(i)
    /\ disabled' = disabled \cup {i}
    /\ Call(c, "disable", i, i, FALSE)
    /\ UNCHANGED <<cached_irq_mask, i8259A_lock, hwVars, inprogress, powerVars>>

CallPlain(c, fn, i) ==
    /\ Ready(c)
    /\ Call(c, fn, i, NoIrq, FALSE)
    /\ UNCHANGED <<cached_irq_mask, i8259A_lock, hwVars, coreVars, powerVars>>

IrqPending(c, i) == CallPlain(c, "pending", i)
BogusIrq(c, i) == CallPlain(c, "ack", i)
MaskAll(c) == CallPlain(c, "mask", NoIrq)
UnmaskAll(c) == CallPlain(c, "unmask", NoIrq)

\* A controller interrupts a CPU: it marks the line in service until the end
\* of interrupt.
Interrupt(c, i) ==
    /\ Ready(c) /\ DescFree(i)
    /\ i \notin imr \cup isr
    /\ isr' = isr \cup {i}
    /\ Call(c, "ack", i, i, TRUE)
    /\ UNCHANGED <<cached_irq_mask, i8259A_lock, imr, readSel, drifted, coreVars,
                   powerVars>>

\* A request that went away is delivered as the last line of its controller.
SpuriousInterrupt(c, i) ==
    /\ Ready(c) /\ DescFree(i)
    /\ i \in {7, 15}
    /\ Call(c, "ack", i, i, FALSE)
    /\ UNCHANGED <<cached_irq_mask, i8259A_lock, hwVars, coreVars, powerVars>>

\* Mutant: only the reserved lines of the master are left out.
ReservedMaster == {0, 1, 2}

Reserved == {0, 1, 2, 8, 13}

\* i8259A_suspend saves the trigger modes of the lines that are not reserved
\* (& 0xF8, & 0xDE).
i8259A_suspend ==
    /\ power = "on"
    /\ suspends < MaxSuspends
    /\ \A c \in CPUs : At(c, "idle")
    /\ irq_trigger' = elcr \ Reserved
    /\ atSuspend' = elcr
    /\ suspends' = suspends + 1
    /\ power' = "suspended"
    /\ UNCHANGED <<cached_irq_mask, i8259A_lock, cpu, hwVars, coreVars, elcr>>

\* The machine sleeps: firmware sets the controllers up in its own way.
PowerCycle ==
    /\ power = "suspended"
    /\ elcr' \in {{}, Irqs}
    /\ imr' \in {{}, Irqs}
    /\ isr' = {}
    /\ drifted' = PICs
    /\ UNCHANGED <<cached_irq_mask, i8259A_lock, cpu, readSel, coreVars, irq_trigger,
                   power, suspends, atSuspend>>

\* i8259A_resume restores the trigger modes; its init_8259A is commented out.
i8259A_resume ==
    /\ power = "suspended"
    /\ elcr' = irq_trigger
    /\ power' = "on"
    /\ UNCHANGED <<cached_irq_mask, i8259A_lock, cpu, hwVars, coreVars, irq_trigger,
                   suspends, atSuspend>>

Step(c) ==
    \/ spin_lock_irqsave(c) \/ EditCache(c) \/ LoadByte(c) \/ OutByte(c)
    \/ OutFF(c) \/ OutIcw(c) \/ Inb(c) \/ TestMasked(c) \/ SelectIsr(c)
    \/ SelectIrr(c) \/ AckMask(c)
    \/ spin_unlock_irqrestore(c) \/ HandlerDone(c)

Next ==
    \/ \E c \in CPUs :
          \/ Step(c)
          \/ init_IRQ(c) \/ MaskAll(c) \/ UnmaskAll(c)
          \/ \E i \in Lines :
                \/ EnableIrq(c, i) \/ DisableIrq(c, i)
                \/ Interrupt(c, i) \/ SpuriousInterrupt(c, i)
          \/ \E i \in Irqs : IrqPending(c, i) \/ BogusIrq(c, i)
    \/ i8259A_suspend \/ PowerCycle \/ i8259A_resume

Spec == Init /\ [][Next]_vars

-----------------------------------------------------------------------------
(* Properties *)

\* A line that the cache says is enabled is not left masked at the controller
\* by a stale write, unless the whole controller was masked (or set up by
\* firmware) and not rewritten since.
EnabledReachesHardware ==
    i8259A_lock = NoCpu =>
        \A pic \in PICs \ drifted : Byte(pic, imr) \subseteq cached_irq_mask

\* Functions that write the mask return with the controllers showing what the
\* cache says, whatever other CPUs do at the time.
WritesMatchCache ==
    [][\A c \in CPUs :
          At(c, "unlock") /\ ~ At(c, "unlock")'
              => LET fn == cpu[c].fn
                     order == WriteOrder(fn, cpu[c].irq)
                 IN  fn \in {"enable", "disable", "unmask", "init"} =>
                        \A k \in DOMAIN order :
                            Byte(order[k], imr) = Byte(order[k], cached_irq_mask)
      ]_vars

\* The command port shows the register a function means to read: the request
\* register in i8259A_irq_pending, the in-service register in i8259A_irq_real.
RightRegister ==
    \A c \in CPUs :
        At(c, "inb") =>
            readSel[CommandPort(cpu[c].irq)] =
                IF cpu[c].fn = "pending" THEN "irr" ELSE "isr"

\* An interrupt that a controller really raised is never taken for a spurious
\* one.
GenuineIsReal ==
    \A c \in CPUs : cpu[c].genuine => cpu[c].real

\* A line disabled by its descriptor stays masked, also when the disabling
\* raced with the handling of the line's interrupt on another CPU.
DisabledStaysMasked ==
    \A i \in Lines : i \in disabled /\ DescFree(i) => i \in cached_irq_mask

\* Resuming brings back the trigger modes of all lines that are not reserved.
ResumeRestoresTrigger ==
    [][power = "suspended" /\ power' = "on"
          => elcr' = {i \in atSuspend : i \notin {0, 1, 2, 8, 13}}]_vars

\* "Mask it first, _then_ send the EOI": a line that has been acknowledged is
\* masked at its controller and no longer in service.
AckMasksAndEnds ==
    [][\A c \in CPUs :
          cpu[c].fn = "ack" /\ At(c, "unlock") /\ ~ At(c, "unlock")'
              => cpu[c].irq \in imr' /\ cpu[c].irq \notin isr']_vars
=============================================================================
