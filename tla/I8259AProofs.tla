---------------------------- MODULE I8259AProofs ----------------------------
(***************************************************************************)
(* The 8259A driver, for any number of CPUs, any lines and any number of   *)
(* suspensions: the masks written are those of the cache, reads see the    *)
(* register they mean, and disabled lines stay masked.                     *)
(***************************************************************************)
EXTENDS I8259A, TLAPS

\* Control points inside the functions, between spin_lock_irqsave and
\* spin_unlock_irqrestore.
Critical == Pcs \ {"idle", "lock", "handler"}

\* Functions that copy bytes of the cache to the controllers.
Writers == {"enable", "disable", "unmask", "init"}

\* Functions about one line.
LineFns == {"enable", "disable", "pending", "ack"}

\* The controllers a sequence of writes goes to.
Targets(outs) == {outs[k] : k \in DOMAIN outs}

\* The functions that pass through a control point.
FnFits(pc, fn) ==
    /\ pc = "edit" => fn \in {"enable", "disable"}
    /\ pc = "inb" => fn \in {"pending", "ack"}
    /\ pc \in {"test", "select", "deselect", "ackmask", "handler"} => fn = "ack"
    /\ pc = "ff" => fn \in {"mask", "init"}
    /\ pc = "icw" => fn = "init"
    /\ pc \in {"load", "out"} => fn \in Writers

\* What is left of the writes of a function at a control point: all of them,
\* the second of two, or none.
OutsFit(pc, fn, irq, outs) ==
    /\ pc \notin {"edit", "load", "out", "ff"} => outs = <<>>
    /\ pc = "edit" => outs = <<MaskPort(irq)>>
    /\ pc \in {"load", "out", "ff"} =>
        /\ fn \in {"enable", "disable"} => outs = <<MaskPort(irq)>>
        /\ fn \in {"mask", "unmask"} => outs \in {<<"slave", "master">>, <<"master">>}
        /\ fn = "init" => outs \in {<<"master", "slave">>, <<"slave">>}

\* The records of TypeOK.
OutSeqs == {<<>>, <<"master">>, <<"slave">>, <<"master", "slave">>, <<"slave", "master">>}

CpuRecords ==
    [pc : Pcs, fn : Fns, irq : Irqs \cup {NoIrq}, desc : Irqs \cup {NoIrq},
     outs : OutSeqs, reg : SUBSET Irqs, real : BOOLEAN, genuine : BOOLEAN]

\* Exactly the CPU that holds i8259A_lock is inside a function.
Exclusion ==
    \A c \in CPUs : cpu[c].pc \in Critical <=> i8259A_lock = c

\* Every CPU is where its function can be, with the line and the writes left
\* that belong there.
ShapeOf(r) ==
    /\ FnFits(r.pc, r.fn)
    /\ OutsFit(r.pc, r.fn, r.irq, r.outs)
    /\ r.pc = "idle" => r = Idle
    /\ r.pc # "idle" => (r.irq \in Irqs <=> r.fn \in LineFns)
    /\ r.desc \in {NoIrq, r.irq}
    /\ r.fn \in {"enable", "disable"} => r.desc = r.irq
    /\ r.pc = "handler" => r.desc = NoIrq
    /\ r.genuine => r.fn = "ack"

Shape == \A c \in CPUs : ShapeOf(cpu[c])

\* Only init_8259A runs while the machine boots, on one CPU, and never
\* later; nothing runs while it is suspended.
Phases ==
    /\ \A c \in CPUs : cpu[c].fn = "init" => power = "boot"
    /\ power = "boot" => \A c \in CPUs : cpu[c].pc # "idle" => cpu[c].fn = "init"
    /\ power = "boot" =>
        \A c, d \in CPUs : cpu[c].pc # "idle" /\ cpu[d].pc # "idle" => c = d
    /\ power = "suspended" => \A c \in CPUs : cpu[c].pc = "idle"

\* The byte loaded is still the cache's when it is written.
LoadedBy(c) ==
    cpu[c].pc = "out" => cpu[c].reg = Byte(Head(cpu[c].outs), cached_irq_mask)

Loaded == \A c \in CPUs : LoadedBy(c)

\* The controllers a writer has written show the cache.
WrittenBy(c) ==
    cpu[c].pc \in {"load", "out", "unlock"} /\ cpu[c].fn \in Writers =>
        \A pic \in Targets(WriteOrder(cpu[c].fn, cpu[c].irq)) \ Targets(cpu[c].outs) :
            Byte(pic, imr) = Byte(pic, cached_irq_mask)

Written == \A c \in CPUs : WrittenBy(c)

\* A controller that is neither drifted nor about to be written masks no
\* line that is enabled.
Fresh ==
    \A pic \in PICs \ drifted :
        \/ Byte(pic, imr) \subseteq cached_irq_mask
        \/ \E c \in CPUs : i8259A_lock = c /\ pic \in Targets(cpu[c].outs)

\* The in-service register is selected only while i8259A_irq_real reads it,
\* on the controller it reads.
Asks(c) == cpu[c].fn = "ack" /\ cpu[c].pc \in {"inb", "deselect"}

Selected ==
    (power # "boot" \/ \E c \in CPUs : cpu[c].pc \in {"load", "out", "unlock"}) =>
        \A pic \in PICs :
            readSel[pic] = "isr" <=>
                \E c \in CPUs : Asks(c) /\ CommandPort(cpu[c].irq) = pic

\* An interrupt really raised is in service as long as it is handled.
InService ==
    \A c \in CPUs : cpu[c].genuine => cpu[c].irq \in isr /\ cpu[c].real

\* A descriptor is locked by one CPU at a time.
DescExclusive ==
    \A c, d \in CPUs : cpu[c].desc # NoIrq /\ cpu[c].desc = cpu[d].desc => c = d

\* A line about to be enabled is not disabled ...
EnablesEnabled ==
    \A c \in CPUs :
        cpu[c].fn = "enable" /\ cpu[c].pc \in {"lock", "edit"} =>
            cpu[c].irq \notin disabled

\* ... and a disabled line is masked, or about to be.
DisableReaches ==
    \A i \in Lines : i \in disabled =>
        \/ i \in cached_irq_mask
        \/ \E c \in CPUs :
            cpu[c].fn = "disable" /\ cpu[c].pc \in {"lock", "edit"} /\ cpu[c].desc = i

\* What i8259A_resume restores.
TriggerSaved == power = "suspended" => irq_trigger = atSuspend \ Reserved

IInv ==
    /\ TypeOK
    /\ Exclusion
    /\ Shape
    /\ Phases
    /\ Loaded
    /\ Written
    /\ Fresh
    /\ Selected
    /\ InService
    /\ DescExclusive
    /\ EnablesEnabled
    /\ DisableReaches
    /\ TriggerSaved

-----------------------------------------------------------------------------
(* The operators of the model *)

\* NoIrq, where no line is meant, is not a line.
LEMMA NoIrqNoLine == NoIrq \notin Irqs
BY IrqAssumption DEF NoIrq

\* Every line has a data port and a command port.
LEMMA Ports ==
    ASSUME NEW irq
    PROVE  MaskPort(irq) \in PICs /\ CommandPort(irq) \in PICs
BY DEF MaskPort, CommandPort, PICs

\* The writes of a function: two, one or none.
LEMMA Orders ==
    ASSUME NEW irq
    PROVE  /\ WriteOrder("enable", irq) = <<MaskPort(irq)>>
           /\ WriteOrder("disable", irq) = <<MaskPort(irq)>>
           /\ WriteOrder("mask", irq) = <<"slave", "master">>
           /\ WriteOrder("unmask", irq) = <<"slave", "master">>
           /\ WriteOrder("init", irq) = <<"master", "slave">>
           /\ WriteOrder("pending", irq) = <<>>
           /\ WriteOrder("ack", irq) = <<>>
BY DEF WriteOrder

\* The writes left, one by one.
LEMMA TwoWrites ==
    ASSUME NEW a, NEW b
    PROVE  /\ Head(<<a, b>>) = a /\ Tail(<<a, b>>) = <<b>>
           /\ Head(<<a>>) = a /\ Tail(<<a>>) = <<>>
           /\ <<a, b>> # <<>> /\ <<a>> # <<>> /\ <<a, b>> # <<b>>
           /\ Targets(<<a, b>>) = {a, b} /\ Targets(<<a>>) = {a}
           /\ Targets(<<>>) = {}
BY DEF Targets

\* Where a function goes on behind its lock.
LEMMA FirstPcs ==
    /\ \A fn \in {"enable", "disable"} : FirstPc(fn) = "edit"
    /\ FirstPc("pending") = "inb"
    /\ \A fn \in {"mask", "init"} : FirstPc(fn) = "ff"
    /\ FirstPc("unmask") = "load"
    /\ FirstPc("ack") = "test"
BY DEF FirstPc

\* The sequences there are.
LEMMA ConcreteWrites ==
    /\ Head(<<"master", "slave">>) = "master" /\ Tail(<<"master", "slave">>) = <<"slave">>
    /\ Head(<<"slave", "master">>) = "slave" /\ Tail(<<"slave", "master">>) = <<"master">>
    /\ Head(<<"master">>) = "master" /\ Tail(<<"master">>) = <<>>
    /\ Head(<<"slave">>) = "slave" /\ Tail(<<"slave">>) = <<>>
    /\ <<"master", "slave">> # <<>> /\ <<"slave", "master">> # <<>>
    /\ <<"master">> # <<>> /\ <<"slave">> # <<>>
    /\ Targets(<<"master", "slave">>) = {"master", "slave"}
    /\ Targets(<<"slave", "master">>) = {"master", "slave"}
    /\ Targets(<<"master">>) = {"master"} /\ Targets(<<"slave">>) = {"slave"}
    /\ Targets(<<>>) = {}
BY DEF Targets

\* Taking the first of the writes that are left.
LEMMA HeadTail ==
    ASSUME NEW o \in OutSeqs, o # <<>>
    PROVE  /\ Head(o) \in PICs /\ Tail(o) \in OutSeqs
           /\ Targets(o) = {Head(o)} \cup Targets(Tail(o))
           /\ Head(o) \notin Targets(Tail(o))
<1>1. CASE o \in {<<"master">>, <<"slave">>}
    BY <1>1, ConcreteWrites, Zenon DEF OutSeqs, PICs
<1>2. CASE o \in {<<"master", "slave">>, <<"slave", "master">>}
    <2>1. /\ Head(o) \in PICs /\ Tail(o) \in OutSeqs
          /\ Targets(o) = {"master", "slave"}
          /\ \/ Head(o) = "master" /\ Targets(Tail(o)) = {"slave"}
             \/ Head(o) = "slave" /\ Targets(Tail(o)) = {"master"}
        BY <1>2, ConcreteWrites, Zenon DEF OutSeqs, PICs
    <2> QED
        BY <2>1
<1> QED
    BY <1>1, <1>2 DEF OutSeqs

\* One write less is left.
LEMMA NextWrite ==
    ASSUME NEW fn \in Fns, NEW irq, NEW outs, NEW pc \in {"load", "out", "ff"},
           FnFits(pc, fn), OutsFit(pc, fn, irq, outs)
    PROVE  /\ outs # <<>>
           /\ Tail(outs) # <<>> =>
                \A q \in {"load", "out", "ff"} : OutsFit(q, fn, irq, Tail(outs))
<1>1. CASE fn \in {"enable", "disable"}
    <2>1. outs = <<MaskPort(irq)>>
        BY <1>1 DEF OutsFit
    <2> QED
        BY <2>1, TwoWrites
<1>2. CASE fn \in {"mask", "unmask"}
    <2>1. outs \in {<<"slave", "master">>, <<"master">>}
        BY <1>2 DEF OutsFit
    <2>2. outs # <<>> /\ (Tail(outs) # <<>> => Tail(outs) = <<"master">>)
        BY <2>1, ConcreteWrites, Zenon
    <2> QED
        BY <1>2, <2>2 DEF OutsFit
<1>3. CASE fn = "init"
    <2>1. outs \in {<<"master", "slave">>, <<"slave">>}
        BY <1>3 DEF OutsFit
    <2>2. outs # <<>> /\ (Tail(outs) # <<>> => Tail(outs) = <<"slave">>)
        BY <2>1, ConcreteWrites, Zenon
    <2> QED
        BY <1>3, <2>2 DEF OutsFit
<1> QED
    BY <1>1, <1>2, <1>3 DEF FnFits, Writers

\* Writing a controller's byte sets its lines and leaves the others.
LEMMA ByteWritten ==
    ASSUME NEW pic, NEW mask, NEW old, old \subseteq Irqs
    PROVE  LET new == (old \ Byte(pic, Irqs)) \cup Byte(pic, mask) IN
           /\ Byte(pic, new) = Byte(pic, mask)
           /\ \A other : other # pic => Byte(other, new) = Byte(other, old)
BY DEF Byte

-----------------------------------------------------------------------------
(* Steps of one CPU *)

\* The other CPUs stay where they are.
Others(c) == \A d \in CPUs \ {c} : cpu'[d] = cpu[d]

\* A CPU stays in the call it is in.
Same(c) ==
    /\ cpu'[c].fn = cpu[c].fn
    /\ cpu'[c].irq = cpu[c].irq
    /\ cpu'[c].desc = cpu[c].desc
    /\ cpu'[c].genuine = cpu[c].genuine

\* The type of a CPU's record.
LEMMA Records ==
    ASSUME TypeOK
    PROVE  cpu \in [CPUs -> CpuRecords]
BY DEF TypeOK, CpuRecords, OutSeqs

\* A step of one CPU leaves the others' records alone.
LEMMA Updated ==
    ASSUME TypeOK, NEW c \in CPUs, NEW r \in CpuRecords, cpu' = [cpu EXCEPT ![c] = r]
    PROVE  cpu' \in [CPUs -> CpuRecords] /\ cpu'[c] = r /\ Others(c)
BY Records DEF Others

\* Only the CPU that holds the lock is inside a function.
LEMMA Alone ==
    ASSUME IInv, NEW c \in CPUs, cpu[c].pc \in Critical
    PROVE  i8259A_lock = c /\ \A d \in CPUs \ {c} : cpu[d].pc \notin Critical
BY DEF IInv, Exclusion

\* A step inside a function that keeps the lock: what it does not disturb, and
\* what remains to be shown of the CPU itself.
LEMMA InsideStep ==
    ASSUME IInv, NEW c \in CPUs, cpu[c].pc \in Critical, Others(c),
           cpu'[c].pc \in Critical \ {"edit"}, Same(c),
           UNCHANGED <<i8259A_lock, disabled, powerVars>>,
           ShapeOf(cpu'[c]), LoadedBy(c)', WrittenBy(c)'
    PROVE  /\ Exclusion' /\ Phases' /\ DescExclusive' /\ EnablesEnabled' /\ TriggerSaved'
           /\ Shape' /\ Loaded' /\ Written'
<1>1. \A d \in CPUs \ {c} : cpu'[d] = cpu[d] /\ cpu[d].pc \notin Critical
    BY Alone DEF Others
<1>2. Exclusion'
    BY <1>1 DEF IInv, Exclusion
<1>3. Phases'
    BY <1>1 DEF IInv, Phases, powerVars, Critical, Same
<1>4. DescExclusive'
    BY <1>1 DEF IInv, DescExclusive, Same
<1>5. EnablesEnabled'
    BY <1>1 DEF IInv, EnablesEnabled, Critical, Same
<1>6. TriggerSaved'
    BY DEF IInv, TriggerSaved, powerVars
<1>7. Shape'
    BY <1>1 DEF IInv, Shape
<1>8. Loaded'
    BY <1>1 DEF Loaded, LoadedBy, Critical, Pcs
<1>9. Written'
    BY <1>1 DEF Written, WrittenBy, Critical, Pcs
<1> QED
    BY <1>2, <1>3, <1>4, <1>5, <1>6, <1>7, <1>8, <1>9
\* A CPU moves on and changes nothing else of its record.
LEMMA Moved ==
    ASSUME TypeOK, NEW c \in CPUs, NEW pc \in Pcs, cpu' = [cpu EXCEPT ![c].pc = pc]
    PROVE  /\ cpu' \in [CPUs -> CpuRecords]
           /\ Others(c) /\ Same(c)
           /\ cpu'[c].pc = pc
           /\ cpu'[c].outs = cpu[c].outs
           /\ cpu'[c].reg = cpu[c].reg
           /\ cpu'[c].real = cpu[c].real
<1> DEFINE r == [cpu[c] EXCEPT !.pc = pc]
<1>1. cpu[c] \in CpuRecords
    BY Records
<1>2. /\ r \in CpuRecords /\ r.pc = pc
      /\ r.fn = cpu[c].fn /\ r.irq = cpu[c].irq /\ r.desc = cpu[c].desc
      /\ r.outs = cpu[c].outs /\ r.reg = cpu[c].reg /\ r.real = cpu[c].real
      /\ r.genuine = cpu[c].genuine
    BY <1>1 DEF CpuRecords
<1>3. cpu' = [cpu EXCEPT ![c] = r]
    OBVIOUS
<1> HIDE DEF r
<1> QED
    BY <1>2, <1>3, Updated DEF Same

\* The parts of the invariant that a step inside a function keeps ...
\* ... when masks are not touched, or the cache grows.
LEMMA FreshKept ==
    ASSUME IInv, NEW c \in CPUs, i8259A_lock = c, Others(c),
           cpu'[c].outs = cpu[c].outs, UNCHANGED <<i8259A_lock, imr, drifted>>,
           cached_irq_mask \subseteq cached_irq_mask'
    PROVE  Fresh'
BY DEF IInv, Fresh, Others

\* ... when it neither selects a register nor begins or ends a read.
LEMMA SelectedKept ==
    ASSUME IInv, NEW c \in CPUs, Others(c), Same(c), UNCHANGED <<readSel, power>>,
           Asks(c)' <=> Asks(c),
           power = "boot" /\ cpu'[c].pc \in {"load", "out", "unlock"} =>
                cpu[c].pc \in {"load", "out", "unlock"}
    PROVE  Selected'
<1>1. \A d \in CPUs : Asks(d)' <=> Asks(d)
    BY DEF Asks, Others
<1>2. \A d \in CPUs : cpu'[d].irq = cpu[d].irq
    BY DEF Others, Same
<1>3. (power' # "boot" \/ \E d \in CPUs : cpu'[d].pc \in {"load", "out", "unlock"}) =>
      (power # "boot" \/ \E d \in CPUs : cpu[d].pc \in {"load", "out", "unlock"})
    BY DEF Others
<1> QED
    BY <1>1, <1>2, <1>3 DEF IInv, Selected

\* ... when it reads no register.
LEMMA InServiceKept ==
    ASSUME IInv, NEW c \in CPUs, Others(c), Same(c), cpu'[c].real = cpu[c].real,
           UNCHANGED isr
    PROVE  InService'
BY DEF IInv, InService, Others, Same

\* ... when it is past its own change of the cache.
LEMMA DisableKept ==
    ASSUME IInv, NEW c \in CPUs, cpu[c].pc \in Critical \ {"edit"}, Others(c),
           UNCHANGED disabled, cached_irq_mask \subseteq cached_irq_mask'
    PROVE  DisableReaches'
BY DEF IInv, DisableReaches, Others, Critical
-----------------------------------------------------------------------------
(* The steps inside a function *)

\* enable_8259A_irq and disable_8259A_irq change one bit of the cache.
LEMMA EditCacheIInv ==
    ASSUME IInv, NEW c \in CPUs, EditCache(c)
    PROVE  IInv'
<1>1. /\ cpu[c].pc = "edit" /\ cpu[c].pc \in Critical
      /\ cpu' = [cpu EXCEPT ![c].pc = "load"]
      /\ UNCHANGED <<i8259A_lock, hwVars, coreVars, powerVars>>
    BY DEF EditCache, At, Critical, Pcs
<1>2. i8259A_lock = c /\ ShapeOf(cpu[c]) /\ TypeOK
    BY <1>1, Alone DEF IInv, Shape
<1>3. /\ cpu' \in [CPUs -> CpuRecords]
      /\ Others(c) /\ Same(c)
      /\ cpu'[c].pc = "load"
      /\ cpu'[c].outs = cpu[c].outs
      /\ cpu'[c].real = cpu[c].real
    BY <1>1, <1>2, Moved DEF Pcs
<1> DEFINE i == cpu[c].irq
<1>4. i \in Irqs /\ cpu[c].outs = <<MaskPort(i)>> /\ cpu[c].fn \in {"enable", "disable"}
    BY <1>1, <1>2 DEF ShapeOf, FnFits, OutsFit, LineFns
<1>5. cached_irq_mask' \in {cached_irq_mask \ {i}, cached_irq_mask \cup {i}}
    BY DEF EditCache
<1>6. TypeOK'
    BY <1>1, <1>2, <1>3, <1>4, <1>5
    DEF TypeOK, CpuRecords, OutSeqs, hwVars, coreVars, powerVars
<1>7. ShapeOf(cpu'[c])
    BY <1>1, <1>2, <1>3, <1>4 DEF ShapeOf, FnFits, OutsFit, Same, Writers
<1>8. LoadedBy(c)'
    BY <1>3 DEF LoadedBy
<1>9. WrittenBy(c)'
    BY <1>3, <1>4, Orders DEF WrittenBy, Same
<1>10. Fresh'
    <2>1. Targets(cpu'[c].outs) = {MaskPort(i)} /\ Targets(cpu[c].outs) = {MaskPort(i)}
        BY <1>3, <1>4, TwoWrites
    <2>2. ASSUME NEW pic \in PICs \ drifted, pic # MaskPort(i)
          PROVE  Byte(pic, imr) \subseteq cached_irq_mask'
        <3>1. Byte(pic, imr) \subseteq cached_irq_mask
            BY <1>2, <2>1, <2>2 DEF IInv, Fresh
        <3> QED
            BY <3>1, <1>5, <2>2 DEF Byte
    <2> QED
        BY <1>1, <1>2, <2>1, <2>2 DEF Fresh, hwVars
<1>11. Selected'
    BY <1>1, <1>2, <1>3, <1>4, SelectedKept
    DEF Asks, hwVars, powerVars, Same, IInv, Phases
<1>12. InService'
    BY <1>1, <1>3, InServiceKept DEF hwVars
<1>13. DisableReaches'
    <2>1. ASSUME NEW j \in Lines, j \in disabled
          PROVE  \/ j \in cached_irq_mask'
                 \/ \E d \in CPUs : /\ cpu'[d].fn = "disable"
                                    /\ cpu'[d].pc \in {"lock", "edit"}
                                    /\ cpu'[d].desc = j
        <3>1. CASE cpu[c].fn = "enable"
            <4>1. i # j
                BY <1>1, <2>1, <3>1 DEF IInv, EnablesEnabled
            <4> QED
                BY <1>3, <1>5, <2>1, <3>1, <4>1 DEF IInv, DisableReaches, Others
        <3>2. CASE cpu[c].fn = "disable"
            <4>1. cpu[c].desc = i /\ cached_irq_mask' = cached_irq_mask \cup {i}
                BY <1>2, <3>2 DEF ShapeOf, EditCache
            <4> QED
                BY <1>3, <2>1, <4>1 DEF IInv, DisableReaches, Others
        <3> QED
            BY <1>4, <3>1, <3>2
    <2> QED
        BY <1>1, <2>1 DEF DisableReaches, coreVars
<1>14. /\ Exclusion' /\ Phases' /\ DescExclusive' /\ EnablesEnabled' /\ TriggerSaved'
       /\ Shape' /\ Loaded' /\ Written'
    BY <1>1, <1>3, <1>7, <1>8, <1>9, InsideStep DEF coreVars, Critical, Pcs
<1> QED
    BY <1>6, <1>10, <1>11, <1>12, <1>13, <1>14 DEF IInv

\* A byte of the cache is loaded.
LEMMA LoadByteIInv ==
    ASSUME IInv, NEW c \in CPUs, LoadByte(c)
    PROVE  IInv'
<1> DEFINE byte == Byte(Head(cpu[c].outs), cached_irq_mask)
           r == [cpu[c] EXCEPT !.pc = "out", !.reg = byte]
<1>1. /\ cpu[c].pc = "load" /\ cpu[c].pc \in Critical
      /\ cpu' = [cpu EXCEPT ![c] = r]
      /\ UNCHANGED <<cached_irq_mask, i8259A_lock, hwVars, coreVars, powerVars>>
    BY DEF LoadByte, At, Critical, Pcs
<1>2. i8259A_lock = c /\ ShapeOf(cpu[c]) /\ TypeOK /\ WrittenBy(c)
    BY <1>1, Alone DEF IInv, Shape, Written
<1>3. byte \subseteq Irqs
    BY <1>2 DEF Byte, TypeOK
<1> HIDE DEF byte
<1>4. /\ r \in CpuRecords /\ r.pc = "out"
      /\ r.fn = cpu[c].fn /\ r.irq = cpu[c].irq /\ r.desc = cpu[c].desc
      /\ r.outs = cpu[c].outs /\ r.reg = byte /\ r.real = cpu[c].real
      /\ r.genuine = cpu[c].genuine
    BY <1>2, <1>3, Records DEF CpuRecords, Pcs
<1> HIDE DEF r
<1>5. /\ cpu' \in [CPUs -> CpuRecords]
      /\ Others(c) /\ Same(c)
      /\ cpu'[c].pc = "out"
      /\ cpu'[c].outs = cpu[c].outs
      /\ cpu'[c].reg = byte
      /\ cpu'[c].real = cpu[c].real
    BY <1>1, <1>2, <1>4, Updated DEF Same
<1>6. TypeOK'
    BY <1>1, <1>2, <1>5 DEF TypeOK, CpuRecords, OutSeqs, hwVars, coreVars, powerVars
<1>7. ShapeOf(cpu'[c])
    BY <1>1, <1>2, <1>5 DEF ShapeOf, FnFits, OutsFit, Same, Writers
<1>8. LoadedBy(c)'
    BY <1>1, <1>5 DEF LoadedBy, byte
<1>9. WrittenBy(c)'
    BY <1>1, <1>2, <1>5 DEF WrittenBy, Same, hwVars
<1>10. Fresh'
    BY <1>1, <1>2, <1>5, FreshKept DEF hwVars
<1>11. Selected'
    BY <1>1, <1>2, <1>5, SelectedKept DEF Asks, hwVars, powerVars
<1>12. InService'
    BY <1>1, <1>5, InServiceKept DEF hwVars
<1>13. DisableReaches'
    BY <1>1, <1>5, DisableKept DEF coreVars
<1>14. /\ Exclusion' /\ Phases' /\ DescExclusive' /\ EnablesEnabled' /\ TriggerSaved'
       /\ Shape' /\ Loaded' /\ Written'
    BY <1>1, <1>5, <1>7, <1>8, <1>9, InsideStep DEF coreVars, Critical, Pcs
<1> QED
    BY <1>6, <1>10, <1>11, <1>12, <1>13, <1>14 DEF IInv
LEMMA OutByteIInv ==
    ASSUME IInv, NEW c \in CPUs, OutByte(c)
    PROVE  IInv'
<1> DEFINE pic == Head(cpu[c].outs)
           rest == Tail(cpu[c].outs)
           pc == IF rest = <<>> THEN "unlock" ELSE "load"
           r == [cpu[c] EXCEPT !.outs = rest, !.pc = pc]
<1>1. /\ cpu[c].pc = "out" /\ cpu[c].pc \in Critical
      /\ cpu' = [cpu EXCEPT ![c] = r]
      /\ imr' = (imr \ Byte(pic, Irqs)) \cup cpu[c].reg
      /\ drifted' = drifted \ {pic}
      /\ UNCHANGED <<cached_irq_mask, i8259A_lock, isr, readSel, coreVars, powerVars>>
    BY DEF OutByte, At, Critical, Pcs
<1>2. /\ i8259A_lock = c /\ ShapeOf(cpu[c]) /\ TypeOK /\ WrittenBy(c) /\ LoadedBy(c)
      /\ cpu[c] \in CpuRecords /\ cpu[c].outs \in OutSeqs /\ cpu[c].fn \in Fns
    BY <1>1, Alone, Records DEF IInv, Shape, Written, Loaded, CpuRecords
<1>3. cpu[c].outs # <<>> /\ (rest # <<>> => OutsFit("load", cpu[c].fn, cpu[c].irq, rest))
    BY <1>1, <1>2, NextWrite DEF ShapeOf
<1>4. /\ pic \in PICs /\ rest \in OutSeqs
      /\ Targets(cpu[c].outs) = {pic} \cup Targets(rest)
      /\ pic \notin Targets(rest)
    BY <1>2, <1>3, HeadTail
<1>5. /\ Byte(pic, imr') = Byte(pic, cached_irq_mask)
      /\ \A other : other # pic => Byte(other, imr') = Byte(other, imr)
    <2>1. imr' = (imr \ Byte(pic, Irqs)) \cup Byte(pic, cached_irq_mask) /\ imr \subseteq Irqs
        BY <1>1, <1>2 DEF LoadedBy, TypeOK
    <2> HIDE DEF pic
    <2> QED
        BY <2>1, ByteWritten
<1>6. imr' \subseteq Irqs
    BY <1>1, <1>2 DEF TypeOK, CpuRecords
<1> HIDE DEF pic, rest
<1>7. /\ r \in CpuRecords /\ r.pc = pc
      /\ r.fn = cpu[c].fn /\ r.irq = cpu[c].irq /\ r.desc = cpu[c].desc
      /\ r.outs = rest /\ r.real = cpu[c].real
      /\ r.genuine = cpu[c].genuine
    BY <1>2, <1>4 DEF CpuRecords, Pcs
<1> HIDE DEF r
<1>8. /\ cpu' \in [CPUs -> CpuRecords]
      /\ Others(c) /\ Same(c)
      /\ cpu'[c].pc = pc
      /\ cpu'[c].outs = rest
      /\ cpu'[c].real = cpu[c].real
    BY <1>1, <1>2, <1>7, Updated DEF Same
<1>9. TypeOK'
    BY <1>1, <1>2, <1>6, <1>8 DEF TypeOK, CpuRecords, OutSeqs, coreVars, powerVars
<1>10. ShapeOf(cpu'[c])
    BY <1>1, <1>2, <1>3, <1>8 DEF ShapeOf, FnFits, OutsFit, Same, Writers
<1>11. LoadedBy(c)'
    BY <1>8 DEF LoadedBy
<1>12. WrittenBy(c)'
    <2>1. ASSUME NEW q \in Targets(WriteOrder(cpu[c].fn, cpu[c].irq)) \ Targets(rest),
                 cpu[c].fn \in Writers
          PROVE  Byte(q, imr') = Byte(q, cached_irq_mask)
        <3>1. CASE q = pic
            BY <3>1, <1>5
        <3>2. CASE q # pic
            <4>1. q \notin Targets(cpu[c].outs)
                BY <1>4, <2>1, <3>2
            <4> QED
                BY <1>1, <1>2, <1>5, <2>1, <3>2, <4>1 DEF WrittenBy
        <3> QED
            BY <3>1, <3>2
    <2> QED
        BY <1>1, <1>8, <2>1 DEF WrittenBy, Same
<1>13. Fresh'
    <2>1. ASSUME NEW q \in PICs \ drifted', q \notin Targets(rest)
          PROVE  Byte(q, imr') \subseteq cached_irq_mask
        <3>1. CASE q = pic
            BY <3>1, <1>5 DEF Byte
        <3>2. CASE q # pic
            <4>1. q \in PICs \ drifted /\ q \notin Targets(cpu[c].outs)
                BY <1>1, <1>4, <2>1, <3>2
            <4> QED
                BY <1>2, <1>5, <3>2, <4>1 DEF IInv, Fresh
        <3> QED
            BY <3>1, <3>2
    <2> QED
        BY <1>1, <1>2, <1>8, <2>1 DEF Fresh
<1>14. Selected'
    BY <1>1, <1>2, <1>8, SelectedKept DEF Asks, powerVars
<1>15. InService'
    BY <1>1, <1>8, InServiceKept
<1>16. DisableReaches'
    BY <1>1, <1>8, DisableKept DEF coreVars
<1>17. /\ Exclusion' /\ Phases' /\ DescExclusive' /\ EnablesEnabled' /\ TriggerSaved'
       /\ Shape' /\ Loaded' /\ Written'
    BY <1>1, <1>8, <1>10, <1>11, <1>12, InsideStep DEF coreVars, Critical, Pcs
<1> QED
    BY <1>9, <1>13, <1>14, <1>15, <1>16, <1>17 DEF IInv
LEMMA OutFFIInv ==
    ASSUME IInv, NEW c \in CPUs, OutFF(c)
    PROVE  IInv'
<1> DEFINE pic == Head(cpu[c].outs)
           rest == Tail(cpu[c].outs)
           pc == AfterFF(cpu[c].fn, rest)
           r == [cpu[c] EXCEPT !.outs = rest, !.pc = pc]
<1>1. /\ cpu[c].pc = "ff" /\ cpu[c].pc \in Critical
      /\ cpu' = [cpu EXCEPT ![c] = r]
      /\ imr' = imr \cup Byte(pic, Irqs)
      /\ drifted' = drifted \cup {pic}
      /\ UNCHANGED <<cached_irq_mask, i8259A_lock, isr, readSel, coreVars, powerVars>>
    BY DEF OutFF, At, Critical, Pcs
<1>2. /\ i8259A_lock = c /\ ShapeOf(cpu[c]) /\ TypeOK
      /\ cpu[c] \in CpuRecords /\ cpu[c].outs \in OutSeqs /\ cpu[c].fn \in {"mask", "init"}
    BY <1>1, Alone, Records DEF IInv, Shape, ShapeOf, FnFits, CpuRecords
<1>3. cpu[c].outs # <<>> /\ (rest # <<>> => OutsFit("ff", cpu[c].fn, cpu[c].irq, rest))
    BY <1>1, <1>2, NextWrite DEF ShapeOf, Fns
<1>4. /\ pic \in PICs /\ rest \in OutSeqs
      /\ Targets(cpu[c].outs) = {pic} \cup Targets(rest)
    BY <1>2, <1>3, HeadTail
<1>5. imr' \subseteq Irqs /\ \A q : q # pic => Byte(q, imr') = Byte(q, imr)
    BY <1>1, <1>2 DEF TypeOK, Byte
<1> HIDE DEF pic, rest
<1>6. \/ rest # <<>> /\ pc = "ff"
      \/ rest = <<>> /\ cpu[c].fn = "mask" /\ pc = "unlock"
      \/ rest = <<>> /\ cpu[c].fn = "init" /\ pc = "icw"
    BY <1>2 DEF AfterFF
<1> HIDE DEF pc
<1>7. /\ r \in CpuRecords /\ r.pc = pc
      /\ r.fn = cpu[c].fn /\ r.irq = cpu[c].irq /\ r.desc = cpu[c].desc
      /\ r.outs = rest /\ r.real = cpu[c].real
      /\ r.genuine = cpu[c].genuine
    BY <1>2, <1>4, <1>6 DEF CpuRecords, Pcs
<1> HIDE DEF r
<1>8. /\ cpu' \in [CPUs -> CpuRecords]
      /\ Others(c) /\ Same(c)
      /\ cpu'[c].pc = pc
      /\ cpu'[c].outs = rest
      /\ cpu'[c].real = cpu[c].real
    BY <1>1, <1>2, <1>7, Updated DEF Same
<1>9. TypeOK'
    BY <1>1, <1>2, <1>4, <1>5, <1>8 DEF TypeOK, CpuRecords, OutSeqs, coreVars, powerVars
<1>10. ShapeOf(cpu'[c])
    BY <1>1, <1>2, <1>3, <1>6, <1>8 DEF ShapeOf, FnFits, OutsFit, Same, Writers
<1>11. LoadedBy(c)'
    BY <1>6, <1>8 DEF LoadedBy
<1>12. WrittenBy(c)'
    BY <1>6, <1>8 DEF WrittenBy, Same, Writers
<1>13. Fresh'
    <2>1. ASSUME NEW q \in PICs \ drifted', q \notin Targets(rest)
          PROVE  Byte(q, imr') \subseteq cached_irq_mask
        <3>1. q # pic /\ q \in PICs \ drifted /\ q \notin Targets(cpu[c].outs)
            BY <1>1, <1>4, <2>1
        <3> QED
            BY <1>2, <1>5, <3>1 DEF IInv, Fresh
    <2> QED
        BY <1>1, <1>2, <1>8, <2>1 DEF Fresh
<1>14. Selected'
    <2>1. power = "boot" => cpu[c].fn = "init"
        BY <1>1 DEF IInv, Phases
    <2> QED
        BY <1>1, <1>2, <1>6, <1>8, <2>1, SelectedKept DEF Asks, powerVars
<1>15. InService'
    BY <1>1, <1>8, InServiceKept
<1>16. DisableReaches'
    BY <1>1, <1>8, DisableKept DEF coreVars
<1>17. /\ Exclusion' /\ Phases' /\ DescExclusive' /\ EnablesEnabled' /\ TriggerSaved'
       /\ Shape' /\ Loaded' /\ Written'
    BY <1>1, <1>6, <1>8, <1>10, <1>11, <1>12, InsideStep DEF coreVars, Critical, Pcs
<1> QED
    BY <1>9, <1>13, <1>14, <1>15, <1>16, <1>17 DEF IInv

\* init_8259A writes its initialisation words, which clear the masks.
LEMMA OutIcwIInv ==
    ASSUME IInv, NEW c \in CPUs, OutIcw(c)
    PROVE  IInv'
<1> DEFINE o == WriteOrder("init", NoIrq)
           r == [cpu[c] EXCEPT !.pc = "load", !.outs = o]
<1>1. /\ cpu[c].pc = "icw" /\ cpu[c].pc \in Critical
      /\ cpu' = [cpu EXCEPT ![c] = r]
      /\ imr' = {} /\ isr' = {} /\ drifted' = PICs
      /\ readSel' = [pic \in PICs |-> "irr"]
      /\ UNCHANGED <<cached_irq_mask, i8259A_lock, coreVars, powerVars>>
    BY DEF OutIcw, At, Critical, Pcs
<1>2. /\ i8259A_lock = c /\ ShapeOf(cpu[c]) /\ TypeOK /\ cpu[c] \in CpuRecords
      /\ cpu[c].fn = "init"
    BY <1>1, Alone, Records DEF IInv, Shape, ShapeOf, FnFits
<1>3. o = <<"master", "slave">>
    BY Orders
<1> HIDE DEF o
<1>4. /\ r \in CpuRecords /\ r.pc = "load"
      /\ r.fn = cpu[c].fn /\ r.irq = cpu[c].irq /\ r.desc = cpu[c].desc
      /\ r.outs = o /\ r.real = cpu[c].real
      /\ r.genuine = cpu[c].genuine
    BY <1>2, <1>3 DEF CpuRecords, Pcs, OutSeqs
<1> HIDE DEF r
<1>5. /\ cpu' \in [CPUs -> CpuRecords]
      /\ Others(c) /\ Same(c)
      /\ cpu'[c].pc = "load"
      /\ cpu'[c].outs = <<"master", "slave">>
      /\ cpu'[c].real = cpu[c].real
    BY <1>1, <1>2, <1>3, <1>4, Updated DEF Same
<1>6. \A d \in CPUs \ {c} : cpu'[d].pc = "idle" /\ cpu'[d] = Idle
    BY <1>1, <1>2, <1>5 DEF IInv, Phases, Shape, ShapeOf, Others
<1>7. TypeOK'
    BY <1>1, <1>2, <1>5 DEF TypeOK, CpuRecords, OutSeqs, coreVars, powerVars
<1>8. ShapeOf(cpu'[c])
    BY <1>1, <1>2, <1>5 DEF ShapeOf, FnFits, OutsFit, Same, Writers
<1>9. LoadedBy(c)'
    BY <1>5 DEF LoadedBy
<1>10. WrittenBy(c)'
    BY <1>2, <1>5, Orders DEF WrittenBy, Same
<1>11. Fresh'
    BY <1>1 DEF Fresh
<1>12. Selected'
    BY <1>1, <1>2, <1>5, <1>6 DEF Selected, Asks, Same
<1>13. InService'
    <2>1. ~cpu'[c].genuine
        BY <1>2, <1>8, <1>5 DEF ShapeOf, Same
    <2>2. \A d \in CPUs \ {c} : ~cpu'[d].genuine
        BY <1>6 DEF Idle
    <2> QED
        BY <2>1, <2>2 DEF InService
<1>14. DisableReaches'
    BY <1>1, <1>5, DisableKept DEF coreVars
<1>15. /\ Exclusion' /\ Phases' /\ DescExclusive' /\ EnablesEnabled' /\ TriggerSaved'
       /\ Shape' /\ Loaded' /\ Written'
    BY <1>1, <1>5, <1>8, <1>9, <1>10, InsideStep DEF coreVars, Critical, Pcs
<1> QED
    BY <1>7, <1>11, <1>12, <1>13, <1>14, <1>15 DEF IInv
LEMMA TestMaskedIInv ==
    ASSUME IInv, NEW c \in CPUs, TestMasked(c)
    PROVE  IInv'
<1>1. /\ cpu[c].pc = "test" /\ cpu[c].pc \in Critical
      /\ \E pc \in {"select", "ackmask"} : cpu' = [cpu EXCEPT ![c].pc = pc]
      /\ UNCHANGED <<cached_irq_mask, i8259A_lock, hwVars, coreVars, powerVars>>
    BY DEF TestMasked, At, Critical, Pcs
<1>2. /\ i8259A_lock = c /\ ShapeOf(cpu[c]) /\ TypeOK
      /\ cpu[c].fn = "ack" /\ cpu[c].irq \in Irqs /\ power # "boot"
    BY <1>1, Alone DEF IInv, Shape, ShapeOf, FnFits, LineFns, Phases
<1>3. /\ cpu' \in [CPUs -> CpuRecords]
      /\ Others(c) /\ Same(c)
      /\ cpu'[c].pc \in {"select", "ackmask"}
      /\ cpu'[c].outs = cpu[c].outs
      /\ cpu'[c].real = cpu[c].real
    BY <1>1, <1>2, Moved DEF Pcs
<1>4. cpu[c].outs = <<>>
    BY <1>1, <1>2 DEF ShapeOf, OutsFit
<1>5. TypeOK'
    BY <1>1, <1>2, <1>3 DEF TypeOK, CpuRecords, OutSeqs, hwVars, coreVars, powerVars
<1>6. ShapeOf(cpu'[c])
    BY <1>1, <1>2, <1>3, <1>4 DEF ShapeOf, FnFits, OutsFit, Same
<1>7. LoadedBy(c)'
    BY <1>3 DEF LoadedBy
<1>8. WrittenBy(c)'
    BY <1>2, <1>3 DEF WrittenBy, Same, Writers
<1>9. Fresh'
    BY <1>1, <1>2, <1>3, FreshKept DEF hwVars
<1>10. Selected'
    BY <1>1, <1>2, <1>3, SelectedKept DEF Asks, hwVars, powerVars
<1>11. InService'
    BY <1>1, <1>3, InServiceKept DEF hwVars
<1>12. DisableReaches'
    BY <1>1, <1>3, DisableKept DEF coreVars
<1>13. /\ Exclusion' /\ Phases' /\ DescExclusive' /\ EnablesEnabled' /\ TriggerSaved'
       /\ Shape' /\ Loaded' /\ Written'
    BY <1>1, <1>3, <1>6, <1>7, <1>8, InsideStep DEF coreVars, Critical, Pcs
<1> QED
    BY <1>5, <1>9, <1>10, <1>11, <1>12, <1>13 DEF IInv

\* i8259A_irq_real selects the in-service register ...
LEMMA SelectIsrIInv ==
    ASSUME IInv, NEW c \in CPUs, SelectIsr(c)
    PROVE  IInv'
<1>1. /\ cpu[c].pc = "select" /\ cpu[c].pc \in Critical
      /\ cpu' = [cpu EXCEPT ![c].pc = "inb"]
      /\ readSel' = [readSel EXCEPT ![CommandPort(cpu[c].irq)] = "isr"]
      /\ UNCHANGED <<cached_irq_mask, i8259A_lock, imr, isr, drifted, coreVars, powerVars>>
    BY DEF SelectIsr, At, Critical, Pcs
<1>2. /\ i8259A_lock = c /\ ShapeOf(cpu[c]) /\ TypeOK
      /\ cpu[c].fn = "ack" /\ cpu[c].irq \in Irqs /\ power # "boot"
    BY <1>1, Alone DEF IInv, Shape, ShapeOf, FnFits, LineFns, Phases
<1>3. /\ cpu' \in [CPUs -> CpuRecords]
      /\ Others(c) /\ Same(c)
      /\ cpu'[c].pc = "inb"
      /\ cpu'[c].outs = cpu[c].outs
      /\ cpu'[c].real = cpu[c].real
    BY <1>1, <1>2, Moved DEF Pcs
<1>4. cpu[c].outs = <<>>
    BY <1>1, <1>2 DEF ShapeOf, OutsFit
<1>5. TypeOK'
    BY <1>1, <1>2, <1>3 DEF TypeOK, CpuRecords, OutSeqs, hwVars, coreVars, powerVars
<1>6. ShapeOf(cpu'[c])
    BY <1>1, <1>2, <1>3, <1>4 DEF ShapeOf, FnFits, OutsFit, Same
<1>7. LoadedBy(c)'
    BY <1>3 DEF LoadedBy
<1>8. WrittenBy(c)'
    BY <1>2, <1>3 DEF WrittenBy, Same, Writers
<1>9. Fresh'
    BY <1>1, <1>2, <1>3, FreshKept DEF hwVars
<1>10. Selected'
    <2>1. \A d \in CPUs : ~Asks(d) /\ (Asks(d)' <=> d = c)
        BY <1>1, <1>2, <1>3, Alone DEF Asks, Others, Same, Critical, Pcs
    <2>2. \A pic \in PICs : readSel[pic] = "irr"
        BY <1>2, <2>1 DEF IInv, Selected, TypeOK
    <2>3. cpu'[c].irq = cpu[c].irq
        BY <1>3 DEF Same
    <2>4. \A pic \in PICs : readSel'[pic] = "isr" <=> pic = CommandPort(cpu[c].irq)
        BY <1>1, <1>2, <2>2 DEF TypeOK
    <2> QED
        BY <2>1, <2>3, <2>4 DEF Selected
<1>11. InService'
    BY <1>1, <1>3, InServiceKept DEF hwVars
<1>12. DisableReaches'
    BY <1>1, <1>3, DisableKept DEF coreVars
<1>13. /\ Exclusion' /\ Phases' /\ DescExclusive' /\ EnablesEnabled' /\ TriggerSaved'
       /\ Shape' /\ Loaded' /\ Written'
    BY <1>1, <1>3, <1>6, <1>7, <1>8, InsideStep DEF coreVars, Critical, Pcs
<1> QED
    BY <1>5, <1>9, <1>10, <1>11, <1>12, <1>13 DEF IInv

\* ... and the request register again.
LEMMA SelectIrrIInv ==
    ASSUME IInv, NEW c \in CPUs, SelectIrr(c)
    PROVE  IInv'
<1>1. /\ cpu[c].pc = "deselect" /\ cpu[c].pc \in Critical
      /\ cpu' = [cpu EXCEPT ![c].pc = "ackmask"]
      /\ readSel' = [readSel EXCEPT ![CommandPort(cpu[c].irq)] = "irr"]
      /\ UNCHANGED <<cached_irq_mask, i8259A_lock, imr, isr, drifted, coreVars, powerVars>>
    BY DEF SelectIrr, At, Critical, Pcs
<1>2. /\ i8259A_lock = c /\ ShapeOf(cpu[c]) /\ TypeOK
      /\ cpu[c].fn = "ack" /\ cpu[c].irq \in Irqs /\ power # "boot"
    BY <1>1, Alone DEF IInv, Shape, ShapeOf, FnFits, LineFns, Phases
<1>3. /\ cpu' \in [CPUs -> CpuRecords]
      /\ Others(c) /\ Same(c)
      /\ cpu'[c].pc = "ackmask"
      /\ cpu'[c].outs = cpu[c].outs
      /\ cpu'[c].real = cpu[c].real
    BY <1>1, <1>2, Moved DEF Pcs
<1>4. cpu[c].outs = <<>>
    BY <1>1, <1>2 DEF ShapeOf, OutsFit
<1>5. TypeOK'
    BY <1>1, <1>2, <1>3 DEF TypeOK, CpuRecords, OutSeqs, hwVars, coreVars, powerVars
<1>6. ShapeOf(cpu'[c])
    BY <1>1, <1>2, <1>3, <1>4 DEF ShapeOf, FnFits, OutsFit, Same
<1>7. LoadedBy(c)'
    BY <1>3 DEF LoadedBy
<1>8. WrittenBy(c)'
    BY <1>2, <1>3 DEF WrittenBy, Same, Writers
<1>9. Fresh'
    BY <1>1, <1>2, <1>3, FreshKept DEF hwVars
<1>10. Selected'
    <2>1. \A d \in CPUs : ~Asks(d)' /\ (Asks(d) <=> d = c)
        BY <1>1, <1>2, <1>3, Alone DEF Asks, Others, Same, Critical, Pcs
    <2>2. \A pic \in PICs : readSel[pic] = "isr" <=> pic = CommandPort(cpu[c].irq)
        BY <1>2, <2>1 DEF IInv, Selected
    <2>3. \A pic \in PICs : readSel'[pic] # "isr"
        BY <1>1, <1>2, <2>2 DEF TypeOK
    <2> QED
        BY <2>1, <2>3 DEF Selected
<1>11. InService'
    BY <1>1, <1>3, InServiceKept DEF hwVars
<1>12. DisableReaches'
    BY <1>1, <1>3, DisableKept DEF coreVars
<1>13. /\ Exclusion' /\ Phases' /\ DescExclusive' /\ EnablesEnabled' /\ TriggerSaved'
       /\ Shape' /\ Loaded' /\ Written'
    BY <1>1, <1>3, <1>6, <1>7, <1>8, InsideStep DEF coreVars, Critical, Pcs
<1> QED
    BY <1>5, <1>9, <1>10, <1>11, <1>12, <1>13 DEF IInv

\* mask_and_ack_8259A_irq sets the bit of the line.
LEMMA AckMaskIInv ==
    ASSUME IInv, NEW c \in CPUs, AckMask(c)
    PROVE  IInv'
<1>1. /\ cpu[c].pc = "ackmask" /\ cpu[c].pc \in Critical
      /\ cpu' = [cpu EXCEPT ![c].pc = "unlock"]
      /\ cached_irq_mask' = cached_irq_mask \cup {cpu[c].irq}
      /\ UNCHANGED <<i8259A_lock, hwVars, coreVars, powerVars>>
    BY DEF AckMask, At, Critical, Pcs
<1>2. /\ i8259A_lock = c /\ ShapeOf(cpu[c]) /\ TypeOK
      /\ cpu[c].fn = "ack" /\ cpu[c].irq \in Irqs /\ power # "boot"
    BY <1>1, Alone DEF IInv, Shape, ShapeOf, FnFits, LineFns, Phases
<1>3. /\ cpu' \in [CPUs -> CpuRecords]
      /\ Others(c) /\ Same(c)
      /\ cpu'[c].pc = "unlock"
      /\ cpu'[c].outs = cpu[c].outs
      /\ cpu'[c].real = cpu[c].real
    BY <1>1, <1>2, Moved DEF Pcs
<1>4. cpu[c].outs = <<>>
    BY <1>1, <1>2 DEF ShapeOf, OutsFit
<1>5. TypeOK'
    BY <1>1, <1>2, <1>3 DEF TypeOK, CpuRecords, OutSeqs, hwVars, coreVars, powerVars
<1>6. ShapeOf(cpu'[c])
    BY <1>1, <1>2, <1>3, <1>4 DEF ShapeOf, FnFits, OutsFit, Same
<1>7. LoadedBy(c)'
    BY <1>3 DEF LoadedBy
<1>8. WrittenBy(c)'
    BY <1>2, <1>3 DEF WrittenBy, Same, Writers
<1>9. Fresh'
    BY <1>1, <1>2, <1>3, FreshKept DEF hwVars
<1>10. Selected'
    BY <1>1, <1>2, <1>3, SelectedKept DEF Asks, hwVars, powerVars
<1>11. InService'
    BY <1>1, <1>3, InServiceKept DEF hwVars
<1>12. DisableReaches'
    BY <1>1, <1>3, DisableKept DEF coreVars
<1>13. /\ Exclusion' /\ Phases' /\ DescExclusive' /\ EnablesEnabled' /\ TriggerSaved'
       /\ Shape' /\ Loaded' /\ Written'
    BY <1>1, <1>3, <1>6, <1>7, <1>8, InsideStep DEF coreVars, Critical, Pcs
<1> QED
    BY <1>5, <1>9, <1>10, <1>11, <1>12, <1>13 DEF IInv

\* A register is read.
LEMMA InbIInv ==
    ASSUME IInv, NEW c \in CPUs, Inb(c)
    PROVE  IInv'
<1>1. /\ cpu[c].pc = "inb" /\ cpu[c].pc \in Critical
      /\ UNCHANGED <<cached_irq_mask, i8259A_lock, hwVars, coreVars, powerVars>>
    BY DEF Inb, At, Critical, Pcs
<1>2. /\ i8259A_lock = c /\ ShapeOf(cpu[c]) /\ TypeOK /\ cpu[c] \in CpuRecords
      /\ cpu[c].fn \in {"pending", "ack"} /\ cpu[c].irq \in Irqs /\ power # "boot"
    BY <1>1, Alone, Records DEF IInv, Shape, ShapeOf, FnFits, LineFns, Phases
<1>3. /\ cpu' \in [CPUs -> CpuRecords]
      /\ Others(c) /\ Same(c)
      /\ \/ cpu[c].fn = "pending" /\ cpu'[c].pc = "unlock"
         \/ cpu[c].fn = "ack" /\ cpu'[c].pc = "deselect"
      /\ cpu'[c].outs = cpu[c].outs
      /\ cpu'[c].genuine => cpu'[c].real
    <2> DEFINE Moves ==
            /\ cpu' \in [CPUs -> CpuRecords]
            /\ Others(c) /\ Same(c)
            /\ \/ cpu[c].fn = "pending" /\ cpu'[c].pc = "unlock"
               \/ cpu[c].fn = "ack" /\ cpu'[c].pc = "deselect"
            /\ cpu'[c].outs = cpu[c].outs
            /\ cpu'[c].genuine => cpu'[c].real
           bits == IF readSel[CommandPort(cpu[c].irq)] = "isr"
                   THEN {cpu[c].irq \in isr} ELSE BOOLEAN
    <2>1. ASSUME cpu[c].fn = "pending", cpu' = [cpu EXCEPT ![c].pc = "unlock"]
          PROVE  Moves
        <3>1. /\ cpu' \in [CPUs -> CpuRecords] /\ Others(c) /\ Same(c)
              /\ cpu'[c].pc = "unlock" /\ cpu'[c].outs = cpu[c].outs
              /\ cpu'[c].real = cpu[c].real
            BY <1>2, <2>1, Moved DEF Pcs
        <3>2. cpu'[c].genuine => cpu'[c].real
            BY <3>1 DEF IInv, InService, Same
        <3> QED
            BY <2>1, <3>1, <3>2
    <2>2. ASSUME cpu[c].fn = "ack",
                 NEW bit \in bits,
                 cpu' = [cpu EXCEPT ![c].pc = "deselect", ![c].real = bit]
          PROVE  Moves
        <3> DEFINE r == [cpu[c] EXCEPT !.pc = "deselect", !.real = bit]
        <3>1. readSel[CommandPort(cpu[c].irq)] = "isr"
            BY <1>1, <1>2, <2>2, Ports DEF IInv, Selected, Asks
        <3>2. bit = (cpu[c].irq \in isr) /\ bit \in BOOLEAN
            BY <2>2, <3>1
        <3>3. cpu[c].genuine => bit
            BY <3>2 DEF IInv, InService
        <3>4. /\ r \in CpuRecords /\ r.pc = "deselect"
              /\ r.fn = cpu[c].fn /\ r.irq = cpu[c].irq /\ r.desc = cpu[c].desc
              /\ r.outs = cpu[c].outs /\ r.real = bit
              /\ r.genuine = cpu[c].genuine
            BY <1>2, <3>2 DEF CpuRecords, Pcs
        <3>5. cpu' = [cpu EXCEPT ![c] = r]
            BY <2>2
        <3> HIDE DEF r
        <3> QED
            BY <1>2, <2>2, <3>3, <3>4, <3>5, Updated DEF Same
    <2> HIDE DEF Moves
    <2>3. \/ cpu[c].fn = "pending" /\ cpu' = [cpu EXCEPT ![c].pc = "unlock"]
          \/ /\ cpu[c].fn = "ack"
             /\ \E bit \in bits :
                    cpu' = [cpu EXCEPT ![c].pc = "deselect", ![c].real = bit]
        BY Zenon DEF Inb
    <2> HIDE DEF bits
    <2>4. Moves
        BY <2>1, <2>2, <2>3, Zenon
    <2> QED
        BY <2>4 DEF Moves
<1>4. cpu[c].outs = <<>>
    BY <1>1, <1>2 DEF ShapeOf, OutsFit
<1>5. TypeOK'
    BY <1>1, <1>2, <1>3 DEF TypeOK, CpuRecords, OutSeqs, hwVars, coreVars, powerVars
<1>6. ShapeOf(cpu'[c])
    BY <1>1, <1>2, <1>3, <1>4 DEF ShapeOf, FnFits, OutsFit, Same
<1>7. LoadedBy(c)'
    BY <1>3 DEF LoadedBy
<1>8. WrittenBy(c)'
    BY <1>2, <1>3 DEF WrittenBy, Same, Writers
<1>9. Fresh'
    BY <1>1, <1>2, <1>3, FreshKept DEF hwVars
<1>10. Selected'
    BY <1>1, <1>2, <1>3, SelectedKept DEF Asks, Same, hwVars, powerVars
<1>11. InService'
    BY <1>1, <1>3 DEF IInv, InService, Others, Same, hwVars
<1>12. DisableReaches'
    BY <1>1, <1>3, DisableKept DEF coreVars
<1>13. /\ Exclusion' /\ Phases' /\ DescExclusive' /\ EnablesEnabled' /\ TriggerSaved'
       /\ Shape' /\ Loaded' /\ Written'
    BY <1>1, <1>3, <1>6, <1>7, <1>8, InsideStep DEF coreVars, Critical, Pcs
<1> QED
    BY <1>5, <1>9, <1>10, <1>11, <1>12, <1>13 DEF IInv
-----------------------------------------------------------------------------
(* Taking and releasing the lock *)

\* A CPU enters a function: no other is inside one.
LEMMA LockIInv ==
    ASSUME IInv, NEW c \in CPUs, spin_lock_irqsave(c)
    PROVE  IInv'
<1> DEFINE fn == cpu[c].fn
           irq == cpu[c].irq
           o == WriteOrder(fn, irq)
           pc == FirstPc(fn)
           r == [cpu[c] EXCEPT !.pc = pc, !.outs = o]
<1>1. /\ cpu[c].pc = "lock" /\ i8259A_lock = NoCpu /\ i8259A_lock' = c
      /\ cpu' = [cpu EXCEPT ![c] = r]
      /\ UNCHANGED <<cached_irq_mask, hwVars, coreVars, powerVars>>
    BY DEF spin_lock_irqsave, At
<1>2. /\ ShapeOf(cpu[c]) /\ TypeOK /\ cpu[c] \in CpuRecords /\ fn \in Fns
      /\ \A d \in CPUs : cpu[d].pc \notin Critical
    BY <1>1, Records, CpuAssumption DEF IInv, Shape, Exclusion, CpuRecords
<1>3. /\ fn \in {"enable", "disable"} => pc = "edit" /\ o = <<MaskPort(irq)>>
      /\ fn = "pending" => pc = "inb" /\ o = <<>>
      /\ fn = "mask" => pc = "ff" /\ o = <<"slave", "master">>
      /\ fn = "unmask" => pc = "load" /\ o = <<"slave", "master">>
      /\ fn = "init" => pc = "ff" /\ o = <<"master", "slave">>
      /\ fn = "ack" => pc = "test" /\ o = <<>>
    BY FirstPcs, Orders
<1> HIDE DEF o, pc
<1>4. o \in OutSeqs /\ pc \in Critical /\ pc \in {"edit", "inb", "ff", "load", "test"}
    BY <1>2, <1>3, Ports DEF Fns, OutSeqs, Critical, Pcs, PICs
<1>5. /\ r \in CpuRecords /\ r.pc = pc
      /\ r.fn = fn /\ r.irq = irq /\ r.desc = cpu[c].desc
      /\ r.outs = o /\ r.real = cpu[c].real
      /\ r.genuine = cpu[c].genuine
    BY <1>2, <1>4 DEF CpuRecords, Critical
<1> HIDE DEF r
<1>6. /\ cpu' \in [CPUs -> CpuRecords]
      /\ Others(c) /\ Same(c)
      /\ cpu'[c].pc = pc /\ cpu'[c].outs = o /\ cpu'[c].real = cpu[c].real
    BY <1>1, <1>2, <1>5, Updated DEF Same
<1>7. TypeOK'
    BY <1>1, <1>2, <1>6 DEF TypeOK, CpuRecords, OutSeqs, hwVars, coreVars, powerVars
<1>8. Exclusion'
    BY <1>1, <1>2, <1>4, <1>6 DEF Exclusion, Others
<1>9. Shape'
    <2>1. FnFits(pc, fn) /\ OutsFit(pc, fn, irq, o)
        BY <1>2, <1>3, <1>4 DEF FnFits, OutsFit, Fns, Writers
    <2>2. ShapeOf(cpu'[c])
        BY <1>1, <1>2, <1>4, <1>6, <2>1 DEF ShapeOf, Same
    <2> QED
        BY <1>6, <2>2 DEF IInv, Shape, Others
<1>10. Phases'
    BY <1>1, <1>4, <1>6 DEF IInv, Phases, Others, Same, powerVars
<1>11. Loaded' /\ Written'
    <2>1. LoadedBy(c)'
        BY <1>4, <1>6 DEF LoadedBy
    <2>2. WrittenBy(c)'
        BY <1>6 DEF WrittenBy, Same, o
    <2> QED
        BY <1>1, <1>6, <2>1, <2>2
        DEF IInv, Loaded, LoadedBy, Written, WrittenBy, Others, hwVars
<1>12. Fresh'
    BY <1>1, CpuAssumption DEF IInv, Fresh, hwVars
<1>13. Selected'
    <2>1. power = "boot" => fn = "init"
        BY <1>1 DEF IInv, Phases
    <2>2. ~Asks(c) /\ ~Asks(c)'
        BY <1>1, <1>2, <1>3, <1>4, <1>6 DEF Asks, Same
    <2> QED
        BY <1>1, <1>3, <1>6, <2>1, <2>2, SelectedKept DEF hwVars, powerVars
<1>14. InService'
    BY <1>1, <1>6, InServiceKept DEF hwVars
<1>15. DescExclusive'
    BY <1>6 DEF IInv, DescExclusive, Others, Same
<1>16. EnablesEnabled'
    BY <1>1, <1>6 DEF IInv, EnablesEnabled, Others, Same, coreVars
<1>17. DisableReaches'
    BY <1>1, <1>3, <1>6 DEF IInv, DisableReaches, Others, Same, coreVars
<1>18. TriggerSaved'
    BY <1>1 DEF IInv, TriggerSaved, powerVars
<1> QED
    BY <1>7, <1>8, <1>9, <1>10, <1>11, <1>12, <1>13, <1>14, <1>15, <1>16, <1>17, <1>18
    DEF IInv

\* The record of a CPU outside the driver.
LEMMA IdleRecord ==
    /\ Idle \in CpuRecords /\ ShapeOf(Idle)
    /\ Idle.pc = "idle" /\ Idle.fn = "enable" /\ Idle.desc = NoIrq
    /\ Idle.genuine = FALSE
BY DEF Idle, CpuRecords, Pcs, Fns, OutSeqs, ShapeOf, FnFits, OutsFit

\* A CPU leaves a function, whose writes are done.
LEMMA UnlockIInv ==
    ASSUME IInv, NEW c \in CPUs, spin_unlock_irqrestore(c)
    PROVE  IInv'
<1> DEFINE i == cpu[c].desc
           status == disabled \cup inprogress
           r == [cpu[c] EXCEPT !.pc = "handler", !.desc = NoIrq]
           Leaves == cpu' = [cpu EXCEPT ![c] = Idle] /\ inprogress' = inprogress
           Handles == /\ cpu[c].fn = "ack" /\ i # NoIrq
                      /\ inprogress' = inprogress \cup {i}
                      /\ cpu' = [cpu EXCEPT ![c] = r]
<1>1. /\ cpu[c].pc = "unlock" /\ cpu[c].pc \in Critical /\ i8259A_lock' = NoCpu
      /\ power' = IF power = "boot" THEN "on" ELSE power
      /\ UNCHANGED <<cached_irq_mask, hwVars, disabled, elcr, irq_trigger, suspends,
                     atSuspend>>
    BY DEF spin_unlock_irqrestore, At, Critical, Pcs
<1>2. Leaves \/ Handles
    BY DEF spin_unlock_irqrestore, end_8259A_irq
<1>3. /\ i8259A_lock = c /\ ShapeOf(cpu[c]) /\ TypeOK /\ cpu[c] \in CpuRecords
      /\ \A d \in CPUs \ {c} : cpu[d].pc \notin Critical
    BY <1>1, Alone, Records DEF IInv, Shape
<1>4. /\ r \in CpuRecords /\ r.pc = "handler" /\ r.desc = NoIrq
      /\ r.fn = cpu[c].fn /\ r.irq = cpu[c].irq
      /\ r.outs = cpu[c].outs /\ r.real = cpu[c].real
      /\ r.genuine = cpu[c].genuine
    BY <1>3 DEF CpuRecords, Pcs
<1> HIDE DEF r
<1>5. /\ cpu' \in [CPUs -> CpuRecords]
      /\ Others(c)
      /\ inprogress' \subseteq Irqs
      /\ cpu'[c].desc = NoIrq
      /\ \/ cpu'[c] = Idle
         \/ cpu'[c] = r /\ cpu[c].fn = "ack"
    <2>1. CASE Leaves
        BY <1>3, <2>1, IdleRecord, Updated DEF TypeOK
    <2>2. CASE Handles
        BY <1>3, <1>4, <2>2, Updated DEF TypeOK, CpuRecords
    <2> QED
        BY <1>2, <2>1, <2>2
<1>6. TypeOK'
    BY <1>1, <1>3, <1>5 DEF TypeOK, CpuRecords, OutSeqs, hwVars
<1>7. cpu'[c].pc \in {"idle", "handler"} /\ cpu'[c].fn \in {"enable", "ack"}
    BY <1>4, <1>5, IdleRecord
<1>8. Exclusion'
    BY <1>1, <1>3, <1>5, <1>7, CpuAssumption DEF Exclusion, Others, Critical
<1>9. Shape'
    <2>1. ShapeOf(cpu'[c])
        BY <1>1, <1>3, <1>4, <1>5, IdleRecord DEF ShapeOf, FnFits, OutsFit
    <2> QED
        BY <1>5, <2>1 DEF IInv, Shape, Others
<1>10. Phases'
    <2>1. power # "suspended" /\ power' = "on"
        BY <1>1, <1>3 DEF IInv, Phases, TypeOK
    <2>2. \A d \in CPUs \ {c} : cpu[d].fn # "init"
        <3>1. CASE power = "boot"
            BY <1>1, <3>1, IdleRecord DEF IInv, Phases, Shape, ShapeOf
        <3>2. CASE power # "boot"
            BY <3>2 DEF IInv, Phases
        <3> QED
            BY <3>1, <3>2
    <2> QED
        BY <1>5, <1>7, <2>1, <2>2 DEF Phases, Others
<1>11. Loaded' /\ Written'
    <2>1. LoadedBy(c)' /\ WrittenBy(c)'
        BY <1>7 DEF LoadedBy, WrittenBy
    <2> QED
        BY <1>1, <1>5, <2>1 DEF IInv, Loaded, LoadedBy, Written, WrittenBy, Others, hwVars
<1>12. Fresh'
    <2>1. cpu[c].outs = <<>>
        BY <1>1, <1>3 DEF ShapeOf, OutsFit
    <2>2. Targets(cpu[c].outs) = {}
        BY <2>1, ConcreteWrites
    <2> QED
        BY <1>1, <1>3, <2>2 DEF IInv, Fresh, hwVars
<1>13. Selected'
    <2>1. \A d \in CPUs : Asks(d)' <=> Asks(d)
        BY <1>1, <1>5, <1>7 DEF Asks, Others
    <2>2. \A d \in CPUs : Asks(d) => cpu'[d].irq = cpu[d].irq
        BY <1>1, <1>5 DEF Asks, Others
    <2> QED
        BY <1>1, <2>1, <2>2 DEF IInv, Selected, hwVars
<1>14. InService'
    BY <1>1, <1>4, <1>5, IdleRecord DEF IInv, InService, Others, hwVars
<1>15. DescExclusive'
    BY <1>5 DEF IInv, DescExclusive, Others
<1>16. EnablesEnabled'
    BY <1>1, <1>5, <1>7 DEF IInv, EnablesEnabled, Others
<1>17. DisableReaches'
    BY <1>1, <1>5 DEF IInv, DisableReaches, Others
<1>18. TriggerSaved'
    BY <1>1 DEF IInv, TriggerSaved
<1> QED
    BY <1>6, <1>8, <1>9, <1>10, <1>11, <1>12, <1>13, <1>14, <1>15, <1>16, <1>17, <1>18
    DEF IInv
-----------------------------------------------------------------------------
(* Calls *)

\* Any call of a driver function: by a CPU outside the driver, in the right
\* phase, with the line's descriptor locked where that matters.
LEMMA CallIInv ==
    ASSUME IInv, NEW c \in CPUs, NEW fn \in Fns, NEW irq \in Irqs \cup {NoIrq},
           NEW desc \in {NoIrq, irq}, NEW genuine \in BOOLEAN,
           Call(c, fn, irq, desc, genuine),
           cpu[c].pc \in {"idle", "handler"},
           irq \in Irqs <=> fn \in LineFns,
           fn \in {"enable", "disable"} => desc = irq,
           desc # NoIrq => DescFree(desc),
           fn = "init" => power = "boot" /\ \A d \in CPUs : cpu[d].pc = "idle",
           fn # "init" => power = "on",
           genuine => fn = "ack" /\ irq \in isr',
           fn = "enable" => irq \notin disabled',
           fn = "disable" => disabled' \subseteq disabled \cup {irq},
           fn # "disable" => disabled' \subseteq disabled,
           disabled' \subseteq Irqs, inprogress' \subseteq Irqs,
           isr \subseteq isr', isr' \subseteq Irqs,
           UNCHANGED <<cached_irq_mask, i8259A_lock, imr, readSel, drifted, powerVars>>
    PROVE  IInv'
<1>1. TypeOK /\ desc \in Irqs \cup {NoIrq}
    BY DEF IInv
<1>2. /\ cpu' \in [CPUs -> CpuRecords]
      /\ Others(c)
      /\ cpu'[c].pc = "lock"
      /\ cpu'[c].fn = fn
      /\ cpu'[c].irq = irq
      /\ cpu'[c].desc = desc
      /\ cpu'[c].outs = <<>>
      /\ cpu'[c].real = TRUE
      /\ cpu'[c].genuine = genuine
    <2> DEFINE r == [Idle EXCEPT !.pc = "lock", !.fn = fn, !.irq = irq, !.desc = desc,
                                 !.genuine = genuine]
    <2>1. /\ r.pc = "lock" /\ r.fn = fn /\ r.irq = irq /\ r.desc = desc
          /\ r.outs = <<>> /\ r.real = TRUE /\ r.genuine = genuine
        BY DEF Idle
    <2>2. r \in CpuRecords
        BY <1>1 DEF CpuRecords, Pcs, OutSeqs, Idle, Fns
    <2>3. cpu' = [cpu EXCEPT ![c] = r]
        BY DEF Call
    <2> HIDE DEF r
    <2>4. cpu' \in [CPUs -> CpuRecords] /\ cpu'[c] = r /\ Others(c)
        BY <1>1, <2>2, <2>3, Updated
    <2> QED
        BY <2>1, <2>4
<1>3. TypeOK'
    BY <1>1, <1>2 DEF TypeOK, CpuRecords, OutSeqs, powerVars
<1>4. Exclusion'
    BY <1>2 DEF IInv, Exclusion, Others, Critical
<1>5. Shape'
    <2>1. ShapeOf(cpu'[c])
        BY <1>2 DEF ShapeOf, FnFits, OutsFit
    <2> QED
        BY <1>2, <2>1 DEF IInv, Shape, Others
<1>6. Phases'
    BY <1>2 DEF IInv, Phases, Others, powerVars
<1>7. Loaded' /\ Written'
    <2>1. LoadedBy(c)' /\ WrittenBy(c)'
        BY <1>2 DEF LoadedBy, WrittenBy
    <2> QED
        BY <1>2, <2>1 DEF IInv, Loaded, LoadedBy, Written, WrittenBy, Others
<1>8. Fresh'
    <2>1. i8259A_lock # c
        BY DEF IInv, Exclusion, Critical
    <2> QED
        BY <1>2, <2>1 DEF IInv, Fresh, Others
<1>9. Selected'
    <2>1. \A d \in CPUs : Asks(d)' <=> Asks(d)
        BY <1>2 DEF Asks, Others
    <2>2. \A d \in CPUs : Asks(d) => cpu'[d].irq = cpu[d].irq
        BY <1>2 DEF Asks, Others
    <2>3. \A d \in CPUs : cpu'[d].pc \in {"load", "out", "unlock"} =>
                          cpu[d].pc \in {"load", "out", "unlock"}
        BY <1>2 DEF Others
    <2> QED
        BY <2>1, <2>2, <2>3 DEF IInv, Selected, powerVars
<1>10. InService'
    BY <1>2 DEF IInv, InService, Others
<1>11. DescExclusive'
    BY <1>2 DEF IInv, DescExclusive, DescFree, Others
<1>12. EnablesEnabled'
    <2>1. ASSUME NEW d \in CPUs \ {c}, cpu[d].fn = "enable",
                 cpu[d].pc \in {"lock", "edit"}
          PROVE  cpu[d].irq \notin disabled'
        <3>1. cpu[d].irq \notin disabled
            BY <2>1 DEF IInv, EnablesEnabled
        <3>2. fn = "disable" => cpu[d].irq # irq
            BY <2>1, NoIrqNoLine DEF IInv, Shape, ShapeOf, DescFree, LineFns
        <3> QED
            BY <3>1, <3>2
    <2> QED
        BY <1>2, <2>1 DEF EnablesEnabled, Others
<1>13. DisableReaches'
    <2>1. ASSUME NEW j \in Lines, j \in disabled'
          PROVE  \/ j \in cached_irq_mask
                 \/ \E d \in CPUs : /\ cpu'[d].fn = "disable"
                                    /\ cpu'[d].pc \in {"lock", "edit"}
                                    /\ cpu'[d].desc = j
        <3>1. CASE j \in disabled
            BY <1>2, <2>1, <3>1 DEF IInv, DisableReaches, Others
        <3>2. CASE j \notin disabled
            BY <1>2, <2>1, <3>2
        <3> QED
            BY <3>1, <3>2
    <2> QED
        BY <2>1 DEF DisableReaches
<1>14. TriggerSaved'
    BY DEF IInv, TriggerSaved, powerVars
<1> QED
    BY <1>3, <1>4, <1>5, <1>6, <1>7, <1>8, <1>9, <1>10, <1>11, <1>12, <1>13, <1>14
    DEF IInv

\* The CPU in the handler is done with a line that stays masked.
LEMMA HandlerLeavesIInv ==
    ASSUME IInv, NEW c \in CPUs, cpu[c].pc = "handler", cpu' = [cpu EXCEPT ![c] = Idle],
           inprogress' \subseteq Irqs,
           UNCHANGED <<cached_irq_mask, i8259A_lock, hwVars, disabled, powerVars>>
    PROVE  IInv'
<1>1. /\ TypeOK /\ cpu' \in [CPUs -> CpuRecords] /\ Others(c) /\ cpu'[c] = Idle
      /\ cpu'[c].pc = "idle" /\ cpu'[c].fn = "enable" /\ cpu'[c].desc = NoIrq
      /\ ~cpu'[c].genuine
    BY IdleRecord, Updated DEF IInv
<1>2. TypeOK'
    BY <1>1 DEF TypeOK, CpuRecords, OutSeqs, hwVars, powerVars
<1>3. Exclusion'
    BY <1>1 DEF IInv, Exclusion, Others, Critical
<1>4. Shape'
    BY <1>1, IdleRecord DEF IInv, Shape, Others
<1>5. Phases'
    BY <1>1 DEF IInv, Phases, Others, powerVars
<1>6. Loaded' /\ Written'
    <2>1. LoadedBy(c)' /\ WrittenBy(c)'
        BY <1>1 DEF LoadedBy, WrittenBy
    <2> QED
        BY <1>1, <2>1 DEF IInv, Loaded, LoadedBy, Written, WrittenBy, Others, hwVars
<1>7. Fresh'
    <2>1. i8259A_lock # c
        BY DEF IInv, Exclusion, Critical
    <2> QED
        BY <1>1, <2>1 DEF IInv, Fresh, Others, hwVars
<1>8. Selected'
    <2>1. \A d \in CPUs : Asks(d)' <=> Asks(d)
        BY <1>1 DEF Asks, Others
    <2>2. \A d \in CPUs : Asks(d) => cpu'[d].irq = cpu[d].irq
        BY <1>1 DEF Asks, Others
    <2>3. \A d \in CPUs : cpu'[d].pc \in {"load", "out", "unlock"} =>
                          cpu[d].pc \in {"load", "out", "unlock"}
        BY <1>1 DEF Others
    <2> QED
        BY <2>1, <2>2, <2>3 DEF IInv, Selected, powerVars, hwVars
<1>9. InService'
    BY <1>1 DEF IInv, InService, Others, hwVars
<1>10. DescExclusive' /\ EnablesEnabled' /\ DisableReaches'
    BY <1>1 DEF IInv, DescExclusive, EnablesEnabled, DisableReaches, Others
<1>11. TriggerSaved'
    BY DEF IInv, TriggerSaved, powerVars
<1> QED
    BY <1>2, <1>3, <1>4, <1>5, <1>6, <1>7, <1>8, <1>9, <1>10, <1>11 DEF IInv

\* The handler of an interrupt has ended.
LEMMA HandlerDoneIInv ==
    ASSUME IInv, NEW c \in CPUs, HandlerDone(c)
    PROVE  IInv'
<1> DEFINE i == cpu[c].irq
<1>1. /\ cpu[c].pc = "handler" /\ DescFree(i)
      /\ inprogress' = inprogress \ {i}
      /\ UNCHANGED <<cached_irq_mask, i8259A_lock, hwVars, disabled, powerVars>>
    BY DEF HandlerDone, At
<1>2. /\ TypeOK /\ i \in Irqs /\ i # NoIrq /\ power = "on"
    BY <1>1, NoIrqNoLine DEF IInv, Shape, ShapeOf, FnFits, LineFns, Phases, TypeOK
<1>3. inprogress' \subseteq Irqs
    BY <1>1, <1>2 DEF TypeOK
<1>4. CASE i \notin disabled /\ Call(c, "enable", i, i, FALSE)
    BY <1>1, <1>2, <1>3, <1>4, CallIInv
    DEF Fns, LineFns, hwVars, TypeOK
<1>5. CASE cpu' = [cpu EXCEPT ![c] = Idle]
    BY <1>1, <1>3, <1>5, HandlerLeavesIInv
<1> QED
    BY <1>4, <1>5 DEF HandlerDone, end_8259A_irq

\* A function about one line is called, with its descriptor locked.
LEMMA LineCallIInv ==
    ASSUME IInv, NEW c \in CPUs, NEW i \in Irqs,
           \/ EnableIrq(c, i) \/ DisableIrq(c, i)
           \/ Interrupt(c, i) \/ SpuriousInterrupt(c, i)
           \/ IrqPending(c, i) \/ BogusIrq(c, i)
    PROVE  IInv'
<1>1. /\ TypeOK /\ i # NoIrq /\ disabled \subseteq Irqs
      /\ inprogress \subseteq Irqs /\ isr \subseteq Irqs
    BY NoIrqNoLine DEF IInv, TypeOK
<1> USE DEF Ready, At, Fns, LineFns, hwVars, coreVars
<1>2. CASE EnableIrq(c, i)
    <2>1. Call(c, "enable", i, i, FALSE) /\ DescFree(i) /\ disabled' = disabled \ {i}
        BY <1>2 DEF EnableIrq
    <2> QED
        BY <1>1, <1>2, <2>1, CallIInv DEF EnableIrq
<1>3. CASE DisableIrq(c, i)
    <2>1. Call(c, "disable", i, i, FALSE) /\ DescFree(i) /\ disabled' = disabled \cup {i}
        BY <1>3 DEF DisableIrq
    <2> QED
        BY <1>1, <1>3, <2>1, CallIInv DEF DisableIrq
<1>4. CASE Interrupt(c, i)
    <2>1. Call(c, "ack", i, i, TRUE) /\ DescFree(i) /\ isr' = isr \cup {i}
        BY <1>4 DEF Interrupt
    <2> QED
        BY <1>1, <1>4, <2>1, CallIInv DEF Interrupt
<1>5. CASE SpuriousInterrupt(c, i)
    <2>1. Call(c, "ack", i, i, FALSE) /\ DescFree(i)
        BY <1>5 DEF SpuriousInterrupt
    <2> QED
        BY <1>1, <1>5, <2>1, CallIInv DEF SpuriousInterrupt
<1>6. CASE IrqPending(c, i)
    <2>1. Call(c, "pending", i, NoIrq, FALSE)
        BY <1>6 DEF IrqPending, CallPlain
    <2> QED
        BY <1>1, <1>6, <2>1, CallIInv DEF IrqPending, CallPlain
<1>7. CASE BogusIrq(c, i)
    <2>1. Call(c, "ack", i, NoIrq, FALSE)
        BY <1>7 DEF BogusIrq, CallPlain
    <2> QED
        BY <1>1, <1>7, <2>1, CallIInv DEF BogusIrq, CallPlain
<1> QED
    BY <1>2, <1>3, <1>4, <1>5, <1>6, <1>7

\* A function about all lines is called.
LEMMA WholeCallIInv ==
    ASSUME IInv, NEW c \in CPUs, init_IRQ(c) \/ MaskAll(c) \/ UnmaskAll(c)
    PROVE  IInv'
<1>1. /\ TypeOK /\ NoIrq \notin Irqs /\ disabled \subseteq Irqs
      /\ inprogress \subseteq Irqs /\ isr \subseteq Irqs
    BY NoIrqNoLine DEF IInv, TypeOK
<1> USE DEF Ready, At, Fns, LineFns, hwVars, coreVars
<1>2. CASE init_IRQ(c)
    <2>1. Call(c, "init", NoIrq, NoIrq, FALSE)
        BY <1>2 DEF init_IRQ
    <2> QED
        BY <1>1, <1>2, <2>1, CallIInv DEF init_IRQ
<1>3. CASE MaskAll(c)
    <2>1. Call(c, "mask", NoIrq, NoIrq, FALSE)
        BY <1>3 DEF MaskAll, CallPlain
    <2> QED
        BY <1>1, <1>3, <2>1, CallIInv DEF MaskAll, CallPlain
<1>4. CASE UnmaskAll(c)
    <2>1. Call(c, "unmask", NoIrq, NoIrq, FALSE)
        BY <1>4 DEF UnmaskAll, CallPlain
    <2> QED
        BY <1>1, <1>4, <2>1, CallIInv DEF UnmaskAll, CallPlain
<1> QED
    BY <1>2, <1>3, <1>4

-----------------------------------------------------------------------------
(* Suspending and resuming *)

\* The machine is suspended, loses its power and resumes.
LEMMA PowerIInv ==
    ASSUME IInv, i8259A_suspend \/ PowerCycle \/ i8259A_resume
    PROVE  IInv'
<1>1. /\ power # "boot" /\ power' # "boot" /\ TypeOK
      /\ UNCHANGED <<cached_irq_mask, i8259A_lock, cpu, readSel, disabled, inprogress>>
    BY DEF i8259A_suspend, PowerCycle, i8259A_resume, hwVars, coreVars, IInv
<1>2. \A c \in CPUs : cpu[c].pc = "idle" /\ cpu[c] = Idle
    BY DEF IInv, Phases, Shape, ShapeOf, i8259A_suspend, PowerCycle, i8259A_resume, At
<1>3. TypeOK'
    <2>1. CASE i8259A_suspend
        BY <1>1, <2>1, SuspendAssumption DEF TypeOK, i8259A_suspend, hwVars, coreVars
    <2>2. CASE PowerCycle
        BY <1>1, <2>2 DEF TypeOK, PowerCycle
    <2>3. CASE i8259A_resume
        BY <1>1, <2>3 DEF TypeOK, i8259A_resume, hwVars, coreVars
    <2> QED
        BY <2>1, <2>2, <2>3
<1>4. Exclusion' /\ Shape' /\ DescExclusive' /\ EnablesEnabled' /\ DisableReaches'
    BY <1>1 DEF IInv, Exclusion, Shape, DescExclusive, EnablesEnabled, DisableReaches
<1>5. Phases'
    BY <1>1, <1>2, IdleRecord DEF Phases
<1>6. Loaded' /\ Written'
    BY <1>1, <1>2 DEF Loaded, LoadedBy, Written, WrittenBy
<1>7. Fresh'
    <2>1. CASE PowerCycle
        BY <2>1 DEF PowerCycle, Fresh
    <2>2. CASE i8259A_suspend \/ i8259A_resume
        BY <2>2 DEF IInv, Fresh, i8259A_suspend, i8259A_resume, hwVars
    <2> QED
        BY <2>1, <2>2
<1>8. Selected'
    BY <1>1 DEF IInv, Selected, Asks
<1>9. InService'
    BY <1>1, <1>2, IdleRecord DEF InService
<1>10. TriggerSaved'
    BY DEF IInv, TriggerSaved, i8259A_suspend, PowerCycle, i8259A_resume
<1> QED
    BY <1>3, <1>4, <1>5, <1>6, <1>7, <1>8, <1>9, <1>10 DEF IInv
-----------------------------------------------------------------------------
(* The invariant, and what follows *)

\* The invariant holds at reset.
LEMMA InitIInv == Init => IInv
<1> SUFFICES ASSUME Init PROVE IInv
    OBVIOUS
<1>1. \A c \in CPUs : cpu[c] = Idle
    BY DEF Init
<1>2. TypeOK
    BY IdleRecord, SuspendAssumption DEF Init, TypeOK, CpuRecords, OutSeqs
<1>3. Exclusion /\ Shape /\ Phases
    BY <1>1, IdleRecord, CpuAssumption DEF Init, Exclusion, Shape, Phases, Critical
<1>4. Loaded /\ Written /\ InService
    BY <1>1, IdleRecord DEF Loaded, LoadedBy, Written, WrittenBy, InService
<1>5. Fresh /\ TriggerSaved /\ DisableReaches
    BY DEF Init, Fresh, TriggerSaved, DisableReaches, Lines
<1>6. Selected /\ DescExclusive /\ EnablesEnabled
    BY <1>1, IdleRecord DEF Init, Selected, DescExclusive, EnablesEnabled
<1> QED
    BY <1>2, <1>3, <1>4, <1>5, <1>6 DEF IInv

\* Every step keeps the invariant.
LEMMA NextIInv == IInv /\ [Next]_vars => IInv'
<1> SUFFICES ASSUME IInv, [Next]_vars PROVE IInv'
    OBVIOUS
<1>1. ASSUME NEW c \in CPUs, Step(c) PROVE IInv'
    BY <1>1, LockIInv, EditCacheIInv, LoadByteIInv, OutByteIInv, OutFFIInv, OutIcwIInv,
       InbIInv, TestMaskedIInv, SelectIsrIInv, SelectIrrIInv, AckMaskIInv, UnlockIInv,
       HandlerDoneIInv
    DEF Step
<1>2. ASSUME NEW c \in CPUs, init_IRQ(c) \/ MaskAll(c) \/ UnmaskAll(c) PROVE IInv'
    BY <1>2, WholeCallIInv
<1>3. ASSUME NEW c \in CPUs, NEW i \in Lines,
             \/ EnableIrq(c, i) \/ DisableIrq(c, i)
             \/ Interrupt(c, i) \/ SpuriousInterrupt(c, i)
      PROVE  IInv'
    BY <1>3, LineCallIInv DEF Lines
<1>4. ASSUME NEW c \in CPUs, NEW i \in Irqs, IrqPending(c, i) \/ BogusIrq(c, i)
      PROVE  IInv'
    BY <1>4, LineCallIInv
<1>5. CASE i8259A_suspend \/ PowerCycle \/ i8259A_resume
    BY <1>5, PowerIInv
<1>6. CASE UNCHANGED vars
    <2>1. TypeOK' /\ Exclusion' /\ Shape' /\ Phases' /\ Loaded' /\ Written'
        BY <1>6 DEF IInv, TypeOK, Exclusion, Shape, Phases, Loaded, LoadedBy, Written,
                    WrittenBy, vars, hwVars, coreVars, powerVars
    <2>2. Fresh' /\ Selected' /\ InService' /\ DescExclusive' /\ EnablesEnabled'
        BY <1>6 DEF IInv, Fresh, Selected, Asks, InService, DescExclusive,
                    EnablesEnabled, vars, hwVars, coreVars, powerVars
    <2>3. DisableReaches' /\ TriggerSaved'
        BY <1>6 DEF IInv, DisableReaches, TriggerSaved, vars, hwVars, coreVars, powerVars
    <2> QED
        BY <2>1, <2>2, <2>3 DEF IInv
<1> QED
    BY <1>1, <1>2, <1>3, <1>4, <1>5, <1>6 DEF Next

\* The driver's invariant holds, whatever the CPUs do and in whatever order.
THEOREM Invariant == Spec => []IInv
<1> QED
    BY InitIInv, NextIInv, PTL DEF Spec

\* The state keeps its type.
THEOREM TypeCorrect == Spec => []TypeOK
<1>1. IInv => TypeOK
    BY DEF IInv
<1> QED
    BY <1>1, Invariant, PTL

\* A line enabled in the cache is not left masked at its controller by a write
\* of another CPU (enable_8259A_irq, _disable_8259A_irq, unmask_8259A).
THEOREM EnabledReaches == Spec => []EnabledReachesHardware
<1>1. IInv => EnabledReachesHardware
    BY CpuAssumption DEF IInv, Fresh, EnabledReachesHardware
<1> QED
    BY <1>1, Invariant, PTL

\* i8259A_irq_pending reads the request register and i8259A_irq_real the
\* in-service register, although they share one port and its selection.
THEOREM ReadsRight == Spec => []RightRegister
<1>1. IInv => RightRegister
    <2> SUFFICES ASSUME IInv, NEW c \in CPUs, cpu[c].pc = "inb"
                 PROVE  readSel[CommandPort(cpu[c].irq)] =
                            IF cpu[c].fn = "pending" THEN "irr" ELSE "isr"
        BY DEF RightRegister, At
    <2>1. cpu[c].fn \in {"pending", "ack"} /\ cpu[c].pc \in Critical
        BY DEF IInv, Shape, ShapeOf, FnFits, Critical, Pcs
    <2>2. power # "boot"
        BY <2>1 DEF IInv, Phases
    <2>3. \A d \in CPUs : Asks(d) <=> d = c /\ cpu[c].fn = "ack"
        BY <2>1, Alone DEF Asks, Critical, Pcs
    <2>4. readSel[CommandPort(cpu[c].irq)] \in {"irr", "isr"}
        BY Ports DEF IInv, TypeOK
    <2> QED
        BY <2>1, <2>2, <2>3, <2>4, Ports DEF IInv, Selected
<1> QED
    BY <1>1, Invariant, PTL

\* An interrupt that a controller raised is never found spurious by
\* _mask_and_ack_8259A_irq.
THEOREM GenuineKept == Spec => []GenuineIsReal
<1>1. IInv => GenuineIsReal
    BY DEF IInv, InService, GenuineIsReal
<1> QED
    BY <1>1, Invariant, PTL

\* A disabled line stays masked, whoever ends an interrupt of it when
\* (disable_8259A_irq against end_8259A_irq).
THEOREM DisabledMasked == Spec => []DisabledStaysMasked
<1>1. IInv => DisabledStaysMasked
    BY DEF IInv, DisableReaches, DisabledStaysMasked, DescFree
<1> QED
    BY <1>1, Invariant, PTL

\* The writing functions return with the controllers as the cache says.
THEOREM WritesCorrect == Spec => WritesMatchCache
<1>1. ASSUME IInv, NEW c \in CPUs, cpu[c].pc = "unlock", cpu[c].fn \in Writers,
             NEW k \in DOMAIN WriteOrder(cpu[c].fn, cpu[c].irq)
      PROVE  Byte(WriteOrder(cpu[c].fn, cpu[c].irq)[k], imr)
               = Byte(WriteOrder(cpu[c].fn, cpu[c].irq)[k], cached_irq_mask)
    <2>1. cpu[c].outs = <<>> /\ WrittenBy(c)
        BY <1>1 DEF IInv, Shape, ShapeOf, OutsFit, Written
    <2>2. Targets(cpu[c].outs) = {}
        BY <2>1, ConcreteWrites
    <2>3. WriteOrder(cpu[c].fn, cpu[c].irq)[k]
            \in Targets(WriteOrder(cpu[c].fn, cpu[c].irq))
        BY DEF Targets
    <2> QED
        BY <1>1, <2>1, <2>2, <2>3 DEF WrittenBy
<1> DEFINE Write ==
        \A c \in CPUs :
          At(c, "unlock") /\ ~ At(c, "unlock")'
              => LET fn == cpu[c].fn
                     order == WriteOrder(fn, cpu[c].irq)
                 IN  fn \in {"enable", "disable", "unmask", "init"} =>
                        \A k \in DOMAIN order :
                            Byte(order[k], imr) = Byte(order[k], cached_irq_mask)
<1>2. IInv /\ [Next]_vars => [Write]_vars
    BY <1>1 DEF At, Writers
<1> QED
    BY <1>2, Invariant, PTL DEF Spec, WritesMatchCache

\* i8259A_resume restores what i8259A_suspend saved, however often the machine
\* slept and whatever firmware did meanwhile.
THEOREM TriggerRestored == Spec => ResumeRestoresTrigger
<1> DEFINE Restore ==
        power = "suspended" /\ power' = "on"
            => elcr' = {i \in atSuspend : i \notin {0, 1, 2, 8, 13}}
<1>1. IInv /\ [Next]_vars => [Restore]_vars
    <2> SUFFICES ASSUME IInv, Next, power = "suspended", power' = "on"
                 PROVE  elcr' = {i \in atSuspend : i \notin {0, 1, 2, 8, 13}}
        OBVIOUS
    <2>1. \A c \in CPUs : cpu[c].pc = "idle"
        BY DEF IInv, Phases
    <2>2. i8259A_resume
        BY <2>1 DEF Next, Step, spin_lock_irqsave, EditCache, LoadByte, OutByte, OutFF,
            OutIcw, Inb, TestMasked, SelectIsr, SelectIrr, AckMask,
            spin_unlock_irqrestore, HandlerDone, init_IRQ, MaskAll, UnmaskAll,
            EnableIrq, DisableIrq, Interrupt, SpuriousInterrupt, IrqPending, BogusIrq,
            CallPlain, Ready, At, i8259A_suspend, PowerCycle
    <2> QED
        BY <2>2 DEF i8259A_resume, IInv, TriggerSaved, Reserved
<1> QED
    BY <1>1, Invariant, PTL DEF Spec, ResumeRestoresTrigger
=============================================================================
