--------------------------- MODULE VmEventProofs ---------------------------
(***************************************************************************)
(* Proofs about VmEvent, for any number of vCPUs, registers, events under  *)
(* way and answers with any flags, and for memory of any contents from     *)
(* malloc; and about SegmentRegister, for any limits of 32 bits.           *)
(***************************************************************************)
EXTENDS VmEvent, SegmentRegister, FiniteSetTheorems, TLAPS

-----------------------------------------------------------------------------
(* The inductive invariant *)

\* Events are enabled only while every vCPU has its arch_vm_event; a vCPU
\* leaves the guest, and an answer is taken, only while they are.
Domain ==
    /\ enabled => present = Vcpus
    /\ \A v \in Vcpus : pc[v] # "guest" => enabled
    /\ rsp # NoRsp => enabled
    /\ domctl # NoDomctl => domctl.at \in Vcpus
    /\ domctl.op = "init" => \A v \in Vcpus : v < domctl.at => v \in present
    /\ domctl.op = "cleanup" => ~enabled

\* A vCPU is paused once for every event without an answer.
Paused ==
    \A v \in Vcpus :
        /\ IsFiniteSet(open[v])
        /\ pause_count[v] = Cardinality(open[v])
        /\ open[v] \subseteq asked[v]
        /\ pc[v] = "guest" => asked[v] = {}

\* Functions are called for an answer; the event stays open until they have
\* been.
Answered ==
    /\ todo # {} => rsp # NoRsp
    /\ rsp # NoRsp =>
        /\ rsp.v \in Vcpus /\ rsp.event \in Events
        /\ ~rsp.late => rsp.event \in open[rsp.v]

\* WritesAsAnswered for all vCPUs, also those in the guest.
Writes ==
    \A v \in Vcpus :
        /\ denied[v] \subseteq asked[v]
        /\ vm_event[v].do_write = ((asked[v] \cap Regs) \ denied[v]) \cup leftover[v]

\* EmulDataKept for one vCPU.
Kept(c, kind) ==
    kind # "none" =>
        /\ c.emul = kind
        /\ (IF kind = "read" THEN "SET_EMUL_READ_DATA" ELSE "SET_EMUL_INSN_DATA")
                \in c.emulate_flags

Emulation == \A v \in Vcpus : Kept(vm_event[v], supplied[v])

IInv ==
    /\ TypeOK /\ Domain /\ NoLeak /\ Paused /\ Answered /\ Writes /\ Emulation

Kinds == {"none", "read", "insn"}
DomctlStates == [op : {"none", "init", "cleanup"}, at : 0..N]

LEMMA InitIInv == Init => IInv
<1> SUFFICES ASSUME Init PROVE IInv
    OBVIOUS
<1>1. Zeroed \in Contents
    BY DEF Zeroed, Contents
<1>2. TypeOK
    <2>1. domctl \in DomctlStates
        BY NAssumption DEF Init, NoDomctl, DomctlStates
    <2>2. rsp \in [v : 0..N, event : Events \cup {"none"}, flags : SUBSET Flags,
                   late : BOOLEAN]
        BY NAssumption DEF Init, NoRsp
    <2>3. enabled \in BOOLEAN /\ live \in Nat
        BY DEF Init
    <2>4. present \in SUBSET Vcpus /\ todo \in SUBSET Calls
        BY DEF Init
    <2>5. vm_event \in [Vcpus -> Contents]
        BY <1>1 DEF Init
    <2>6. /\ pc \in [Vcpus -> {"guest", "exit", "stopped"}]
          /\ pause_count \in [Vcpus -> Nat]
        BY DEF Init
    <2>7. /\ asked \in [Vcpus -> SUBSET Events]
          /\ open \in [Vcpus -> SUBSET Events]
        BY DEF Init
    <2>8. /\ denied \in [Vcpus -> SUBSET Regs]
          /\ leftover \in [Vcpus -> SUBSET Regs]
          /\ supplied \in [Vcpus -> Kinds]
        BY DEF Init, Kinds
    <2> QED
        BY <2>1, <2>2, <2>3, <2>4, <2>5, <2>6, <2>7, <2>8 DEF TypeOK, Kinds, DomctlStates
<1>3. Domain
    BY DEF Init, Domain, NoDomctl
<1>4. NoLeak /\ Paused
    BY FS_EmptySet DEF Init, NoLeak, Paused
<1>5. Answered
    BY DEF Init, Answered
<1>6. Writes /\ Emulation
    BY DEF Init, Writes, Emulation, Kept, Zeroed
<1> QED
    BY <1>2, <1>3, <1>4, <1>5, <1>6 DEF IInv

-----------------------------------------------------------------------------
(* The domctls *)

\* The set of vCPUs with an arch_vm_event is finite.
LEMMA PresentFinite == TypeOK => IsFiniteSet(present)
<1>1. IsFiniteSet(1..N)
    BY FS_Interval, NAssumption
<1> QED
    BY <1>1, FS_Subset DEF TypeOK, Vcpus

\* The loops go from one vCPU to the next.
LEMMA LoopAdvances ==
    ASSUME IInv, NEW op \in {"init", "cleanup"}, NEW w \in Vcpus, Turn(op, w)
    PROVE  /\ domctl' \in DomctlStates
           /\ domctl' # NoDomctl => domctl'.at \in Vcpus
           /\ w # N => domctl'.op = op /\ domctl'.at = w + 1
           /\ w = N => domctl'.op = "none"
           /\ w # 1 => domctl.op = op /\ domctl.at = w
<1>1. domctl' = IF w = N THEN NoDomctl ELSE [op |-> op, at |-> w + 1]
    BY DEF Turn
<1>2. w # 1 => domctl = [op |-> op, at |-> w]
    BY DEF Turn, AtTurn
<1>3. w # N => w + 1 \in Vcpus /\ w + 1 \in 0..N
    BY NAssumption DEF Vcpus
<1> QED
    BY <1>1, <1>2, <1>3, NAssumption DEF NoDomctl, DomctlStates

\* New contents for a vCPU in the guest: what is there to be written is what
\* malloc left there.
LEMMA RenewedFits ==
    ASSUME IInv, NEW w \in Vcpus, pc[w] = "guest", NEW c \in Contents,
           vm_event' = [vm_event EXCEPT ![w] = c],
           leftover' = [leftover EXCEPT ![w] = c.do_write],
           supplied' = [supplied EXCEPT ![w] = "none"],
           UNCHANGED <<vcpuVars, denied>>
    PROVE  /\ Writes' /\ Emulation' /\ Paused'
           /\ vm_event' \in [Vcpus -> Contents]
           /\ leftover' \in [Vcpus -> SUBSET Regs]
           /\ supplied' \in [Vcpus -> Kinds]
<1>1. asked[w] = {} /\ denied[w] = {}
    BY DEF IInv, Paused, Writes
<1>2. /\ vm_event'[w] = c /\ leftover'[w] = c.do_write /\ supplied'[w] = "none"
      /\ \A v \in Vcpus : v # w =>
            /\ vm_event'[v] = vm_event[v]
            /\ leftover'[v] = leftover[v]
            /\ supplied'[v] = supplied[v]
    BY DEF IInv, TypeOK
<1>3. c.do_write \in SUBSET Regs
    BY DEF Contents
<1>4. Writes'
    BY <1>1, <1>2 DEF IInv, Writes, vcpuVars
<1>5. Emulation'
    BY <1>2 DEF IInv, Emulation, Kept
<1>6. Paused'
    BY DEF IInv, Paused, vcpuVars
<1> QED
    BY <1>3, <1>4, <1>5, <1>6 DEF IInv, TypeOK, Kinds

\* A turn of the loop over the vCPUs in vm_event_init_domain.
LEMMA InitLoop ==
    ASSUME IInv, NEW w \in Vcpus, InitVcpu(w)
    PROVE  IInv'
<1>1. /\ enabled' = (enabled \/ w = N)
      /\ UNCHANGED <<vcpuVars, denied, rspVars>>
      /\ Turn("init", w)
    BY DEF InitVcpu
<1>2. /\ domctl' \in DomctlStates
      /\ domctl' # NoDomctl => domctl'.at \in Vcpus
      /\ w # N => domctl'.op = "init" /\ domctl'.at = w + 1
      /\ w = N => domctl'.op = "none"
      /\ w # 1 => domctl.op = "init" /\ domctl.at = w
    BY <1>1, LoopAdvances
<1>3. \A v \in Vcpus : v < w => v \in present
    BY <1>2 DEF IInv, Domain, Vcpus
<1>4. w \in present' /\ present \subseteq present' /\ present' \in SUBSET Vcpus
    BY DEF InitVcpu, InitSkip, IInv, TypeOK
<1>5. \A v \in Vcpus : v < w + 1 => v \in present'
    BY <1>3, <1>4 DEF Vcpus
<1>6. Domain'
    <2>1. enabled' => present' = Vcpus
        <3>1. CASE enabled
            BY <1>4, <3>1 DEF IInv, Domain
        <3>2. CASE w = N
            <4>1. \A v \in Vcpus : v < w + 1
                BY <3>2, NAssumption DEF Vcpus
            <4> QED
                BY <1>4, <1>5, <4>1
        <3> QED
            BY <1>1, <3>1, <3>2
    <2>2. \A v \in Vcpus : pc'[v] # "guest" => enabled'
        BY <1>1 DEF IInv, Domain, vcpuVars
    <2>3. rsp' # NoRsp => enabled'
        BY <1>1 DEF IInv, Domain, rspVars
    <2>4. domctl'.op = "init" => \A v \in Vcpus : v < domctl'.at => v \in present'
        BY <1>2, <1>5
    <2> QED
        BY <1>2, <2>1, <2>2, <2>3, <2>4 DEF Domain
<1>7. Answered'
    BY <1>1 DEF IInv, Answered, vcpuVars, rspVars
<1>8. CASE InitSkip(w)
    <2>1. UNCHANGED <<present, live, vm_event, leftover, supplied>>
        BY <1>8 DEF InitVcpu
    <2>2. TypeOK'
        BY <1>1, <1>2, <2>1 DEF IInv, TypeOK, vcpuVars, rspVars, DomctlStates
    <2>3. NoLeak' /\ Paused' /\ Writes' /\ Emulation'
        BY <1>1, <2>1 DEF IInv, NoLeak, Paused, Writes, Emulation, vcpuVars
    <2> QED
        BY <1>6, <1>7, <2>2, <2>3 DEF IInv
<1>9. CASE ~InitSkip(w)
    <2>1. /\ present' = present \cup {w} /\ live' = live + 1 /\ w \notin present
          /\ supplied' = [supplied EXCEPT ![w] = "none"]
        BY <1>9 DEF InitVcpu, InitSkip
    <2>2. PICK c \in Fresh : /\ vm_event' = [vm_event EXCEPT ![w] = c]
                             /\ leftover' = [leftover EXCEPT ![w] = c.do_write]
        BY <1>9 DEF InitVcpu
    <2>3. c \in Contents
        BY FreshAssumption
    <2>4. ~enabled /\ pc[w] = "guest"
        BY <2>1 DEF IInv, Domain
    <2>5. /\ Writes' /\ Emulation' /\ Paused'
          /\ vm_event' \in [Vcpus -> Contents]
          /\ leftover' \in [Vcpus -> SUBSET Regs]
          /\ supplied' \in [Vcpus -> Kinds]
        BY <1>1, <2>1, <2>2, <2>3, <2>4, RenewedFits
    <2>6. live' \in Nat /\ enabled' \in BOOLEAN
        BY <1>1, <2>1 DEF IInv, TypeOK
    <2>7. TypeOK'
        BY <1>1, <1>2, <1>4, <2>5, <2>6
            DEF IInv, TypeOK, vcpuVars, rspVars, DomctlStates, Kinds
    <2>8. NoLeak'
        BY <2>1, PresentFinite, FS_AddElement DEF IInv, NoLeak
    <2> QED
        BY <1>6, <1>7, <2>5, <2>7, <2>8 DEF IInv
<1> QED
    BY <1>8, <1>9

\* A failed allocation touches neither a structure nor a vCPU.
LEMMA InitFailsKeeps ==
    ASSUME IInv, NEW w \in Vcpus, InitFails(w)
    PROVE  IInv'
<1>1. /\ domctl' = NoDomctl
      /\ UNCHANGED <<present, live, enabled, vm_event, vcpuVars, history, rspVars>>
    BY DEF InitFails
<1>2. domctl' \in DomctlStates /\ domctl'.op = "none"
    BY <1>1, NAssumption DEF NoDomctl, DomctlStates
<1>3. TypeOK'
    BY <1>1, <1>2 DEF IInv, TypeOK, vcpuVars, rspVars, history, DomctlStates
<1>4. Domain'
    BY <1>1, <1>2 DEF IInv, Domain, vcpuVars, rspVars
<1>5. NoLeak' /\ Paused' /\ Answered' /\ Writes' /\ Emulation'
    BY <1>1 DEF IInv, NoLeak, Paused, Answered, Writes, Emulation, vcpuVars, rspVars, history
<1> QED
    BY <1>3, <1>4, <1>5 DEF IInv

\* A turn of the loop in vm_event_cleanup_domain.
LEMMA CleanupLoop ==
    ASSUME IInv, NEW w \in Vcpus, CleanupVcpu(w)
    PROVE  IInv'
<1>1. /\ present' = present \ {w}
      /\ live' = IF w \in present THEN live - 1 ELSE live
      /\ ~enabled'
      /\ \A u \in Vcpus : pc[u] = "guest"
      /\ rsp = NoRsp
      /\ UNCHANGED <<vcpuVars, denied, rspVars>>
      /\ Turn("cleanup", w)
    BY DEF CleanupVcpu
<1>2. /\ domctl' \in DomctlStates
      /\ domctl' # NoDomctl => domctl'.at \in Vcpus
      /\ domctl'.op # "init"
    BY <1>1, LoopAdvances
<1>3. /\ Writes' /\ Emulation' /\ Paused'
      /\ vm_event' \in [Vcpus -> Contents]
      /\ leftover' \in [Vcpus -> SUBSET Regs]
      /\ supplied' \in [Vcpus -> Kinds]
    <2>1. Zeroed \in Contents /\ Zeroed.do_write = {}
        BY DEF Zeroed, Contents
    <2>2. /\ vm_event' = [vm_event EXCEPT ![w] = Zeroed]
          /\ leftover' = [leftover EXCEPT ![w] = Zeroed.do_write]
          /\ supplied' = [supplied EXCEPT ![w] = "none"]
        BY <2>1 DEF CleanupVcpu
    <2> QED
        BY <1>1, <2>1, <2>2, RenewedFits
<1>4. NoLeak' /\ live' \in Nat
    <2>1. /\ IsFiniteSet(present \ {w})
          /\ Cardinality(present \ {w}) =
                IF w \in present THEN Cardinality(present) - 1 ELSE Cardinality(present)
        BY PresentFinite, FS_RemoveElement DEF IInv
    <2>2. Cardinality(present \ {w}) \in Nat
        BY <2>1, FS_CardinalityType
    <2> QED
        BY <1>1, <2>1, <2>2 DEF IInv, NoLeak
<1>5. TypeOK'
    <2>1. enabled' \in BOOLEAN
        BY DEF CleanupVcpu
    <2> QED
        BY <1>1, <1>2, <1>3, <1>4, <2>1
            DEF IInv, TypeOK, vcpuVars, rspVars, DomctlStates, Kinds
<1>6. Domain'
    BY <1>1, <1>2 DEF Domain, vcpuVars, rspVars
<1>7. Answered'
    BY <1>1 DEF IInv, Answered, vcpuVars, rspVars
<1> QED
    BY <1>3, <1>4, <1>5, <1>6, <1>7 DEF IInv

-----------------------------------------------------------------------------
(* The vCPU *)

LEMMA TrapKeeps ==
    ASSUME IInv, NEW w \in Vcpus, NEW e \in Events, Trap(w, e)
    PROVE  IInv'
<1> DEFINE c == vm_event[w]
           d == [c EXCEPT !.sync_event = TRUE, !.do_write = @ \cup ({e} \cap Regs)]
<1>1. /\ enabled /\ e \notin asked[w]
      /\ pc' = [pc EXCEPT ![w] = "exit"]
      /\ pause_count' = [pause_count EXCEPT ![w] = pause_count[w] + 1]
      /\ asked' = [asked EXCEPT ![w] = asked[w] \cup {e}]
      /\ open' = [open EXCEPT ![w] = open[w] \cup {e}]
      /\ UNCHANGED <<domVars, history, rspVars>>
    BY DEF Trap
<1>2. /\ c \in Contents
      /\ vm_event' = [vm_event EXCEPT ![w] = d]
    <2> DEFINE s == [c EXCEPT !.do_write = c.do_write \cup ({e} \cap Regs)]
    <2>1. c \in Contents
        BY DEF IInv, TypeOK
    <2>2. d = [s EXCEPT !.sync_event = TRUE]
        BY <2>1 DEF Contents
    <2>3. vm_event' = [vm_event EXCEPT ![w] = [s EXCEPT !.sync_event = TRUE]]
        BY DEF Trap, vm_event_sync_event
    <2> QED
        BY <2>1, <2>2, <2>3
<1>3. /\ d \in Contents
      /\ d.do_write = c.do_write \cup ({e} \cap Regs)
      /\ d.emulate_flags = c.emulate_flags /\ d.emul = c.emul
    BY <1>2 DEF Contents
<1> HIDE DEF c, d
<1>4. vm_event'[w] = d /\ \A v \in Vcpus : v # w => vm_event'[v] = vm_event[v]
    BY <1>2 DEF IInv, TypeOK
<1>5. TypeOK'
    <2>1. vm_event' \in [Vcpus -> Contents]
        BY <1>2, <1>3 DEF IInv, TypeOK
    <2>2. /\ pc' \in [Vcpus -> {"guest", "exit", "stopped"}]
          /\ pause_count' \in [Vcpus -> Nat]
        BY <1>1 DEF IInv, TypeOK
    <2>3. asked' \in [Vcpus -> SUBSET Events] /\ open' \in [Vcpus -> SUBSET Events]
        BY <1>1 DEF IInv, TypeOK
    <2> QED
        BY <1>1, <2>1, <2>2, <2>3 DEF IInv, TypeOK, domVars, rspVars, history
<1>6. Domain' /\ NoLeak'
    BY <1>1 DEF IInv, TypeOK, Domain, NoLeak, domVars, rspVars
<1>7. Paused'
    <2>1. e \notin open[w] /\ IsFiniteSet(open[w])
        BY <1>1 DEF IInv, Paused
    <2>2. /\ IsFiniteSet(open[w] \cup {e})
          /\ Cardinality(open[w] \cup {e}) = Cardinality(open[w]) + 1
        BY <2>1, FS_AddElement
    <2> QED
        BY <1>1, <2>2 DEF IInv, TypeOK, Paused
<1>8. Answered'
    BY <1>1 DEF IInv, TypeOK, Answered, rspVars
<1>9. Writes'
    <2>1. \A v \in Vcpus : v # w => asked'[v] = asked[v]
        BY <1>1 DEF IInv, TypeOK
    <2>2. asked'[w] = asked[w] \cup {e} /\ denied' = denied /\ leftover' = leftover
        BY <1>1 DEF IInv, TypeOK, history
    <2>3. /\ e \notin denied[w]
          /\ c.do_write = ((asked[w] \cap Regs) \ denied[w]) \cup leftover[w]
        BY <1>1 DEF IInv, Writes, c
    <2> QED
        BY <1>3, <1>4, <2>1, <2>2, <2>3 DEF IInv, Writes
<1>10. Emulation'
    BY <1>1, <1>3, <1>4 DEF IInv, Emulation, Kept, c, history
<1> QED
    BY <1>5, <1>6, <1>7, <1>8, <1>9, <1>10 DEF IInv

LEMMA StopKeeps ==
    ASSUME IInv, NEW w \in Vcpus, Stop(w)
    PROVE  IInv'
<1>1. /\ pc[w] = "exit" /\ pc' = [pc EXCEPT ![w] = "stopped"]
      /\ UNCHANGED <<domVars, vm_event, pause_count, asked, open, history, rspVars>>
    BY DEF Stop
<1>2. TypeOK'
    BY <1>1 DEF IInv, TypeOK, domVars, rspVars, history
<1>3. Domain' /\ NoLeak' /\ Paused' /\ Answered' /\ Writes' /\ Emulation'
    BY <1>1
        DEF IInv, TypeOK, Domain, NoLeak, Paused, Answered, Writes, Emulation, domVars, rspVars,
            history
<1> QED
    BY <1>2, <1>3 DEF IInv

LEMMA ResumeKeeps ==
    ASSUME IInv, NEW w \in Vcpus, Resume(w)
    PROVE  IInv'
<1> DEFINE c == vm_event[w]
           d == [c EXCEPT !.sync_event = FALSE, !.do_write = {}, !.emulate_flags = {}]
<1>1. /\ pause_count[w] = 0
      /\ pc' = [pc EXCEPT ![w] = "guest"]
      /\ asked' = [asked EXCEPT ![w] = {}]
      /\ denied' = [denied EXCEPT ![w] = {}]
      /\ leftover' = [leftover EXCEPT ![w] = {}]
      /\ supplied' = [supplied EXCEPT ![w] = "none"]
      /\ UNCHANGED <<domVars, pause_count, open, rspVars>>
    BY DEF Resume
<1>2. /\ c \in Contents
      /\ vm_event' = [vm_event EXCEPT ![w] = d]
    BY DEF Resume, vm_event_sync_event, IInv, TypeOK, Contents
<1>3. d \in Contents /\ d.do_write = {} /\ d.emulate_flags = {}
    BY <1>2 DEF Contents
<1> HIDE DEF c, d
<1>4. vm_event'[w] = d /\ \A v \in Vcpus : v # w => vm_event'[v] = vm_event[v]
    BY <1>2 DEF IInv, TypeOK
<1>5. TypeOK'
    <2>1. vm_event' \in [Vcpus -> Contents]
        BY <1>2, <1>3 DEF IInv, TypeOK
    <2>2. pc' \in [Vcpus -> {"guest", "exit", "stopped"}]
        BY <1>1 DEF IInv, TypeOK
    <2>3. asked' \in [Vcpus -> SUBSET Events] /\ denied' \in [Vcpus -> SUBSET Regs]
        BY <1>1 DEF IInv, TypeOK
    <2>4. leftover' \in [Vcpus -> SUBSET Regs] /\ supplied' \in [Vcpus -> {"none", "read", "insn"}]
        BY <1>1 DEF IInv, TypeOK
    <2> QED
        BY <1>1, <2>1, <2>2, <2>3, <2>4 DEF IInv, TypeOK, domVars, rspVars
<1>6. Domain' /\ NoLeak'
    BY <1>1 DEF IInv, TypeOK, Domain, NoLeak, domVars, rspVars
<1>7. Paused'
    <2>1. open[w] = {}
        BY <1>1, FS_EmptySet DEF IInv, Paused
    <2> QED
        BY <1>1, <2>1 DEF IInv, TypeOK, Paused
<1>8. Answered'
    BY <1>1 DEF IInv, TypeOK, Answered, rspVars
<1>9. Writes'
    BY <1>1, <1>3, <1>4 DEF IInv, TypeOK, Writes
<1>10. Emulation'
    BY <1>1, <1>4 DEF IInv, TypeOK, Emulation, Kept
<1> QED
    BY <1>5, <1>6, <1>7, <1>8, <1>9, <1>10 DEF IInv

-----------------------------------------------------------------------------
(* Answers *)

LEMMA TakeAnswerKeeps ==
    ASSUME IInv, NEW w \in Vcpus, NEW e \in Events, NEW f \in AnswerFlags,
           TakeAnswer(w, e, f)
    PROVE  IInv'
<1>1. /\ enabled
      /\ rsp' = [v |-> w, event |-> e, flags |-> f, late |-> e \notin open[w]]
      /\ todo' = Calls
      /\ UNCHANGED <<domVars, vm_event, vcpuVars, history>>
    BY DEF TakeAnswer
<1>2. rsp' \in [v : 0..N, event : Events \cup {"none"}, flags : SUBSET Flags,
                late : BOOLEAN]
    BY <1>1, FlagsAssumption, NAssumption DEF Vcpus
<1>3. TypeOK'
    BY <1>1, <1>2 DEF IInv, TypeOK, domVars, vcpuVars, history
<1>4. Domain' /\ NoLeak' /\ Paused' /\ Writes' /\ Emulation'
    BY <1>1 DEF IInv, Domain, NoLeak, Paused, Writes, Emulation, domVars, vcpuVars, history
<1>5. /\ rsp'.v = w /\ rsp'.event = e /\ rsp'.flags = f
      /\ rsp'.late = (e \notin open[w])
    BY <1>1
<1>6. w # 0
    BY NAssumption DEF Vcpus
<1>7. rsp' # NoRsp
    BY <1>5, <1>6 DEF NoRsp
<1>8. Answered'
    BY <1>1, <1>5, <1>7 DEF Answered, vcpuVars
<1> QED
    BY <1>3, <1>4, <1>8 DEF IInv

\* The answer that is handled.
LEMMA AnswerTaken ==
    ASSUME IInv, NEW f \in todo
    PROVE  /\ rsp # NoRsp /\ enabled
           /\ rsp.v \in Vcpus /\ rsp.event \in Events
           /\ rsp.flags \in SUBSET Flags
<1>1. rsp # NoRsp
    BY DEF IInv, Answered
<1> QED
    BY <1>1 DEF IInv, Answered, Domain, TypeOK

\* What a call for an answer leaves alone keeps all that is not about the
\* structures.
LEMMA CallKeeps ==
    ASSUME IInv, NEW f \in Calls, Call(f)
    PROVE  Domain' /\ NoLeak' /\ Paused' /\ Answered'
<1>1. f \in todo /\ todo' = todo \ {f}
    BY DEF Call
<1>2. UNCHANGED <<present, live, domctl, enabled, pc, pause_count, asked, open, rsp>>
    BY DEF Call, domVars, vcpuVars
<1>3. Domain' /\ NoLeak' /\ Paused'
    BY <1>2 DEF IInv, Domain, NoLeak, Paused
<1>4. Answered'
    BY <1>1, <1>2 DEF IInv, Answered
<1> QED
    BY <1>3, <1>4

\* A denial takes back the write of the register the answer names.
LEMMA DenyKeeps ==
    ASSUME IInv, vm_event_register_write_resume
    PROVE  IInv'
<1> DEFINE w == rsp.v
           c == vm_event[w]
           d == [c EXCEPT !.do_write = c.do_write \ Cleared]
<1>1. /\ "register_write_resume" \in todo /\ todo' = todo \ {"register_write_resume"}
      /\ UNCHANGED <<present, live, domctl, enabled, pc, pause_count, asked, open, rsp, supplied>>
    BY DEF vm_event_register_write_resume, Call, domVars, vcpuVars
<1>2. Domain' /\ NoLeak' /\ Paused' /\ Answered'
    BY CallKeeps DEF vm_event_register_write_resume, Calls
<1>3. w \in Vcpus
    BY <1>1, AnswerTaken
<1>4. todo' \in SUBSET Calls
    BY <1>1 DEF IInv, TypeOK
<1>5. CASE ~DenyHonoured
    <2>1. UNCHANGED <<vm_event, denied, leftover>>
        BY <1>5 DEF vm_event_register_write_resume
    <2>2. TypeOK' /\ Writes' /\ Emulation'
        BY <1>1, <1>4, <2>1 DEF IInv, TypeOK, Writes, Emulation
    <2> QED
        BY <1>2, <2>2 DEF IInv
<1>6. CASE DenyHonoured
    <2>1. vm_event' = [vm_event EXCEPT ![w] = d]
        BY <1>6 DEF vm_event_register_write_resume
    <2>2. /\ denied' = [denied EXCEPT ![w] =
                denied[w] \cup ({rsp.event} \cap Regs \cap asked[w])]
          /\ leftover' = [leftover EXCEPT ![w] = leftover[w] \ {rsp.event}]
        BY <1>6 DEF vm_event_register_write_resume
    <2>3. c \in Contents
        BY <1>3 DEF IInv, TypeOK
    <2>4. /\ d \in Contents
          /\ d.do_write = c.do_write \ ({rsp.event} \cap Regs)
          /\ d.emulate_flags = c.emulate_flags /\ d.emul = c.emul
        BY <2>3 DEF Contents, Cleared
    <2> HIDE DEF c, d
    <2>5. vm_event'[w] = d /\ \A v \in Vcpus : v # w => vm_event'[v] = vm_event[v]
        BY <1>3, <2>1 DEF IInv, TypeOK
    <2>6. TypeOK'
        <3>1. vm_event' \in [Vcpus -> Contents]
            BY <1>3, <2>1, <2>4 DEF IInv, TypeOK
        <3>2. denied' \in [Vcpus -> SUBSET Regs] /\ leftover' \in [Vcpus -> SUBSET Regs]
            BY <1>3, <2>2 DEF IInv, TypeOK
        <3> QED
            BY <1>1, <1>4, <3>1, <3>2 DEF IInv, TypeOK
    <2>7. Writes'
        <3>1. /\ denied'[w] = denied[w] \cup ({rsp.event} \cap Regs \cap asked[w])
              /\ leftover'[w] = leftover[w] \ {rsp.event}
              /\ \A v \in Vcpus : v # w => denied'[v] = denied[v] /\ leftover'[v] = leftover[v]
            BY <1>3, <2>2 DEF IInv, TypeOK
        <3>2. /\ c.do_write = ((asked[w] \cap Regs) \ denied[w]) \cup leftover[w]
              /\ denied[w] \subseteq asked[w] /\ leftover[w] \subseteq Regs
            BY <1>3 DEF IInv, TypeOK, Writes, c
        <3>3. d.do_write = ((asked[w] \cap Regs) \ denied'[w]) \cup leftover'[w]
            BY <2>4, <3>1, <3>2
        <3>4. denied'[w] \subseteq asked[w]
            BY <3>1, <3>2
        <3> QED
            BY <1>1, <2>5, <3>1, <3>3, <3>4 DEF IInv, Writes
    <2>8. Emulation'
        BY <1>1, <1>3, <2>4, <2>5 DEF IInv, Emulation, Kept, c
    <2> QED
        BY <1>2, <2>6, <2>7, <2>8 DEF IInv
<1> QED
    BY <1>5, <1>6

\* What is supplied after vm_event_emulate_check.
Supplied(kind) ==
    IF "EMULATE" \notin rsp.flags THEN "none" ELSE IF InForce THEN Data ELSE kind

\* vm_event_emulate_check leaves the writes alone, and stores and announces
\* the data it was supplied with.
LEMMA EmulatedKeeps ==
    ASSUME NEW c \in Contents, NEW kind \in Kinds, Kept(c, kind), rsp.flags \in SUBSET Flags
    PROVE  /\ Emulated(c) \in Contents
           /\ Kept(Emulated(c), Supplied(kind))
           /\ Supplied(kind) \in Kinds
           /\ Emulated(c).do_write = c.do_write
<1> USE DEF Kinds
<1>1. CASE "EMULATE" \notin rsp.flags
    <2>1. Emulated(c) = [c EXCEPT !.emulate_flags = {}] /\ Supplied(kind) = "none"
        BY <1>1 DEF Emulated, Supplied
    <2> QED
        BY <2>1 DEF Contents, Kept
<1>2. CASE "EMULATE" \in rsp.flags /\ rsp.event = "descriptor_access"
    <2>1. Emulated(c) =
            [c EXCEPT
                !.emul = IF "SET_EMUL_READ_DATA" \in rsp.flags THEN "read" ELSE c.emul,
                !.emulate_flags = rsp.flags]
        BY <1>2 DEF Emulated, p2m_mem_access_emulate_check
    <2>2. Supplied(kind) = IF "SET_EMUL_READ_DATA" \in rsp.flags THEN "read" ELSE "none"
        BY <1>2 DEF Supplied, InForce, Data
    <2> QED
        BY <2>1, <2>2 DEF Contents, Kept
<1>3. CASE /\ {"EMULATE", "SET_EMUL_INSN_DATA"} \subseteq rsp.flags
           /\ rsp.event = "software_breakpoint"
    <2>1. Emulated(c) = [c EXCEPT !.emul = "insn", !.emulate_flags = rsp.flags]
        BY <1>3 DEF Emulated, p2m_mem_access_emulate_check
    <2>2. Supplied(kind) = "insn"
        BY <1>3 DEF Supplied, InForce, Data
    <2> QED
        BY <1>3, <2>1, <2>2 DEF Contents, Kept
<1>4. CASE /\ "EMULATE" \in rsp.flags
           /\ rsp.event # "descriptor_access"
           /\ ~(/\ {"EMULATE", "SET_EMUL_INSN_DATA"} \subseteq rsp.flags
                /\ rsp.event = "software_breakpoint")
    <2>1. Emulated(c) = c
        BY <1>4 DEF Emulated, p2m_mem_access_emulate_check
    <2>2. Supplied(kind) = kind
        BY <1>4 DEF Supplied, InForce, Data
    <2> QED
        BY <2>1, <2>2
<1> QED
    BY <1>1, <1>2, <1>3, <1>4

LEMMA EmulateKeeps ==
    ASSUME IInv, vm_event_emulate_check
    PROVE  IInv' /\ \A v \in Vcpus : vm_event'[v].do_write = vm_event[v].do_write
<1> DEFINE w == rsp.v
<1>1. /\ "emulate_check" \in todo /\ todo' = todo \ {"emulate_check"}
      /\ UNCHANGED <<present, live, domctl, enabled, pc, pause_count, asked, open,
                     denied, leftover, rsp>>
      /\ vm_event' = [vm_event EXCEPT ![w] = Emulated(vm_event[w])]
      /\ supplied' = [supplied EXCEPT ![w] = Supplied(supplied[w])]
    BY DEF vm_event_emulate_check, Call, domVars, vcpuVars, Supplied
<1>2. Domain' /\ NoLeak' /\ Paused' /\ Answered'
    BY CallKeeps DEF vm_event_emulate_check, Calls
<1>3. w \in Vcpus
    BY <1>1, AnswerTaken
<1>4. vm_event[w] \in Contents /\ supplied[w] \in Kinds /\ Kept(vm_event[w], supplied[w])
    BY <1>3 DEF IInv, TypeOK, Emulation, Kinds
<1>5. /\ Emulated(vm_event[w]) \in Contents
      /\ Kept(Emulated(vm_event[w]), Supplied(supplied[w]))
      /\ Supplied(supplied[w]) \in Kinds
      /\ Emulated(vm_event[w]).do_write = vm_event[w].do_write
    BY <1>1, <1>4, AnswerTaken, EmulatedKeeps
<1>6. /\ vm_event'[w] = Emulated(vm_event[w])
      /\ supplied'[w] = Supplied(supplied[w])
      /\ \A v \in Vcpus : v # w => vm_event'[v] = vm_event[v] /\ supplied'[v] = supplied[v]
    BY <1>1, <1>3 DEF IInv, TypeOK
<1>7. TypeOK'
    <2>1. vm_event' \in [Vcpus -> Contents]
        BY <1>1, <1>5 DEF IInv, TypeOK
    <2>2. supplied' \in [Vcpus -> Kinds]
        BY <1>1, <1>5 DEF IInv, TypeOK, Kinds
    <2>3. todo' \in SUBSET Calls
        BY <1>1 DEF IInv, TypeOK
    <2> QED
        BY <1>1, <2>1, <2>2, <2>3 DEF IInv, TypeOK, Kinds
<1>8. \A v \in Vcpus : vm_event'[v].do_write = vm_event[v].do_write
    BY <1>5, <1>6
<1>9. Writes'
    BY <1>1, <1>8 DEF IInv, Writes
<1>10. Emulation'
    BY <1>5, <1>6 DEF IInv, Emulation
<1> QED
    BY <1>2, <1>7, <1>8, <1>9, <1>10 DEF IInv

LEMMA AnswerDoneKeeps ==
    ASSUME IInv, AnswerDone
    PROVE  IInv'
<1> DEFINE w == rsp.v
<1>1. /\ rsp # NoRsp /\ todo = {} /\ rsp' = NoRsp
      /\ UNCHANGED <<domVars, vm_event, pc, asked, history, todo>>
    BY DEF AnswerDone
<1>2. rsp' \in [v : 0..N, event : Events \cup {"none"}, flags : SUBSET Flags,
                late : BOOLEAN]
    BY <1>1, NAssumption DEF NoRsp
<1>3. Domain' /\ NoLeak' /\ Answered' /\ Writes' /\ Emulation'
    BY <1>1 DEF IInv, Domain, NoLeak, Answered, Writes, Emulation, domVars,
                   history
<1>4. CASE rsp.late
    <2>1. UNCHANGED <<pause_count, open>>
        BY <1>4 DEF AnswerDone
    <2>2. TypeOK' /\ Paused'
        BY <1>1, <1>2, <2>1 DEF IInv, TypeOK, Paused, domVars, history
    <2> QED
        BY <1>3, <2>2 DEF IInv
<1>5. CASE ~rsp.late
    <2>1. /\ pause_count' = [pause_count EXCEPT ![w] = pause_count[w] - 1]
          /\ open' = [open EXCEPT ![w] = open[w] \ {rsp.event}]
        BY <1>5 DEF AnswerDone
    <2>2. w \in Vcpus /\ rsp.event \in open[w]
        BY <1>1, <1>5 DEF IInv, Answered
    <2>3. IsFiniteSet(open[w]) /\ pause_count[w] = Cardinality(open[w])
        BY <2>2 DEF IInv, Paused
    <2>4. /\ IsFiniteSet(open[w] \ {rsp.event})
          /\ Cardinality(open[w] \ {rsp.event}) = pause_count[w] - 1
        BY <2>2, <2>3, FS_RemoveElement
    <2>5. pause_count[w] - 1 \in Nat
        BY <2>4, FS_CardinalityType
    <2>6. /\ pause_count'[w] = pause_count[w] - 1
          /\ open'[w] = open[w] \ {rsp.event}
          /\ \A v \in Vcpus : v # w => pause_count'[v] = pause_count[v] /\ open'[v] = open[v]
        BY <2>1, <2>2 DEF IInv, TypeOK
    <2>7. Paused'
        BY <1>1, <2>4, <2>6 DEF IInv, Paused
    <2>8. pause_count' \in [Vcpus -> Nat] /\ open' \in [Vcpus -> SUBSET Events]
        BY <2>1, <2>2, <2>5 DEF IInv, TypeOK
    <2>9. TypeOK'
        BY <1>1, <1>2, <2>8 DEF IInv, TypeOK, domVars, history
    <2> QED
        BY <1>3, <2>7, <2>9 DEF IInv
<1> QED
    BY <1>4, <1>5

-----------------------------------------------------------------------------
(* The theorems *)

LEMMA NextIInv ==
    ASSUME IInv, [Next]_vars
    PROVE  IInv'
<1>1. CASE DomctlStep
    BY <1>1, InitLoop, InitFailsKeeps, CleanupLoop DEF DomctlStep
<1>2. CASE GuestStep
    BY <1>2, TrapKeeps, StopKeeps, ResumeKeeps DEF GuestStep
<1>3. CASE AnswerStep
    BY <1>3, TakeAnswerKeeps, DenyKeeps, EmulateKeeps, AnswerDoneKeeps DEF AnswerStep
<1>4. CASE UNCHANGED vars
    <2>1. UNCHANGED <<domVars, vm_event, vcpuVars, history, rspVars>>
        BY <1>4 DEF vars
    <2>2. TypeOK' /\ Domain' /\ NoLeak' /\ Paused'
        BY <2>1 DEF IInv, TypeOK, Domain, NoLeak, Paused, domVars, vcpuVars, rspVars, history
    <2>3. Answered' /\ Writes' /\ Emulation'
        BY <2>1 DEF IInv, Answered, Writes, Emulation, domVars, vcpuVars, rspVars, history
    <2> QED
        BY <2>2, <2>3 DEF IInv
<1> QED
    BY <1>1, <1>2, <1>3, <1>4 DEF Next

LEMMA Invariance == Spec => []IInv
<1>1. Init => IInv
    BY InitIInv
<1>2. IInv /\ [Next]_vars => IInv'
    BY NextIInv
<1> QED
    BY <1>1, <1>2, PTL DEF Spec

\* The variables keep their types, and no function finds a NULL
\* arch_vm_event, for any number of vCPUs: vm_event_init_domain and
\* vm_event_cleanup_domain interleaved with traps and answers.
THEOREM NeverNull == Spec => [](TypeOK /\ NoNullDereference)
<1>1. IInv => TypeOK /\ NoNullDereference
    BY DEF IInv, Domain, Answered, NoNullDereference
<1> QED
    BY <1>1, Invariance, PTL

\* vm_event_init_domain and vm_event_cleanup_domain, repeated or broken off
\* anywhere, leak no arch_vm_event and free none twice.
THEOREM NeverLeaks == Spec => []NoLeak
<1>1. IInv => NoLeak
    BY DEF IInv
<1> QED
    BY <1>1, Invariance, PTL

\* A resuming vCPU writes the registers it trapped for and
\* vm_event_register_write_resume did not deny, and those malloc left marked
\* in its arch_vm_event: no others, whatever malloc left and whatever flags
\* the answers have.
THEOREM WritesRight == Spec => []WritesAsAnswered
<1>1. IInv => WritesAsAnswered
    BY DEF IInv, Writes, WritesAsAnswered
<1> QED
    BY <1>1, Invariance, PTL

\* The data an answer supplies for its event stays in the union, announced,
\* until another answer replaces it, after any sequence of answers with any
\* flags handled by vm_event_emulate_check.
THEOREM EmulationKept == Spec => []EmulDataKept
<1>1. IInv => EmulDataKept
    BY DEF IInv, Emulation, Kept, EmulDataKept
<1> QED
    BY <1>1, Invariance, PTL

\* An answer to a vCPU that is no longer paused changes nothing in what it
\* will write: the pause count guards vm_event_register_write_resume.
THEOREM LateAnswersDoNothing == Spec => AnswerStands
<1> DEFINE Stands(v) == pc[v] = "stopped" /\ pause_count[v] = 0 /\ pc'[v] = "stopped"
                            => vm_event'[v].do_write = vm_event[v].do_write
<1>1. IInv /\ [Next]_vars => [\A v \in Vcpus : Stands(v)]_vars
    <2> SUFFICES ASSUME IInv, Next, NEW v \in Vcpus,
                        pc[v] = "stopped", pause_count[v] = 0, pc'[v] = "stopped"
                 PROVE  vm_event'[v].do_write = vm_event[v].do_write
        OBVIOUS
    <2>1. enabled /\ v \in present
        BY DEF IInv, Domain
    <2>2. CASE DomctlStep
        <3>1. PICK w \in Vcpus : InitVcpu(w) \/ InitFails(w) \/ CleanupVcpu(w)
            BY <2>2 DEF DomctlStep
        <3>2. w \in present
            BY <2>1 DEF IInv, Domain
        <3> QED
            BY <3>1, <3>2 DEF InitVcpu, InitSkip, InitFails, CleanupVcpu
    <2>3. CASE GuestStep
        <3>1. PICK w \in Vcpus :
                    (\E e \in Events : Trap(w, e)) \/ Stop(w) \/ Resume(w)
            BY <2>3 DEF GuestStep
        <3>2. CASE w = v
            <4>1. ~\E e \in Events : Trap(w, e)
                BY <3>2 DEF Trap
            <4>2. ~Resume(w)
                BY <3>2 DEF Resume, IInv, TypeOK
            <4> QED
                BY <3>1, <4>1, <4>2 DEF Stop
        <3>3. CASE w # v
            BY <3>1, <3>3 DEF Trap, Stop, Resume, IInv, TypeOK
        <3> QED
            BY <3>2, <3>3
    <2>4. CASE AnswerStep
        <3>1. CASE vm_event_register_write_resume
            <4>1. CASE rsp.v = v
                BY <3>1, <4>1 DEF vm_event_register_write_resume, DenyHonoured
            <4>2. CASE rsp.v # v
                BY <3>1, <4>2 DEF vm_event_register_write_resume, IInv, TypeOK
            <4> QED
                BY <4>1, <4>2
        <3>2. CASE vm_event_emulate_check
            BY <3>2, EmulateKeeps
        <3>3. CASE AnswerDone \/ \E w \in Vcpus, e \in Events, f \in AnswerFlags :
                        TakeAnswer(w, e, f)
            BY <3>3 DEF AnswerDone, TakeAnswer
        <3> QED
            BY <2>4, <3>1, <3>2, <3>3 DEF AnswerStep
    <2> QED
        BY <2>2, <2>3, <2>4 DEF Next
<1> QED
    BY <1>1, Invariance, PTL DEF Spec, AnswerStands

-----------------------------------------------------------------------------
(* Segment registers *)

\* The switch makes the segments present that always are.
LEMMA FixedFlags ==
    ASSUME NEW name \in Segments, NEW attr \in SUBSET Attributes
    PROVE  name \in {"cs", "tr", "gdtr", "idtr"} => "p" \in Fixed(name, attr)
<1>1. CASE name = "tr"
    BY <1>1 DEF Fixed
<1>2. CASE name = "cs"
    BY <1>2 DEF Fixed
<1>3. CASE name \in {"gdtr", "idtr"}
    BY <1>3 DEF Fixed
<1> QED
    BY <1>1, <1>2, <1>3

\* A limit survives packing: 20 bits hold it, or its upper 20 bits do and the
\* lower 12 are ones.
LEMMA LimitSurvives ==
    ASSUME NEW limit \in Limits, Expressible(limit)
    PROVE  /\ limit \div 2^20 = 0 => limit % 2^20 = limit
           /\ limit \div 2^20 # 0 =>
                ((limit \div 2^12) % 2^20) * 2^12 + (2^12 - 1) = limit
<1>1. limit \in Nat /\ limit \div 2^20 < 2^12
    BY LimitsAssumption
<1>2. limit \div 2^20 # 0 => limit % 2^12 = 2^12 - 1
    BY <1>1 DEF Expressible
<1>3. (limit \div 2^12) % 2^20 = limit \div 2^12
    BY <1>1
<1> QED
    BY <1>1, <1>2, <1>3

\* A fetched register has the limit and the base of the hardware, and flags
\* that agree with its name and its limit.
LEMMA FetchedRight ==
    ASSUME NEW name \in Segments, NEW hw \in HwRegisters
    PROVE  LET reg == hvm_get_segment_register(name, hw) IN
           /\ reg.limit = hw.limit /\ reg.base = hw.base
           /\ name \in {"cs", "tr", "gdtr", "idtr"} => "p" \in reg.attr
           /\ "p" \in reg.attr => ("s" \in reg.attr <=> name \in UserSegments)
           /\ "p" \in reg.attr => ("g" \in reg.attr <=> hw.limit \div 2^20 # 0)
<1> DEFINE fixed == Fixed(name, hw.attr)
           reg == hvm_get_segment_register(name, hw)
<1>1. name \in {"cs", "tr", "gdtr", "idtr"} => "p" \in fixed
    BY FixedFlags DEF HwRegisters
<1> HIDE DEF fixed
<1>2. /\ reg.limit = hw.limit /\ reg.base = hw.base
      /\ reg.attr = IF "p" \in fixed THEN Cooked(name, fixed, hw.limit) ELSE fixed
    BY DEF hvm_get_segment_register, HwRegisters, fixed
<1> HIDE DEF reg
<1>3. /\ "p" \in Cooked(name, fixed, hw.limit) <=> "p" \in fixed
      /\ "s" \in Cooked(name, fixed, hw.limit) <=> name \in UserSegments
      /\ "g" \in Cooked(name, fixed, hw.limit) <=> hw.limit \div 2^20 # 0
    BY DEF Cooked, Granularity, is_x86_user_segment
<1> QED
    BY <1>1, <1>2, <1>3 DEF reg

\* Fetching a register, and packing it, gives the monitor what the segment is.
LEMMA FetchPacks ==
    ASSUME NEW name \in Segments, NEW hw \in HwRegisters, Fetch(name, hw)
    PROVE  SegmentPacked'
<1> DEFINE reg == hvm_get_segment_register(name, hw)
<1>1. /\ seg'.name = name /\ seg'.hw = hw /\ seg'.reg = reg
      /\ seg'.packed = IF is_x86_user_segment(name)
                       THEN vm_event_pack_segment_register(name, reg) ELSE NoSegment
    BY DEF Fetch
<1>2. /\ reg.limit = hw.limit /\ reg.base = hw.base
      /\ name \in {"cs", "tr", "gdtr", "idtr"} => "p" \in reg.attr
      /\ "p" \in reg.attr => ("s" \in reg.attr <=> name \in UserSegments)
      /\ "p" \in reg.attr => ("g" \in reg.attr <=> hw.limit \div 2^20 # 0)
    BY FetchedRight
<1> HIDE DEF reg
<1>3. ASSUME seg'.packed # NoSegment
      PROVE  /\ seg'.packed.base =
                    [high |-> IF name \in {"fs", "gs"} THEN hw.base.high ELSE 0,
                     low |-> hw.base.low]
             /\ seg'.packed.ar = reg.attr
             /\ seg'.packed.limit =
                    (IF "g" \in reg.attr THEN hw.limit \div 2^12 ELSE hw.limit) % 2^20
    BY <1>1, <1>2, <1>3 DEF vm_event_pack_segment_register
<1>4. hw.limit \in Limits /\ hw.base = [high |-> hw.base.high, low |-> hw.base.low]
    BY DEF HwRegisters, Bases
<1>5. ASSUME seg'.packed # NoSegment, "p" \in seg'.packed.ar, Expressible(hw.limit)
      PROVE  Unpacked(seg'.packed) = hw.limit
    BY <1>2, <1>3, <1>4, <1>5, LimitSurvives DEF Unpacked
<1>6. ASSUME seg'.packed # NoSegment, hw.base.high = 0 \/ name \in {"fs", "gs"}
      PROVE  seg'.packed.base = hw.base
    BY <1>3, <1>4, <1>6
<1> QED
    BY <1>1, <1>2, <1>5, <1>6 DEF SegmentPacked

\* Whatever the hardware keeps of a segment, a monitor that reads the packed
\* register gets its limit and base, and fetched segments are present and of
\* the kind they must be (hvm_get_segment_register,
\* vm_event_pack_segment_register).
THEOREM SegmentsPacked == SegSpec => []SegmentPacked
<1>1. SegInit => SegmentPacked
    BY DEF SegInit, SegmentPacked
<1>2. SegmentPacked /\ [SegNext]_seg => SegmentPacked'
    <2> SUFFICES ASSUME SegmentPacked, [SegNext]_seg PROVE SegmentPacked'
        OBVIOUS
    <2>1. CASE Consume
        BY <2>1 DEF Consume, SegmentPacked
    <2>2. CASE UNCHANGED seg
        BY <2>2 DEF SegmentPacked
    <2> QED
        BY <2>1, <2>2, FetchPacks DEF SegNext
<1> QED
    BY <1>1, <1>2, PTL DEF SegSpec
=============================================================================
