------------------------------ MODULE VmEvent ------------------------------
(***************************************************************************)
(* The hypervisor side of VM events (src/vm_event_verified.c): a vCPU that *)
(* traps is paused until a monitor answers; the answer may deny the        *)
(* register write the vCPU was about to make, have the trapped instruction *)
(* emulated.  What was decided is kept in the vCPU's arch_vm_event, which  *)
(* vm_event_init_domain allocates and vm_event_cleanup_domain frees.       *)
(* (Single stepping, the next interrupt, the registers of an answer and    *)
(* mem_access_emulate_each_rep are flags that are set here and read        *)
(* nowhere: they are left out.)                                            *)
(*                                                                         *)
(* The trap and resume code, the ring the answers come from and the        *)
(* pausing of vCPUs are not in the repository: they are marked external    *)
(* and do what the functions of the source expect of them.                 *)
(***************************************************************************)
EXTENDS Naturals, FiniteSets, Sequences

CONSTANTS
    N,          \* number of vCPUs of the domain, linked in the order 1..N
    Regs,       \* registers whose writes trap: msr, cr0, cr3, cr4
    Fresh,      \* what malloc may leave in a new arch_vm_event
    AnswerFlags,    \* the sets of flags that answers come with
    MaxEvents   \* events of all the exits that are under way

ASSUME NAssumption == N \in Nat \ {0}
ASSUME BoundsAssumption == MaxEvents \in Nat

Vcpus == 1..N

Reasons == {"mem_access", "software_breakpoint", "descriptor_access"}
Events == Regs \cup Reasons
Flags == {"EMULATE", "SET_EMUL_READ_DATA", "SET_EMUL_INSN_DATA", "DENY"}

\* The part of struct arch_vm_event that is not plain data.  emul is the
\* union of read and insn: what it holds is what was stored last.
Contents ==
    [do_write : SUBSET Regs, emulate_flags : SUBSET Flags,
     emul : {"none", "read", "insn"}, sync_event : BOOLEAN]

Zeroed == [do_write |-> {}, emulate_flags |-> {}, emul |-> "none",
           sync_event |-> FALSE]

ASSUME FreshAssumption == Fresh \subseteq Contents /\ Fresh # {}
ASSUME FlagsAssumption == AnswerFlags \subseteq SUBSET Flags

VARIABLES
    present,        \* vCPUs whose arch.vm_event is not NULL
    live,           \* arch_vm_event structures allocated and not freed
    vm_event,       \* their contents, by vCPU
    domctl,         \* the domctl in progress: [op, at]
    enabled,        \* the last vm_event_init_domain returned 0
    pc,             \* each vCPU: in the guest, in an exit, stopped
    pause_count,    \* v->vm_event_pause_count
    asked,          \* history: events of the current exit of each vCPU
    open,           \* those without an answer
    denied,         \* history: register writes of this exit that were denied
    leftover,       \* history: bits of do_write that malloc left, and that
                    \* no answer has denied since
    supplied,       \* history: the data that came with the answer whose
                    \* flags are in force
    rsp,            \* the answer being handled: [v, event, flags, late]
    todo            \* functions still to be called for it

domVars == <<present, live, domctl, enabled>>
vcpuVars == <<pc, pause_count, asked, open>>
history == <<denied, leftover, supplied>>
rspVars == <<rsp, todo>>
vars == <<domVars, vm_event, vcpuVars, history, rspVars>>

\* The functions called for an answer.
Calls == {"register_write_resume", "emulate_check"}

NoRsp == [v |-> 0, event |-> "none", flags |-> {}, late |-> FALSE]

TypeOK ==
    /\ present \in SUBSET Vcpus
    /\ live \in Nat
    /\ vm_event \in [Vcpus -> Contents]
    /\ domctl \in [op : {"none", "init", "cleanup"}, at : 0..N]
    /\ enabled \in BOOLEAN
    /\ pc \in [Vcpus -> {"guest", "exit", "stopped"}]
    /\ pause_count \in [Vcpus -> Nat]
    /\ asked \in [Vcpus -> SUBSET Events]
    /\ open \in [Vcpus -> SUBSET Events]
    /\ denied \in [Vcpus -> SUBSET Regs]
    /\ leftover \in [Vcpus -> SUBSET Regs]
    /\ supplied \in [Vcpus -> {"none", "read", "insn"}]
    /\ rsp \in [v : 0..N, event : Events \cup {"none"}, flags : SUBSET Flags,
                late : BOOLEAN]
    /\ todo \in SUBSET Calls

NoDomctl == [op |-> "none", at |-> 0]

Init ==
    /\ present = {}
    /\ live = 0
    /\ vm_event = [v \in Vcpus |-> Zeroed]
    /\ domctl = NoDomctl
    /\ enabled = FALSE
    /\ pc = [v \in Vcpus |-> "guest"]
    /\ pause_count = [v \in Vcpus |-> 0]
    /\ asked = [v \in Vcpus |-> {}]
    /\ open = [v \in Vcpus |-> {}]
    /\ denied = [v \in Vcpus |-> {}]
    /\ leftover = [v \in Vcpus |-> {}]
    /\ supplied = [v \in Vcpus |-> "none"]
    /\ rsp = NoRsp
    /\ todo = {}

-----------------------------------------------------------------------------
(* vm_event_init_domain and vm_event_cleanup_domain, one action per turn of *)
(* their loops over the vCPUs: the call is part of the first turn, and the  *)
(* return of the last                                                       *)

AtTurn(op, v) ==
    \/ domctl = NoDomctl /\ v = 1
    \/ domctl = [op |-> op, at |-> v]

Turn(op, v) ==
    /\ AtTurn(op, v)
    /\ domctl' = IF v = N THEN NoDomctl ELSE [op |-> op, at |-> v + 1]

\* Mutant: no vCPU is skipped.
InitSkipNot(v) == FALSE

\* A vCPU that has an arch_vm_event keeps it.
InitSkip(v) == v \in present

InitVcpu(v) ==
    /\ Turn("init", v)
    /\ enabled' = (enabled \/ v = N)
    /\ IF InitSkip(v)
       THEN UNCHANGED <<present, live, vm_event, leftover, supplied>>
       ELSE /\ present' = present \cup {v}
            /\ live' = live + 1
            /\ supplied' = [supplied EXCEPT ![v] = "none"]
            /\ \E c \in Fresh :
                  /\ vm_event' = [vm_event EXCEPT ![v] = c]
                  /\ leftover' = [leftover EXCEPT ![v] = c.do_write]
    /\ UNCHANGED <<vcpuVars, denied, rspVars>>

\* Mutant: a failed allocation is reported as success.
InitFailsSilently(v) ==
    /\ AtTurn("init", v)
    /\ v \notin present
    /\ domctl' = NoDomctl
    /\ enabled' = TRUE
    /\ UNCHANGED <<present, live, vm_event, vcpuVars, history, rspVars>>

\* -12: the vCPUs before this one stay allocated.
InitFails(v) ==
    /\ AtTurn("init", v)
    /\ v \notin present
    /\ domctl' = NoDomctl
    /\ UNCHANGED <<present, live, enabled, vm_event, vcpuVars, history,
                   rspVars>>

\* The callers clean up when no event is outstanding.  free(NULL) does
\* nothing.
CleanupVcpu(v) ==
    /\ Turn("cleanup", v)
    /\ \A u \in Vcpus : pc[u] = "guest"
    /\ rsp = NoRsp
    /\ enabled' = FALSE
    /\ live' = IF v \in present THEN live - 1 ELSE live
    /\ present' = present \ {v}
    /\ vm_event' = [vm_event EXCEPT ![v] = Zeroed]
    /\ leftover' = [leftover EXCEPT ![v] = {}]
    /\ supplied' = [supplied EXCEPT ![v] = "none"]
    /\ UNCHANGED <<vcpuVars, denied, rspVars>>

-----------------------------------------------------------------------------
(* The vCPU: traps, waits for its answers and goes on.  External, but for   *)
(* vm_event_sync_event.                                                     *)

vm_event_sync_event(c, value) == [c EXCEPT !.sync_event = value]

Asked == {x \in Vcpus \X Events : x[2] \in asked[x[1]]}

\* An exit raises one or more events; each pauses the vCPU until answered.
\* The write of a register is left to the end of the exit.
Trap(v, e) ==
    /\ enabled
    /\ pc[v] \in {"guest", "exit"}
    /\ Cardinality(Asked) < MaxEvents
    /\ e \notin asked[v]
    /\ pc' = [pc EXCEPT ![v] = "exit"]
    /\ pause_count' = [pause_count EXCEPT ![v] = @ + 1]
    /\ asked' = [asked EXCEPT ![v] = @ \cup {e}]
    /\ open' = [open EXCEPT ![v] = @ \cup {e}]
    /\ vm_event' = [vm_event EXCEPT ![v] =
            vm_event_sync_event(
                [vm_event[v] EXCEPT !.do_write = @ \cup ({e} \cap Regs)], TRUE)]
    /\ UNCHANGED <<domVars, history, rspVars>>

Stop(v) ==
    /\ pc[v] = "exit"
    /\ pc' = [pc EXCEPT ![v] = "stopped"]
    /\ UNCHANGED <<domVars, vm_event, pause_count, asked, open, history, rspVars>>

\* No longer paused, the vCPU emulates if emulate_flags says so, makes the
\* writes of do_write and enters the guest.
Resume(v) ==
    /\ pc[v] = "stopped"
    /\ pause_count[v] = 0
    /\ pc' = [pc EXCEPT ![v] = "guest"]
    /\ asked' = [asked EXCEPT ![v] = {}]
    /\ denied' = [denied EXCEPT ![v] = {}]
    /\ leftover' = [leftover EXCEPT ![v] = {}]
    /\ supplied' = [supplied EXCEPT ![v] = "none"]
    /\ vm_event' = [vm_event EXCEPT ![v] =
            [vm_event_sync_event(@, FALSE) EXCEPT
                !.do_write = {}, !.emulate_flags = {}]]
    /\ UNCHANGED <<domVars, pause_count, open, rspVars>>

-----------------------------------------------------------------------------
(* Handling an answer.  Answers are taken one at a time; the order of the   *)
(* calls for one answer is not in the repository.                           *)

\* An answer to an outstanding event, or once more to a register write that
\* was answered before, whether the vCPU still waits or not.  Nothing checks
\* that its flags fit the event.
TakeAnswer(v, e, f) ==
    /\ rsp = NoRsp
    /\ enabled
    /\ e \in open[v] \cup Regs
    /\ rsp' = [v |-> v, event |-> e, flags |-> f, late |-> e \notin open[v]]
    /\ todo' = Calls
    /\ UNCHANGED <<domVars, vm_event, vcpuVars, history>>

Call(f) ==
    /\ f \in todo
    /\ todo' = todo \ {f}
    /\ UNCHANGED <<domVars, vcpuVars, rsp>>

\* Mutant: a denial is taken from a vCPU that is not paused, too.
DenyHonouredAlways == "DENY" \in rsp.flags

\* The deny flag requires the vCPU to be paused.
DenyHonoured == "DENY" \in rsp.flags /\ pause_count[rsp.v] # 0

\* Mutant: the cases of the switch over the registers fall through.
ClearedFallThrough == Regs

\* The write that is taken back: that of the register the answer names.
Cleared == {rsp.event} \cap Regs

vm_event_register_write_resume ==
    /\ Call("register_write_resume")
    /\ IF DenyHonoured
       THEN /\ vm_event' = [vm_event EXCEPT ![rsp.v].do_write = @ \ Cleared]
            /\ denied' = [denied EXCEPT ![rsp.v] =
                            @ \cup ({rsp.event} \cap Regs \cap asked[rsp.v])]
            /\ leftover' = [leftover EXCEPT ![rsp.v] = @ \ {rsp.event}]
       ELSE UNCHANGED <<vm_event, denied, leftover>>
    /\ UNCHANGED supplied

\* p2m_mem_access_emulate_check: never.
p2m_mem_access_emulate_check == FALSE

\* Mutant: the flags are taken over from every answer to a breakpoint, its
\* data only if there is any.
EmulatedMixed(c) ==
    IF "EMULATE" \notin rsp.flags THEN [c EXCEPT !.emulate_flags = {}]
    ELSE IF rsp.event \in Reasons
         THEN [c EXCEPT !.emulate_flags = rsp.flags]
         ELSE c

\* vm_event_emulate_check: the arch_vm_event it leaves.
Emulated(c) ==
    LET read == [c EXCEPT
            !.emul = IF "SET_EMUL_READ_DATA" \in rsp.flags THEN "read" ELSE @,
            !.emulate_flags = rsp.flags]
    IN  CASE "EMULATE" \notin rsp.flags -> [c EXCEPT !.emulate_flags = {}]
          [] /\ "EMULATE" \in rsp.flags
             /\ \/ rsp.event = "descriptor_access"
                \/ rsp.event = "mem_access" /\ p2m_mem_access_emulate_check ->
                read
          [] /\ {"EMULATE", "SET_EMUL_INSN_DATA"} \subseteq rsp.flags
             /\ rsp.event = "software_breakpoint" ->
                [c EXCEPT !.emul = "insn", !.emulate_flags = rsp.flags]
          [] OTHER -> c

\* The data for its event that an answer comes with.
Data == CASE rsp.event = "descriptor_access" /\ "SET_EMUL_READ_DATA" \in rsp.flags -> "read"
          [] rsp.event = "software_breakpoint" /\ "SET_EMUL_INSN_DATA" \in rsp.flags -> "insn"
          [] OTHER -> "none"

\* An answer that asks for emulation replaces what another has asked for.
InForce == rsp.event = "descriptor_access" \/ Data # "none"

vm_event_emulate_check ==
    /\ Call("emulate_check")
    /\ vm_event' = [vm_event EXCEPT ![rsp.v] = Emulated(@)]
    /\ supplied' = [supplied EXCEPT ![rsp.v] =
            IF "EMULATE" \notin rsp.flags THEN "none"
            ELSE IF InForce THEN Data ELSE @]
    /\ UNCHANGED <<denied, leftover>>

\* With its last call made, an answer to an outstanding event lets the vCPU
\* go on.
AnswerDone ==
    /\ rsp # NoRsp
    /\ todo = {}
    /\ rsp' = NoRsp
    /\ IF rsp.late
       THEN UNCHANGED <<pause_count, open>>
       ELSE /\ pause_count' = [pause_count EXCEPT ![rsp.v] = @ - 1]
            /\ open' = [open EXCEPT ![rsp.v] = @ \ {rsp.event}]
    /\ UNCHANGED <<domVars, vm_event, pc, asked, history, todo>>

-----------------------------------------------------------------------------
DomctlStep == \E v \in Vcpus : InitVcpu(v) \/ InitFails(v) \/ CleanupVcpu(v)

GuestStep ==
    \E v \in Vcpus :
        \/ \E e \in Events : Trap(v, e)
        \/ Stop(v)
        \/ Resume(v)

AnswerStep ==
    \/ \E v \in Vcpus, e \in Events, f \in AnswerFlags : TakeAnswer(v, e, f)
    \/ vm_event_register_write_resume
    \/ vm_event_emulate_check
    \/ AnswerDone

Next == DomctlStep \/ GuestStep \/ AnswerStep

Spec == Init /\ [][Next]_vars

-----------------------------------------------------------------------------
(* Properties *)

\* No function finds a NULL arch_vm_event: a vCPU that traps, waits or is
\* being answered has one, although vm_event_init_domain may fail half way,
\* be repeated, and be followed by a cleanup.
NoNullDereference ==
    /\ \A v \in Vcpus : pc[v] # "guest" => v \in present
    /\ rsp # NoRsp => rsp.v \in present

\* As many structures are allocated as vCPUs point to: a repeated init or
\* cleanup leaks and frees nothing twice.
NoLeak == live = Cardinality(present)

\* What a vCPU will write when it resumes is what it trapped for, less what
\* was denied, and what malloc left there (line 309), unless that was denied
\* too: no answer, init or cleanup in between adds or loses a write.
WritesAsAnswered ==
    \A v \in Vcpus :
        pc[v] # "guest" =>
            vm_event[v].do_write = ((asked[v] \cap Regs) \ denied[v]) \cup leftover[v]

\* A vCPU writes only what it trapped for, as it would with the xzalloc of the
\* comment in line 308.
WritesTrapped == \A v \in Vcpus : pc[v] # "guest" => vm_event[v].do_write \subseteq asked[v]

\* Once its last answer has let a vCPU go, a repeated answer changes nothing
\* in what it will write.
AnswerStands ==
    [][\A v \in Vcpus :
          pc[v] = "stopped" /\ pause_count[v] = 0 /\ pc'[v] = "stopped"
              => vm_event'[v].do_write = vm_event[v].do_write]_vars

\* The data a monitor supplies for an event is used: it is in the union, and
\* announced by emulate_flags, until another answer replaces it or the vCPU
\* resumes - whatever flags come with the answers in between, and to which
\* events.  (An answer may still announce data it does not supply.)
EmulDataKept ==
    \A v \in Vcpus :
        supplied[v] # "none" =>
            /\ vm_event[v].emul = supplied[v]
            /\ (IF supplied[v] = "read" THEN "SET_EMUL_READ_DATA" ELSE "SET_EMUL_INSN_DATA")
                    \in vm_event[v].emulate_flags
=============================================================================
