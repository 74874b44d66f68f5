----------------------------- MODULE MCVmEvent -----------------------------
(* VmEvent, Monitor and SegmentRegister for TLC.  They share no state, so   *)
(* each behaviour is one of one of them: the others stay where they start.  *)
EXTENDS VmEvent, SegmentRegister, Monitor

VARIABLE part

\* Memory with a register to be written, and data announced that is not there.
\* When a vCPU resumes it is as if it had been zeroed.
MCFresh ==
    {[do_write |-> {"cr3"}, emulate_flags |-> {"EMULATE", "SET_EMUL_READ_DATA"},
      emul |-> "insn", sync_event |-> FALSE]}

\* Answers with flags that fit their event, and that do not.
MCAnswerFlags ==
    {{}, {"DENY"}, {"EMULATE"}, {"EMULATE", "SET_EMUL_READ_DATA"},
     {"EMULATE", "SET_EMUL_INSN_DATA"}}

MCInit ==
    /\ part \in {"vm_event", "segment", "monitor"}
    /\ Init /\ SegInit /\ MonitorInit

MCNext ==
    /\ UNCHANGED part
    /\ \/ part = "vm_event" /\ Next /\ UNCHANGED <<seg, monitorVars>>
       \/ part = "segment" /\ SegNext /\ UNCHANGED <<vars, monitorVars>>
       \/ part = "monitor" /\ MonitorNext /\ UNCHANGED <<vars, seg>>

MCSpec == MCInit /\ [][MCNext]_<<part, vars, seg, monitorVars>>
=============================================================================
