------------------------------ MODULE Monitor ------------------------------
(***************************************************************************)
(* The monitor domctl of a domain (src/monitor_verified.c): which events   *)
(* of the domain are reported, and how.  The trap code that reads the      *)
(* settings runs whenever the domain is not paused, so a request pauses    *)
(* the domain, writes the settings one by one and unpauses it.             *)
(*                                                                         *)
(* Pausing, the allocator and the trap code are external.                  *)
(***************************************************************************)
EXTENDS Naturals

CONSTANTS
    Crs,        \* control registers of the requests: cr0, cr3, cr4, xcr0
    Msrs,       \* kinds of MSR: low, hypervisor, high, and others
    Masks,      \* the values of a bit mask; 0 is one of them
    DescSupported   \* hvm_funcs.set_descriptor_access_exiting

ASSUME MasksAssumption == 0 \in Masks

\* The events with a single setting.
Toggles == {"singlestep", "inguest_pagefault", "desc_access",
            "software_breakpoint", "debug_exception", "cpuid",
            "emul_unimplemented"}

\* monitor_ctrlreg_bitmask is declared with a bool parameter: register 0 has
\* a bit, all the others share one.
Bits == {"bit0", "bit1"}

monitor_ctrlreg_bitmask(cr) == IF cr = "cr0" THEN "bit0" ELSE "bit1"

CtrlregOps == [event : {"write_ctrlreg"}, enable : BOOLEAN, index : Crs,
               sync : BOOLEAN, onchangeonly : BOOLEAN, bitmask : Masks]
MsrOps == [event : {"mov_to_msr"}, enable : BOOLEAN, msr : Msrs,
           onchangeonly : BOOLEAN]
ToggleOps == [event : Toggles \cup {"unknown"}, enable : BOOLEAN,
              sync : BOOLEAN]
Ops == CtrlregOps \cup MsrOps \cup ToggleOps

Results == {"OK", "EINVAL", "EEXIST", "EOPNOTSUPP", "ENXIO", "ENOMEM"}

Settings ==
    [write_ctrlreg_sync : SUBSET Bits, write_ctrlreg_onchangeonly : SUBSET Bits,
     write_ctrlreg_enabled : SUBSET Bits, write_ctrlreg_mask : [Crs -> Masks],
     enabled : SUBSET Toggles, debug_exception_sync : BOOLEAN]

NoSettings ==
    [write_ctrlreg_sync |-> {}, write_ctrlreg_onchangeonly |-> {},
     write_ctrlreg_enabled |-> {}, write_ctrlreg_mask |-> [c \in Crs |-> 0],
     enabled |-> {}, debug_exception_sync |-> FALSE]

NoOp == [event |-> "unknown", enable |-> FALSE, sync |-> FALSE]

VARIABLES
    monitor,    \* d->arch.monitor, but for the MSRs
    bitmap,     \* msr_bitmap is allocated
    msrs,       \* MSRs whose bit is set in it
    onchange,   \* MSRs whose second bit, onchangeonly, is set
    paused,     \* times the domctl has paused the domain
    mpc,         \* the statement the domctl is at
    mop,        \* its request
    reply,      \* its result, the status it found and the one it was asked for
    settled     \* history: what the accepted requests make of the settings

monitorVars == <<monitor, bitmap, msrs, onchange, paused, mpc, mop, reply, settled>>

Pcs == {"idle", "check", "pause", "sync", "onchangeonly", "mask", "enabled",
        "toggle", "debug_sync", "msr_pause", "msr_check", "msr_set",
        "unpause"}

MonitorTypeOK ==
    /\ monitor \in Settings
    /\ bitmap \in BOOLEAN
    /\ msrs \in SUBSET Msrs
    /\ onchange \in SUBSET Msrs
    /\ paused \in 0..1
    /\ mpc \in Pcs
    /\ mop \in Ops
    /\ reply \in [rc : Results, was : BOOLEAN, asked : BOOLEAN]
    /\ settled \in Settings

MonitorInit ==
    /\ monitor = NoSettings
    /\ bitmap = FALSE
    /\ msrs = {}
    /\ onchange = {}
    /\ paused = 0
    /\ mpc = "idle"
    /\ mop = NoOp
    /\ reply = [rc |-> "OK", was |-> FALSE, asked |-> FALSE]
    /\ settled = NoSettings

-----------------------------------------------------------------------------
Put(bits, bit, on) == IF on THEN bits \cup {bit} ELSE bits \ {bit}

Bit == monitor_ctrlreg_bitmask(mop.index)

\* old_status of a request.
Status ==
    CASE mop.event = "write_ctrlreg" -> Bit \in monitor.write_ctrlreg_enabled
      [] mop.event = "mov_to_msr" -> bitmap /\ mop.msr \in msrs
      [] OTHER -> mop.event \in monitor.enabled

\* if ( !(old_status == requested_status) ) return -EEXIST
Refused == Status # mop.enable

Answer(rc, was) == reply' = [rc |-> rc, was |-> was, asked |-> mop.enable]

\* What a request m that is carried out makes of settings s, all at once.
Applied(s, m) ==
    LET bit == monitor_ctrlreg_bitmask(m.index)
    IN  CASE m.event = "write_ctrlreg" ->
                [s EXCEPT
                    !.write_ctrlreg_sync = Put(@, bit, m.sync),
                    !.write_ctrlreg_onchangeonly = Put(@, bit, m.onchangeonly),
                    !.write_ctrlreg_mask[m.index] =
                        IF m.enable THEN m.bitmask ELSE 0,
                    !.write_ctrlreg_enabled = Put(@, bit, m.enable)]
          [] m.event = "debug_exception" ->
                [s EXCEPT
                    !.enabled = Put(@, m.event, m.enable),
                    !.debug_exception_sync = m.enable /\ m.sync]
          [] OTHER -> [s EXCEPT !.enabled = Put(@, m.event, m.enable)]

-----------------------------------------------------------------------------
(* arch_monitor_init_domain, arch_monitor_cleanup_domain *)

\* The allocation succeeds or not (xzalloc_array is a stand-in for it).
arch_monitor_init_domain ==
    /\ mpc = "idle"
    /\ \E ok \in BOOLEAN : bitmap' = (bitmap \/ ok)
    /\ reply' = [reply EXCEPT !.rc = IF bitmap' THEN "OK" ELSE "ENOMEM",
                              !.was = FALSE, !.asked = FALSE]
    /\ UNCHANGED <<monitor, msrs, onchange, paused, mpc, mop, settled>>

arch_monitor_cleanup_domain ==
    /\ mpc = "idle"
    /\ monitor' = NoSettings
    /\ settled' = NoSettings
    /\ bitmap' = FALSE
    /\ msrs' = {}
    /\ onchange' = {}
    /\ UNCHANGED <<paused, mpc, mop, reply>>

-----------------------------------------------------------------------------
(* arch_monitor_domctl_event, one action per statement *)

Goto(from, to) == mpc = from /\ mpc' = to

Request(m) ==
    /\ Goto("idle", IF m.event = "mov_to_msr" THEN "msr_pause" ELSE "check")
    /\ mop' = m
    /\ UNCHANGED <<monitor, bitmap, msrs, onchange, paused, reply, settled>>

\* unlikely has no return statement, so both of its checks of a control
\* register request may go either way.
Invalid ==
    /\ mop.event = "write_ctrlreg"
    /\ Goto("check", "idle")
    /\ Answer("EINVAL", Status)
    /\ UNCHANGED <<monitor, bitmap, msrs, onchange, paused, mop, settled>>

Unsupported ==
    /\ \/ mop.event = "unknown"
       \/ mop.event = "desc_access" /\ ~Refused /\ ~DescSupported
    /\ Goto("check", "idle")
    /\ Answer("EOPNOTSUPP", Status)
    /\ UNCHANGED <<monitor, bitmap, msrs, onchange, paused, mop, settled>>

Exists ==
    /\ mop.event # "unknown"
    /\ Refused
    /\ Goto("check", "idle")
    /\ Answer("EEXIST", Status)
    /\ UNCHANGED <<monitor, bitmap, msrs, onchange, paused, mop, settled>>

Accepted ==
    /\ mop.event # "unknown"
    /\ mop.event = "desc_access" => DescSupported
    /\ ~Refused
    /\ Goto("check", "pause")
    /\ UNCHANGED <<monitor, bitmap, msrs, onchange, paused, mop, reply,
                   settled>>

\* Mutant: the settings are written without pausing the domain.
domain_pauseNot == UNCHANGED paused

domain_pause == paused' = paused + 1

Pause ==
    /\ \/ mop.event = "write_ctrlreg" /\ Goto("pause", "sync")
       \/ mop.event \in Toggles /\ Goto("pause", "toggle")
       \/ Goto("msr_pause", "msr_check")
    /\ domain_pause
    /\ settled' = IF mop.event = "mov_to_msr" THEN settled ELSE Applied(monitor, mop)
    /\ UNCHANGED <<monitor, bitmap, msrs, onchange, mop, reply>>

\* One setting of the request is written.
Write(from, to, settings) ==
    /\ Goto(from, to)
    /\ monitor' = settings
    /\ UNCHANGED <<bitmap, msrs, onchange, paused, mop, reply, settled>>

WriteSync ==
    Write("sync", "onchangeonly",
          [monitor EXCEPT !.write_ctrlreg_sync = Put(@, Bit, mop.sync)])

WriteOnchangeonly ==
    Write("onchangeonly", "mask",
          [monitor EXCEPT !.write_ctrlreg_onchangeonly =
                                Put(@, Bit, mop.onchangeonly)])

\* Mutant: the mask is not cleared by a request to disable.
WriteMaskAlways ==
    Write("mask", "enabled",
          [monitor EXCEPT !.write_ctrlreg_mask[mop.index] = mop.bitmask])

WriteMask ==
    Write("mask", "enabled",
          [monitor EXCEPT !.write_ctrlreg_mask[mop.index] =
                                IF mop.enable THEN mop.bitmask ELSE 0])

WriteEnabled ==
    Write("enabled", "unpause",
          [monitor EXCEPT !.write_ctrlreg_enabled = Put(@, Bit, mop.enable)])

WriteToggle ==
    Write("toggle",
          IF mop.event = "debug_exception" THEN "debug_sync" ELSE "unpause",
          [monitor EXCEPT !.enabled = Put(@, mop.event, mop.enable)])

WriteDebugSync ==
    Write("debug_sync", "unpause",
          [monitor EXCEPT !.debug_exception_sync = mop.enable /\ mop.sync])

\* Mutant: the early return of the MSR case leaves the domain paused.
MsrExistsPaused ==
    /\ Refused
    /\ Goto("msr_check", "idle")
    /\ Answer("EEXIST", Status)
    /\ UNCHANGED <<monitor, bitmap, msrs, onchange, paused, mop, settled>>

\* The MSR case is the only one that checks with the domain paused.
MsrExists ==
    /\ Refused
    /\ Goto("msr_check", "idle")
    /\ Answer("EEXIST", Status)
    /\ paused' = paused - 1
    /\ UNCHANGED <<monitor, bitmap, msrs, onchange, mop, settled>>

MsrAccepted ==
    /\ ~Refused
    /\ Goto("msr_check", "msr_set")
    /\ UNCHANGED <<monitor, bitmap, msrs, onchange, paused, mop, reply,
                   settled>>

\* monitor_bitmap_for_msr finds a bitmap for three MSRs.
monitor_bitmap_for_msr(m) == m \in {"low", "hypervisor", "high"}

\* monitor_enable_msr, monitor_disable_msr.
MsrResult ==
    CASE ~bitmap -> "ENXIO"
      [] bitmap /\ ~monitor_bitmap_for_msr(mop.msr) -> "EINVAL"
      [] OTHER -> "OK"

MsrSet ==
    /\ Goto("msr_set", "unpause")
    /\ Answer(MsrResult, Status)
    /\ IF MsrResult # "OK" THEN UNCHANGED <<msrs, onchange>>
       ELSE /\ msrs' = Put(msrs, mop.msr, mop.enable)
            /\ onchange' = IF mop.enable
                           THEN Put(onchange, mop.msr, mop.onchangeonly)
                           ELSE onchange
    /\ UNCHANGED <<monitor, bitmap, paused, mop, settled>>

Unpause ==
    /\ Goto("unpause", "idle")
    /\ paused' = paused - 1
    /\ IF mop.event = "mov_to_msr" THEN UNCHANGED reply
       ELSE Answer("OK", mop.enable)
    /\ UNCHANGED <<monitor, bitmap, msrs, onchange, mop, settled>>

MonitorNext ==
    \/ arch_monitor_init_domain \/ arch_monitor_cleanup_domain
    \/ \E m \in Ops : Request(m)
    \/ Invalid \/ Unsupported \/ Exists \/ Accepted
    \/ Pause
    \/ WriteSync \/ WriteOnchangeonly \/ WriteMask \/ WriteEnabled
    \/ WriteToggle \/ WriteDebugSync
    \/ MsrExists \/ MsrAccepted \/ MsrSet
    \/ Unpause

MonitorSpec == MonitorInit /\ [][MonitorNext]_monitorVars

-----------------------------------------------------------------------------
(* Properties *)

\* Whichever way a request ends, the domain is not left paused by it, nor
\* unpaused once too often.
PausesBalanced == paused = IF mpc \in {"idle", "check", "pause", "msr_pause"}
                           THEN 0 ELSE 1

\* The trap code, which runs whenever the domain is not paused, never finds
\* the settings of a request half written: it sees what the requests
\* accepted so far make of them.
SettledWhileRunning == paused = 0 => monitor = settled

\* EEXIST ("File exists"): a request is refused with it only if the status
\* it asks for is already there.
ExistsMeansThere ==
    mpc = "idle" /\ reply.rc = "EEXIST" => reply.was = reply.asked
=============================================================================
