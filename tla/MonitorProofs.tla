--------------------------- MODULE MonitorProofs ---------------------------
(***************************************************************************)
(* Pauses balance and a running domain finds settled settings, for any     *)
(* registers, MSRs and masks.                                              *)
(***************************************************************************)
EXTENDS Monitor, TLAPS

CtrlregPcs == {"sync", "onchangeonly", "mask", "enabled"}
TogglePcs == {"toggle", "debug_sync"}
MsrPcs == {"msr_pause", "msr_check", "msr_set"}

\* Which requests reach which statements.
RequestAt ==
    /\ mpc = "pause" => mop \in CtrlregOps \/ mop.event \in Toggles
    /\ mpc \in CtrlregPcs => mop \in CtrlregOps
    /\ mpc \in TogglePcs => mop.event \in Toggles
    /\ mpc = "debug_sync" => mop.event = "debug_exception"
    /\ mpc \in MsrPcs => mop \in MsrOps
    /\ mpc = "check" => mop \notin MsrOps

\* What the statements executed so far have written.
WrittenAt ==
    /\ mpc \in {"onchangeonly", "mask", "enabled"} =>
          monitor.write_ctrlreg_sync =
              Put(monitor.write_ctrlreg_sync, Bit, mop.sync)
    /\ mpc \in {"mask", "enabled"} =>
          monitor.write_ctrlreg_onchangeonly =
              Put(monitor.write_ctrlreg_onchangeonly, Bit, mop.onchangeonly)
    /\ mpc = "enabled" =>
          monitor.write_ctrlreg_mask[mop.index] =
              IF mop.enable THEN mop.bitmask ELSE 0
    /\ mpc = "debug_sync" =>
          monitor.enabled = Put(monitor.enabled, mop.event, mop.enable)

\* The rest of a request completes what it makes of the settings at once;
\* elsewhere there is nothing left to complete.
SettledAt ==
    IF mpc \in CtrlregPcs \cup TogglePcs THEN settled = Applied(monitor, mop)
    ELSE monitor = settled

IInv == MonitorTypeOK /\ PausesBalanced /\ RequestAt /\ WrittenAt /\ SettledAt

-----------------------------------------------------------------------------
\* Setting or clearing a bit again changes nothing.
LEMMA PutTwice ==
    ASSUME NEW S, NEW bits \in SUBSET S, NEW bit \in S, NEW on \in BOOLEAN
    PROVE  /\ Put(bits, bit, on) \in SUBSET S
           /\ Put(Put(bits, bit, on), bit, on) = Put(bits, bit, on)
  BY DEF Put

\* A request for a control register changes four settings.
LEMMA AppliedCtrlreg ==
    ASSUME NEW s \in Settings, NEW m \in CtrlregOps, NEW bit,
           bit = monitor_ctrlreg_bitmask(m.index)
    PROVE  /\ bit \in Bits
           /\ Applied(s, m) \in Settings
           /\ Applied(s, m) =
                 [write_ctrlreg_sync |-> Put(s.write_ctrlreg_sync, bit, m.sync),
                  write_ctrlreg_onchangeonly |->
                      Put(s.write_ctrlreg_onchangeonly, bit, m.onchangeonly),
                  write_ctrlreg_enabled |->
                      Put(s.write_ctrlreg_enabled, bit, m.enable),
                  write_ctrlreg_mask |->
                      [s.write_ctrlreg_mask EXCEPT ![m.index] =
                          IF m.enable THEN m.bitmask ELSE 0],
                  enabled |-> s.enabled,
                  debug_exception_sync |-> s.debug_exception_sync]
<1>1. /\ m.event = "write_ctrlreg" /\ m.enable \in BOOLEAN /\ m.sync \in BOOLEAN
      /\ m.onchangeonly \in BOOLEAN /\ m.index \in Crs /\ m.bitmask \in Masks
  BY DEF CtrlregOps
<1>2. bit \in Bits
  BY DEF Bits, monitor_ctrlreg_bitmask
<1>3. Applied(s, m) = [s EXCEPT
                !.write_ctrlreg_sync = Put(@, bit, m.sync),
                !.write_ctrlreg_onchangeonly = Put(@, bit, m.onchangeonly),
                !.write_ctrlreg_mask[m.index] =
                    IF m.enable THEN m.bitmask ELSE 0,
                !.write_ctrlreg_enabled = Put(@, bit, m.enable)]
  BY <1>1 DEF Applied
<1> DEFINE mask == [s.write_ctrlreg_mask EXCEPT ![m.index] =
                          IF m.enable THEN m.bitmask ELSE 0]
           A == [write_ctrlreg_sync |-> Put(s.write_ctrlreg_sync, bit, m.sync),
                 write_ctrlreg_onchangeonly |->
                      Put(s.write_ctrlreg_onchangeonly, bit, m.onchangeonly),
                 write_ctrlreg_enabled |->
                      Put(s.write_ctrlreg_enabled, bit, m.enable),
                 write_ctrlreg_mask |-> mask,
                 enabled |-> s.enabled,
                 debug_exception_sync |-> s.debug_exception_sync]
<1>4. Applied(s, m) = A
  BY <1>3 DEF Settings
<1>5. mask \in [Crs -> Masks]
  BY <1>1, MasksAssumption DEF Settings
<1>6. A \in Settings
  <2> HIDE DEF mask
  <2> QED
    BY <1>1, <1>2, <1>5, PutTwice DEF Settings
<1> QED
  BY <1>2, <1>4, <1>6

\* A request for an event with a single setting changes that one, and the
\* debug exception a second one.
LEMMA AppliedToggle ==
    ASSUME NEW s \in Settings, NEW m \in Ops, m.event \in Toggles
    PROVE  /\ m.enable \in BOOLEAN /\ m.sync \in BOOLEAN
           /\ m.event # "debug_exception" =>
                 Applied(s, m) = [s EXCEPT !.enabled = Put(@, m.event, m.enable)]
           /\ m.event = "debug_exception" =>
                 Applied(s, m) = [s EXCEPT
                                    !.enabled = Put(@, m.event, m.enable),
                                    !.debug_exception_sync = m.enable /\ m.sync]
           /\ Applied(s, m) \in Settings
<1>1. m \in ToggleOps
  BY DEF Ops, CtrlregOps, MsrOps, Toggles
<1>2. m.event # "write_ctrlreg" /\ m.enable \in BOOLEAN /\ m.sync \in BOOLEAN
  BY <1>1 DEF ToggleOps, Toggles
<1>3. m.event # "debug_exception" =>
         Applied(s, m) = [s EXCEPT !.enabled = Put(@, m.event, m.enable)]
  BY <1>2 DEF Applied
<1>4. m.event = "debug_exception" =>
         Applied(s, m) = [s EXCEPT
                            !.enabled = Put(@, m.event, m.enable),
                            !.debug_exception_sync = m.enable /\ m.sync]
  BY <1>2 DEF Applied
<1>5. Put(s.enabled, m.event, m.enable) \in SUBSET Toggles
  BY <1>2, PutTwice DEF Settings
<1> QED
  BY <1>2, <1>3, <1>4, <1>5 DEF Settings

-----------------------------------------------------------------------------
LEMMA InitIInv == MonitorInit => IInv
<1> SUFFICES ASSUME MonitorInit PROVE IInv
  OBVIOUS
<1>1. NoSettings \in Settings
  BY MasksAssumption DEF NoSettings, Settings
<1>2. NoOp \in Ops
  BY DEF NoOp, Ops, ToggleOps
<1>3. MonitorTypeOK
  <2>1. reply \in [rc : Results, was : BOOLEAN, asked : BOOLEAN]
    BY DEF MonitorInit, Results
  <2>2. bitmap \in BOOLEAN
    BY Zenon DEF MonitorInit
  <2> QED
    BY <1>1, <1>2, <2>1, <2>2 DEF MonitorInit, MonitorTypeOK, Pcs
<1>4. PausesBalanced /\ RequestAt /\ WrittenAt /\ SettledAt
  BY DEF MonitorInit, PausesBalanced, RequestAt, WrittenAt, SettledAt, CtrlregPcs,
         TogglePcs, MsrPcs
<1> QED
  BY <1>3, <1>4 DEF IInv

\* A statement that writes one setting of a control register.
LEMMA WriteCtrlregIInv ==
    IInv /\ (WriteSync \/ WriteOnchangeonly \/ WriteMask \/ WriteEnabled) => IInv'
<1> SUFFICES ASSUME IInv,
                    WriteSync \/ WriteOnchangeonly \/ WriteMask \/ WriteEnabled
             PROVE  IInv'
  OBVIOUS
<1> DEFINE bit == monitor_ctrlreg_bitmask(mop.index)
<1> USE DEF Write, Goto
<1>1. /\ mpc \in CtrlregPcs /\ mop \in CtrlregOps /\ monitor \in Settings
      /\ mop' = mop /\ settled' = settled /\ paused' = paused
      /\ bitmap' = bitmap /\ msrs' = msrs /\ onchange' = onchange /\ reply' = reply
      /\ settled = Applied(monitor, mop) /\ settled \in Settings
  BY DEF IInv, MonitorTypeOK, RequestAt, SettledAt, CtrlregPcs, WriteSync,
         WriteOnchangeonly, WriteMask, WriteEnabled
<1>2. /\ mop.enable \in BOOLEAN /\ mop.sync \in BOOLEAN
      /\ mop.onchangeonly \in BOOLEAN /\ mop.index \in Crs /\ mop.bitmask \in Masks
      /\ bit \in Bits
  BY <1>1 DEF CtrlregOps, Bits, monitor_ctrlreg_bitmask
<1>3. monitor' \in Settings
  BY <1>1, <1>2, MasksAssumption DEF WriteSync, WriteOnchangeonly, WriteMask,
     WriteEnabled, Settings, Put, Bit
<1>4. Applied(monitor', mop) = settled
  <2> DEFINE A(s) ==
                 [write_ctrlreg_sync |-> Put(s.write_ctrlreg_sync, bit, mop.sync),
                  write_ctrlreg_onchangeonly |->
                      Put(s.write_ctrlreg_onchangeonly, bit, mop.onchangeonly),
                  write_ctrlreg_enabled |->
                      Put(s.write_ctrlreg_enabled, bit, mop.enable),
                  write_ctrlreg_mask |->
                      [s.write_ctrlreg_mask EXCEPT ![mop.index] =
                          IF mop.enable THEN mop.bitmask ELSE 0],
                  enabled |-> s.enabled,
                  debug_exception_sync |-> s.debug_exception_sync]
  <2>1. Applied(monitor', mop) = A(monitor') /\ settled = A(monitor)
    BY <1>1, <1>3, AppliedCtrlreg
  <2>2. A(monitor') = A(monitor)
    BY <1>1, <1>2 DEF WriteSync, WriteOnchangeonly, WriteMask, WriteEnabled,
       Settings, Put, Bit
  <2> QED
    BY <2>1, <2>2
<1>5. MonitorTypeOK'
  BY <1>1, <1>3 DEF IInv, MonitorTypeOK, Pcs, WriteSync, WriteOnchangeonly, WriteMask,
     WriteEnabled
<1>6. PausesBalanced'
  BY <1>1 DEF IInv, PausesBalanced, WriteSync, WriteOnchangeonly, WriteMask,
     WriteEnabled
<1>7. RequestAt'
  BY <1>1 DEF IInv, RequestAt, WriteSync, WriteOnchangeonly, WriteMask,
     WriteEnabled, CtrlregPcs, TogglePcs, MsrPcs
<1>8. WrittenAt'
  BY <1>1, <1>2 DEF IInv, WrittenAt, WriteSync, WriteOnchangeonly, WriteMask,
     WriteEnabled, Put, Bit, Settings
<1>9. SettledAt'
  <2>1. CASE ~ WriteEnabled
    BY <1>1, <1>4, <2>1 DEF SettledAt, WriteSync, WriteOnchangeonly, WriteMask,
       CtrlregPcs, TogglePcs
  <2>2. CASE WriteEnabled
    <3>1. /\ monitor.write_ctrlreg_sync = Put(monitor.write_ctrlreg_sync, bit, mop.sync)
          /\ monitor.write_ctrlreg_onchangeonly =
                Put(monitor.write_ctrlreg_onchangeonly, bit, mop.onchangeonly)
          /\ monitor.write_ctrlreg_mask =
                [monitor.write_ctrlreg_mask EXCEPT ![mop.index] =
                    IF mop.enable THEN mop.bitmask ELSE 0]
      BY <1>1, <1>2, <2>2 DEF IInv, WrittenAt, WriteEnabled, Bit, Settings
    <3>2. monitor' = [monitor EXCEPT !.write_ctrlreg_enabled = Put(@, bit, mop.enable)]
      BY <2>2 DEF WriteEnabled, Bit
    <3>3. settled =
                 [write_ctrlreg_sync |-> monitor.write_ctrlreg_sync,
                  write_ctrlreg_onchangeonly |-> monitor.write_ctrlreg_onchangeonly,
                  write_ctrlreg_enabled |->
                      Put(monitor.write_ctrlreg_enabled, bit, mop.enable),
                  write_ctrlreg_mask |-> monitor.write_ctrlreg_mask,
                  enabled |-> monitor.enabled,
                  debug_exception_sync |-> monitor.debug_exception_sync]
      BY <1>1, <3>1, AppliedCtrlreg
    <3>4. monitor' = settled
      BY <1>1, <3>2, <3>3 DEF Settings
    <3> QED
      BY <1>1, <2>2, <3>4 DEF SettledAt, WriteEnabled, CtrlregPcs, TogglePcs
  <2> QED
    BY <2>1, <2>2
<1> QED
  BY <1>5, <1>6, <1>7, <1>8, <1>9 DEF IInv

\* A statement that writes the setting of one of the other events.
LEMMA WriteToggleIInv == IInv /\ (WriteToggle \/ WriteDebugSync) => IInv'
<1> SUFFICES ASSUME IInv, WriteToggle \/ WriteDebugSync PROVE IInv'
  OBVIOUS
<1> USE DEF Write, Goto
<1>1. /\ mpc \in TogglePcs /\ mop \in Ops /\ mop.event \in Toggles
      /\ monitor \in Settings /\ settled = Applied(monitor, mop)
      /\ mop' = mop /\ settled' = settled /\ paused' = paused
      /\ bitmap' = bitmap /\ msrs' = msrs /\ onchange' = onchange /\ reply' = reply
  BY DEF IInv, MonitorTypeOK, RequestAt, SettledAt, TogglePcs, WriteToggle, WriteDebugSync
<1>2. mop.enable \in BOOLEAN /\ mop.sync \in BOOLEAN
  BY <1>1, AppliedToggle
<1>3. Put(monitor.enabled, mop.event, mop.enable) \in SUBSET Toggles
  BY <1>1, <1>2, PutTwice DEF Settings
<1>4. monitor' \in Settings
  BY <1>1, <1>2, <1>3 DEF WriteToggle, WriteDebugSync, Settings
<1> DEFINE both == mop.enable /\ mop.sync
           put == Put(monitor.enabled, mop.event, mop.enable)
<1>5. MonitorTypeOK'
  BY <1>1, <1>4 DEF IInv, MonitorTypeOK, Pcs, WriteToggle, WriteDebugSync
<1>6. PausesBalanced'
  BY <1>1 DEF IInv, PausesBalanced, WriteToggle, WriteDebugSync
<1>7. RequestAt'
  BY <1>1 DEF IInv, RequestAt, WriteToggle, WriteDebugSync, CtrlregPcs,
     TogglePcs, MsrPcs
<1>8. WrittenAt'
  BY <1>1, <1>2 DEF WrittenAt, WriteToggle, WriteDebugSync, Put, Settings
<1>9. SettledAt'
  <2>1. CASE WriteToggle /\ mop.event # "debug_exception"
    BY <1>1, <2>1, AppliedToggle DEF SettledAt, WriteToggle, CtrlregPcs, TogglePcs
  <2>2. CASE WriteToggle /\ mop.event = "debug_exception"
    <3>1. Applied(monitor', mop) = settled
      <4>1. monitor' = [monitor EXCEPT !.enabled = put]
        BY <2>2 DEF WriteToggle
      <4>2. settled = [monitor EXCEPT !.enabled = put, !.debug_exception_sync = both]
        BY <1>1, <2>2, AppliedToggle
      <4>3. Applied(monitor', mop) =
              [monitor' EXCEPT !.enabled = Put(@, mop.event, mop.enable),
                               !.debug_exception_sync = both]
        BY <1>1, <1>4, <2>2, AppliedToggle
      <4>4. Put(put, mop.event, mop.enable) = put
        BY <1>1, <1>2, PutTwice DEF Settings
      <4> HIDE DEF both, put
      <4>5. monitor'.enabled = put
        BY <1>1, <4>1 DEF Settings
      <4> QED
        BY <1>1, <4>1, <4>2, <4>3, <4>4, <4>5 DEF Settings
    <3> QED
      BY <1>1, <2>2, <3>1 DEF SettledAt, WriteToggle, CtrlregPcs, TogglePcs
  <2>3. CASE WriteDebugSync
    <3>1. /\ mop.event = "debug_exception"
          /\ monitor.enabled = Put(monitor.enabled, mop.event, mop.enable)
      BY <1>1, <2>3 DEF IInv, RequestAt, WrittenAt, WriteDebugSync
    <3>2. monitor' = settled
      <4>1. monitor' = [monitor EXCEPT !.debug_exception_sync = both]
        BY <2>3 DEF WriteDebugSync
      <4>2. settled = [monitor EXCEPT !.enabled = put, !.debug_exception_sync = both]
        BY <1>1, <3>1, AppliedToggle
      <4>3. monitor.enabled = put
        BY <3>1
      <4> HIDE DEF both, put
      <4> QED
        BY <1>1, <4>1, <4>2, <4>3 DEF Settings
    <3> QED
      BY <1>1, <2>3, <3>2 DEF SettledAt, WriteDebugSync, CtrlregPcs, TogglePcs
  <2> QED
    BY <2>1, <2>2, <2>3
<1> QED
  BY <1>5, <1>6, <1>7, <1>8, <1>9 DEF IInv

LEMMA StatusBoolean == Status \in BOOLEAN
<1>1. CASE mop.event = "write_ctrlreg"
  <2>1. Status = (Bit \in monitor.write_ctrlreg_enabled)
    BY <1>1 DEF Status
  <2> QED
    BY <2>1
<1>2. CASE mop.event = "mov_to_msr"
  <2>1. Status = (bitmap /\ mop.msr \in msrs)
    BY <1>2 DEF Status
  <2> QED
    BY <2>1
<1>3. CASE mop.event # "write_ctrlreg" /\ mop.event # "mov_to_msr"
  <2>1. Status = (mop.event \in monitor.enabled)
    BY <1>3 DEF Status
  <2> QED
    BY <2>1
<1> QED
  BY <1>1, <1>2, <1>3

\* The requests have their fields; only MSR requests name that event.
LEMMA OpFields ==
    ASSUME NEW m \in Ops
    PROVE  /\ m.enable \in BOOLEAN
           /\ m.event = "write_ctrlreg" <=> m \in CtrlregOps
           /\ m.event = "mov_to_msr" <=> m \in MsrOps
           /\ m.event \in Toggles \cup {"unknown", "write_ctrlreg", "mov_to_msr"}
  BY DEF Ops, CtrlregOps, MsrOps, ToggleOps, Toggles

LEMMA NextIInv == IInv /\ [MonitorNext]_monitorVars => IInv'
<1> SUFFICES ASSUME IInv, [MonitorNext]_monitorVars PROVE IInv'
  OBVIOUS
<1> USE DEF Goto
<1>0. /\ mop \in Ops /\ monitor \in Settings /\ settled \in Settings
      /\ mop.enable \in BOOLEAN /\ Status \in BOOLEAN
  BY OpFields, StatusBoolean DEF IInv, MonitorTypeOK
<1>1. CASE arch_monitor_init_domain
  <2>1. bitmap' \in BOOLEAN
    BY <1>1 DEF arch_monitor_init_domain, IInv, MonitorTypeOK
  <2>2. reply' \in [rc : Results, was : BOOLEAN, asked : BOOLEAN]
    BY <1>1, <2>1 DEF arch_monitor_init_domain, IInv, MonitorTypeOK, Results
  <2> QED
    BY <1>1, <2>1, <2>2 DEF arch_monitor_init_domain, IInv, MonitorTypeOK,
       PausesBalanced, RequestAt, WrittenAt, SettledAt, CtrlregPcs, TogglePcs,
       MsrPcs
<1>2. CASE arch_monitor_cleanup_domain
  <2>1. NoSettings \in Settings
    BY MasksAssumption DEF NoSettings, Settings
  <2>2. bitmap' \in BOOLEAN
    BY <1>2, Zenon DEF arch_monitor_cleanup_domain
  <2> QED
    BY <1>2, <2>1, <2>2 DEF arch_monitor_cleanup_domain, IInv, MonitorTypeOK,
       PausesBalanced, RequestAt, WrittenAt, SettledAt, CtrlregPcs, TogglePcs,
       MsrPcs
<1>3. CASE \E m \in Ops : Request(m)
  <2>1. PICK m \in Ops : Request(m)
    BY <1>3
  <2>2. m.event = "mov_to_msr" <=> m \in MsrOps
    BY OpFields
  <2> QED
    BY <2>1, <2>2 DEF Request, IInv, MonitorTypeOK, Pcs, PausesBalanced, RequestAt,
       WrittenAt, SettledAt, CtrlregPcs, TogglePcs, MsrPcs
<1>4. CASE Invalid \/ Unsupported \/ Exists
  <2>1. reply' \in [rc : Results, was : BOOLEAN, asked : BOOLEAN]
    BY <1>0, <1>4 DEF Invalid, Unsupported, Exists, Answer, Results
  <2> QED
    BY <1>4, <2>1 DEF Invalid, Unsupported, Exists, IInv, MonitorTypeOK, Pcs,
       PausesBalanced, RequestAt, WrittenAt, SettledAt, CtrlregPcs, TogglePcs,
       MsrPcs
<1>5. CASE Accepted
  <2>1. mop \in CtrlregOps \/ mop.event \in Toggles
    BY <1>0, <1>5, OpFields DEF Accepted, IInv, RequestAt
  <2> QED
    BY <1>5, <2>1 DEF Accepted, IInv, MonitorTypeOK, Pcs, PausesBalanced, RequestAt,
       WrittenAt, SettledAt, CtrlregPcs, TogglePcs, MsrPcs
<1>6. CASE Pause
  <2> USE DEF Pause, domain_pause
  <2>1. CASE mpc = "pause" /\ mop.event = "write_ctrlreg"
    <3>1. mop \in CtrlregOps /\ Applied(monitor, mop) \in Settings
      BY <1>0, <2>1, OpFields, AppliedCtrlreg
    <3> QED
      BY <1>6, <2>1, <3>1 DEF IInv, MonitorTypeOK, Pcs, PausesBalanced, RequestAt,
         WrittenAt, SettledAt, CtrlregPcs, TogglePcs, MsrPcs, Toggles
  <2>2. CASE mpc = "pause" /\ mop.event \in Toggles
    <3>1. Applied(monitor, mop) \in Settings
      BY <1>0, <2>2, AppliedToggle
    <3> QED
      BY <1>6, <2>2, <3>1 DEF IInv, MonitorTypeOK, Pcs, PausesBalanced, RequestAt,
         WrittenAt, SettledAt, CtrlregPcs, TogglePcs, MsrPcs, Toggles
  <2>3. CASE mpc = "msr_pause"
    <3>1. mop \in MsrOps /\ mop.event = "mov_to_msr"
      BY <1>0, <2>3, OpFields DEF IInv, RequestAt, MsrPcs
    <3> QED
      BY <1>6, <2>3, <3>1 DEF IInv, MonitorTypeOK, Pcs, PausesBalanced, RequestAt,
         WrittenAt, SettledAt, CtrlregPcs, TogglePcs, MsrPcs
  <2> QED
    BY <1>6, <2>1, <2>2, <2>3
<1>7. CASE WriteSync \/ WriteOnchangeonly \/ WriteMask \/ WriteEnabled
  BY <1>7, WriteCtrlregIInv
<1>8. CASE WriteToggle \/ WriteDebugSync
  BY <1>8, WriteToggleIInv
<1>9. CASE MsrExists
  <2>1. reply' \in [rc : Results, was : BOOLEAN, asked : BOOLEAN]
    BY <1>0, <1>9 DEF MsrExists, Answer, Results
  <2> QED
    BY <1>9, <2>1 DEF MsrExists, IInv, MonitorTypeOK, Pcs, PausesBalanced, RequestAt,
       WrittenAt, SettledAt, CtrlregPcs, TogglePcs, MsrPcs
<1>10. CASE MsrAccepted
  BY <1>10 DEF MsrAccepted, IInv, MonitorTypeOK, Pcs, PausesBalanced, RequestAt,
     WrittenAt, SettledAt, CtrlregPcs, TogglePcs, MsrPcs
<1>11. CASE MsrSet
  <2>1. MsrResult \in Results
    BY DEF MsrResult, Results
  <2>2. reply' \in [rc : Results, was : BOOLEAN, asked : BOOLEAN]
    BY <1>0, <1>11, <2>1 DEF MsrSet, Answer
  <2>3. mop.msr \in Msrs
    BY <1>11 DEF MsrSet, IInv, RequestAt, MsrPcs, MsrOps
  <2>4. msrs' \in SUBSET Msrs /\ onchange' \in SUBSET Msrs
    BY <1>11, <2>3 DEF MsrSet, IInv, MonitorTypeOK, Put
  <2> QED
    BY <1>11, <2>2, <2>4 DEF MsrSet, IInv, MonitorTypeOK, Pcs, PausesBalanced,
       RequestAt, WrittenAt, SettledAt, CtrlregPcs, TogglePcs, MsrPcs
<1>12. CASE Unpause
  <2>1. reply' \in [rc : Results, was : BOOLEAN, asked : BOOLEAN]
    BY <1>0, <1>12 DEF Unpause, Answer, Results, IInv, MonitorTypeOK
  <2> QED
    BY <1>12, <2>1 DEF Unpause, IInv, MonitorTypeOK, Pcs, PausesBalanced, RequestAt,
       WrittenAt, SettledAt, CtrlregPcs, TogglePcs, MsrPcs
<1>13. CASE UNCHANGED monitorVars
  BY <1>13 DEF monitorVars, IInv, MonitorTypeOK, PausesBalanced, RequestAt, WrittenAt,
     SettledAt, Bit
<1> QED
  BY <1>1, <1>2, <1>3, <1>4, <1>5, <1>6, <1>7, <1>8, <1>9, <1>10, <1>11, <1>12,
     <1>13 DEF MonitorNext

-----------------------------------------------------------------------------
\* Every reachable state satisfies the inductive invariant.
THEOREM Invariance == MonitorSpec => []IInv
  BY InitIInv, NextIInv, PTL DEF MonitorSpec

\* The settings of the domain and the request in progress keep their types.
THEOREM TypeCorrect == MonitorSpec => []MonitorTypeOK
  BY Invariance, PTL DEF IInv

\* Whichever way a request ends, arch_monitor_domctl_event leaves the domain
\* as often unpaused as paused.
THEOREM PausesBalance == MonitorSpec => []PausesBalanced
<1>1. IInv => PausesBalanced
  BY DEF IInv
<1> QED
  BY <1>1, Invariance, PTL

\* A domain that runs never finds the settings of a request half written.
THEOREM RunningSettled == MonitorSpec => []SettledWhileRunning
<1>1. IInv => SettledWhileRunning
  BY DEF IInv, PausesBalanced, SettledAt, SettledWhileRunning, CtrlregPcs,
     TogglePcs
<1> QED
  BY <1>1, Invariance, PTL
=============================================================================
