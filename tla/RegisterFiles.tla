--------------------------- MODULE RegisterFiles ---------------------------
(***************************************************************************)
(* What the handling of the FPU promises to its guests: every vCPU has     *)
(* registers of its own, which only it writes and from which it reads what *)
(* it wrote last.                                                          *)
(***************************************************************************)
CONSTANTS
    Vcpus,
    Registers,
    Data,
    Reset      \* the contents of a register nobody has written

VARIABLES
    file,      \* the registers of each vCPU
    event      \* the last access: a register changes by an access only

Init ==
    /\ file = [v \in Vcpus |-> [r \in Registers |-> Reset]]
    /\ event = <<>>

Write(v, r, x) ==
    /\ file' = [file EXCEPT ![v][r] = x]
    /\ event' = <<"write", v, r, x>>

Read(v, r) ==
    /\ event' = <<"read", v, r, file[v][r]>>
    /\ UNCHANGED file

\* A new vCPU starts with registers nobody has written.
Create(v) ==
    /\ file' = [file EXCEPT ![v] = [r \in Registers |-> Reset]]
    /\ event' = <<"create", v>>

Next ==
    \E v \in Vcpus :
        \/ Create(v)
        \/ \E r \in Registers :
              Read(v, r) \/ \E x \in Data : Write(v, r, x)

Spec == Init /\ [][Next]_<<file, event>>
=============================================================================
