------------------------------ MODULE MCI8259A ------------------------------
(***************************************************************************)
(* I8259A for TLC.  The CPUs are interchangeable: no action prefers one.   *)
(***************************************************************************)
EXTENDS I8259A, TLC

CpuSymmetry == Permutations(CPUs)
=============================================================================
