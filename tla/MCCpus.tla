------------------------------- MODULE MCCpus -------------------------------
(***************************************************************************)
(* What Xen keeps for each CPU, for TLC: its microcode (MicrocodeIntel or  *)
(* AmdContainer, by its vendor), its data area (Percpu) and its FPU (Fpu). *)
(* They share no state, so each behaviour is one of one of them: the       *)
(* others stay where they start.                                           *)
(***************************************************************************)
EXTENDS MicrocodeIntel, AmdContainer, Percpu, Fpu

\* datasize and totalsize: defaulted, exact, with extended signatures, and
\* data larger than the update.
Sizes == {<<0, 0>>, <<1, 2>>, <<2, 3>>, <<1, 3>>, <<2, 2>>, <<0, 1>>}

\* Updates for this CPU and for others in all sizes and revisions, and of
\* each size one with a wrong version and one that does not add up.
MCHeaders ==
    LET Update(sz, s, p, r, v, m) ==
            [sig |-> s, pf |-> p, rev |-> r, valid |-> v, sums |-> m,
             datasize |-> sz[1], totalsize |-> sz[2]]
    IN  {Update(sz, 0, {"p"}, r, TRUE, TRUE) : sz \in Sizes, r \in Revs}
            \cup {Update(sz, 1, {"p"}, 2, TRUE, TRUE) : sz \in Sizes}
            \cup {Update(sz, 0, {}, 2, TRUE, TRUE) : sz \in Sizes}
            \cup {Update(sz, 0, {"p"}, 2, FALSE, TRUE) : sz \in Sizes}
            \cup {Update(sz, 0, {"p"}, 2, TRUE, FALSE) : sz \in Sizes}

VARIABLE part

allVars == <<part, vars, amd, percpuVars, fpuVars>>

MCInit ==
    /\ part \in {"intel", "amd", "percpu", "fpu"}
    /\ Init /\ AmdInit /\ PercpuInit /\ FpuInit
    /\ part # "percpu" => park_offline_cpus
    /\ part # "fpu" => \A p \in Pcpus : \A c \in Components : regs[p][c] = Reset

\* A request that has begun runs on: nothing in it waits.
IntelStep == part = "intel" /\ Step /\ UNCHANGED <<part, amd, percpuVars, fpuVars>>
AmdStep == part = "amd" /\ ForwardTurn /\ UNCHANGED <<part, vars, percpuVars, fpuVars>>

\* RCU runs a callback some time.
RcuStep == part = "percpu" /\ _free_percpu_area /\ UNCHANGED <<part, vars, amd, fpuVars>>

MCNext ==
    \/ IntelStep
    \/ /\ part = "intel" /\ (Begin("update") \/ Begin("resume"))
       /\ UNCHANGED <<part, amd, percpuVars, fpuVars>>
    \/ AmdStep
    \/ part = "amd" /\ ForwardCall /\ UNCHANGED <<part, vars, percpuVars, fpuVars>>
    \/ part = "percpu" /\ PercpuNext /\ UNCHANGED <<part, vars, amd, fpuVars>>
    \/ part = "fpu" /\ FpuNext /\ UNCHANGED <<part, vars, amd, percpuVars>>

MCSpec ==
    /\ MCInit /\ [][MCNext]_allVars
    /\ WF_allVars(IntelStep) /\ WF_allVars(AmdStep) /\ WF_allVars(RcuStep)
=============================================================================
