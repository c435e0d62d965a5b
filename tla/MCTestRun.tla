----------------------------- MODULE MCTestRun -----------------------------
(* A QEMU pack with a plain and two poison fixtures, a hosted pack, and a *)
(* pack whose tools are not installed.                                    *)
EXTENDS TestRun
Packs == << [qemu |-> TRUE, tools |-> TRUE, fixtures |-> <<"none", "trap">>],
            [qemu |-> FALSE, tools |-> TRUE, fixtures |-> <<"fail">>],
            [qemu |-> TRUE, tools |-> FALSE, fixtures |-> <<"nocomp">>] >>
=============================================================================
