---------------------------- MODULE MCThreadComm ----------------------------
(* Three calling threads and two table entries: a receiver can be woken    *)
(* while its entry is given to another thread, and a newcomer can take the *)
(* message a sleeper was woken for.                                        *)
EXTENDS ThreadComm, TLC
CONSTANTS c1, c2, c3
MCCallers == {c1, c2, c3}
CallerSymmetry == Permutations(MCCallers)
=============================================================================
