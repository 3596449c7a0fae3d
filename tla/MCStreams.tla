------------------------------- MODULE MCStreams -------------------------------
(* Streams with two threads, descriptors for two pipes, and one call of    *)
(* accept4, fopencookie or fdclose beside the popens.                      *)
EXTENDS Streams, TLC

CONSTANTS t1, t2

MCThreads == {t1, t2}
MCFds == 3..6
Symmetry == Permutations(MCThreads)
================================================================================
