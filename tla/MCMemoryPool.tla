---------------------------- MODULE MCMemoryPool ----------------------------
(* Instances of MemoryPool for TLC: two classes stand for the four.  A     *)
(* block of the small one has two bytes and of the next one four, so that  *)
(* a request can be smaller than the block it gets, equal to it, or larger *)
(* than every block.                                                       *)
EXTENDS MemoryPool, TLC

CONSTANTS t1, t2

MCBlockSize == <<2, 4>>
MCInitialBlocks == <<1, 1>>
TwoThreads == {t1, t2}

Symmetry == Permutations(TwoThreads)
=============================================================================
