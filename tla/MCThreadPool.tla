---------------------------- MODULE MCThreadPool ----------------------------
(* Instances of ThreadPool for TLC.                                        *)
EXTENDS ThreadPool, TLC

CONSTANTS s1, s2, i1, i2, i3

MCSubmitters == {s1, s2}
MCItems == {i1, i2, i3}

(* The queue limit is changed, the number of threads is not.               *)
QueueConfigs == {[thread_count |-> ThreadCount, max_queue_size |-> n] : n \in {1, 2}}

(* Both are changed.                                                       *)
AllConfigs == [thread_count : 1..MaxThreads, max_queue_size : {1, 2}]

Symmetry == Permutations(MCSubmitters) \cup Permutations(MCItems)
=============================================================================
