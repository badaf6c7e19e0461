---------------------------- MODULE MC_GroupSet ----------------------------
(* A small instance of GroupSet for TLC: two threads, two group sets,     *)
(* one topic, the default partition and one concrete partition, each     *)
(* with a group of its own, and a wildcard partition.  One QoS names the  *)
(* concrete partition twice around the wildcard, so that add_group meets  *)
(* a group already in the tree.                                           *)
EXTENDS GroupSet, TLC

CONSTANTS P1, PW, PE, T, gA, gB

MC_Groups == {1, 2}

MC_GroupOf ==
  [k \in KernelKeys |->
     IF k[1] = EmptyPartition THEN 1 ELSE 2]

\* A QoS without a partition list, and one naming P1 twice around PW.
MC_Qoss ==
  {[topic |-> T, partition |-> <<>>],
   [topic |-> T, partition |-> <<P1, PW, P1>>]}

MC_VisitorResults == {-1, 1}

\* Callers union gB into gA, never the other way round.
MC_AddPairs == {<<gA, gB>>}

\* Callers union each set into the other.
MC_AddPairsBoth == {<<gA, gB>>, <<gB, gA>>}

\* Threads are interchangeable: nothing in the code orders them.
MC_Symmetry == Permutations(Threads)
=============================================================================
