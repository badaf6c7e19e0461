-------------------------- MODULE GroupSetAbstract --------------------------
(***************************************************************************)
(* What a group set promises its users, whatever the locking inside:       *)
(* each registry is a set of kernel delivery groups that starts empty     *)
(* when created, only ever grows, one group at a time and only by a group *)
(* the kernel has, and is dropped as a whole when freed. Operations that   *)
(* read it (foreach, empty) and failed insertions change nothing.          *)
(***************************************************************************)
CONSTANTS
  GroupSets,  \* the registries
  Keys,       \* the (partition, topic) pairs the kernel may create groups for
  GroupOf     \* the group of each pair

VARIABLES
  live,       \* live[r]: registry r exists
  entries,    \* entries[r]: the groups in r
  kgroups     \* the pairs the kernel has created a group for

avars == <<live, entries, kgroups>>

\* The groups the kernel has.
Existing == {GroupOf[k] : k \in kgroups}

AInit ==
  /\ live = [r \in GroupSets |-> FALSE]
  /\ entries = [r \in GroupSets |-> {}]
  /\ kgroups = {}

ACreateGroup(k) ==
  /\ k \notin kgroups
  /\ kgroups' = kgroups \cup {k}
  /\ UNCHANGED <<live, entries>>

ANew(r) ==
  /\ ~live[r]
  /\ live' = [live EXCEPT ![r] = TRUE]
  /\ entries' = [entries EXCEPT ![r] = {}]
  /\ UNCHANGED kgroups

AFree(r) ==
  /\ live[r]
  /\ live' = [live EXCEPT ![r] = FALSE]
  /\ entries' = [entries EXCEPT ![r] = {}]
  /\ UNCHANGED kgroups

AInsert(r, g) ==
  /\ live[r]
  /\ g \in Existing \ entries[r]
  /\ entries' = [entries EXCEPT ![r] = @ \cup {g}]
  /\ UNCHANGED <<live, kgroups>>

ANext ==
  \/ \E k \in Keys : ACreateGroup(k)
  \/ \E r \in GroupSets : ANew(r) \/ AFree(r) \/ \E g \in Existing : AInsert(r, g)

ASpec == AInit /\ [][ANext]_avars

=============================================================================
