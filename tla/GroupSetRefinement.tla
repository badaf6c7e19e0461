------------------------- MODULE GroupSetRefinement -------------------------
(***************************************************************************)
(* Proof that the group-set model GroupSet implements GroupSetAbstract     *)
(* (Refines), for every value of the constants: every step of the         *)
(* threads, the kernel and the callers is a step of the abstract registry  *)
(* or leaves the registries and the kernel's groups unchanged.             *)
(***************************************************************************)
EXTENDS GroupSetProofs

\* Every stored group is a group of the kernel.
StoredExist == \A r \in GroupSets : entries[r] \subseteq KernelGroups

\* An operation in progress works on a live registry (nn_groupset_free is
\* called only on a set nobody uses).
OpenFor(t) == ~Idle(t) => live[op[t].gs]

\* The group a thread is about to insert (add_group, add_group_by_name
\* after the lookup, nn_groupset_add_helper) is a group of the kernel.
PendingFor(t) ==
  (pc[t] \in {"ag_lock", "fq_add"} \/ (pc[t] = "fe_walk" /\ op[t].g # NoGroup))
    => op[t].g \in KernelGroups

\* The inductive invariant of the refinement.
RInv ==
  /\ TypeInv
  /\ StoredExist
  /\ \A t \in Threads : OpenFor(t)
  /\ \A t \in Threads : PendingFor(t)

\* The abstract registries are the concrete ones, unchanged.
AStutter == UNCHANGED Abs!avars

-----------------------------------------------------------------------------
(* Two lemmas every action uses.                                           *)

\* add_group into a live registry, with a group of the kernel, is an
\* abstract insertion or (present already, or os_malloc failed) no change.
LEMMA Insertion ==
  ASSUME TypeInv, NEW r \in GroupSets, live[r], NEW g \in KernelGroups,
         NEW o \in AddGroup(entries[r], g),
         entries' = [entries EXCEPT ![r] = o.tree],
         live' = live, kgroups' = kgroups
  PROVE  /\ [Abs!ANext]_Abs!avars
         /\ entries'[r] \subseteq entries[r] \cup {g}
<1>1. CASE o.tree = entries[r]
  <2>1. entries' = entries
    BY <1>1 DEF TypeInv, TypeOK
  <2>2. QED
    BY <1>1, <2>1 DEF Abs!avars, TypeInv, TypeOK
<1>2. CASE o.tree # entries[r]
  <2>1. g \notin entries[r] /\ o.tree = entries[r] \cup {g}
    BY <1>2 DEF AddGroup
  <2>2. Abs!AInsert(r, g)
    BY <2>1 DEF Abs!AInsert, Abs!Existing, KernelGroups, TypeInv, TypeOK
  <2>3. g \in Abs!Existing
    BY DEF Abs!Existing, KernelGroups
  <2>4. QED
    BY <2>1, <2>2, <2>3 DEF Abs!ANext, TypeInv, TypeOK
<1>3. QED
  BY <1>1, <1>2

\* A step of thread t that keeps the registries and the kernel's groups,
\* and that keeps t's own obligations, keeps the invariant.
LEMMA ThreadFrame ==
  ASSUME TypeInv, TypeInv', StoredExist, StoredExist', NEW t \in Threads,
         \A u \in Threads : OpenFor(u), \A u \in Threads : PendingFor(u),
         live' = live, kgroups' = kgroups,
         \A u \in Threads \ {t} : pc'[u] = pc[u] /\ op'[u] = op[u],
         OpenFor(t)', PendingFor(t)'
  PROVE  RInv'
BY DEF RInv, OpenFor, PendingFor, Idle, KernelGroups

\* A step of thread t that leaves the registries and the kernel's groups
\* alone is an abstract stutter and keeps the invariant.
LEMMA ThreadLocal ==
  ASSUME RInv, TypeInv', NEW t \in Threads,
         live' = live, entries' = entries, kgroups' = kgroups,
         \A u \in Threads \ {t} : pc'[u] = pc[u] /\ op'[u] = op[u],
         OpenFor(t)', PendingFor(t)'
  PROVE  RInv' /\ [Abs!ANext]_Abs!avars
<1>1. StoredExist'
  BY DEF RInv, StoredExist, KernelGroups
<1>2. RInv'
  BY <1>1, ThreadFrame DEF RInv
<1>3. QED
  BY <1>2 DEF Abs!avars

-----------------------------------------------------------------------------
(* Each step keeps the invariant and is an abstract step or a stutter.     *)

\* What every step of the model must establish.
StepGoal == RInv' /\ [Abs!ANext]_Abs!avars

LEMMA RefinementStep ==
  RInv /\ [Next]_vars => StepGoal
<1> SUFFICES ASSUME RInv, [Next]_vars PROVE StepGoal
  OBVIOUS
<1>0. TypeInv'
  BY TypeStep DEF RInv
<1> USE DEF RInv, TypeInv, TypeOK
<1>1. ASSUME NEW k \in KernelKeys, KernelCreateGroup(k) PROVE StepGoal
  <2>1. Abs!ACreateGroup(k)
    BY <1>1 DEF KernelCreateGroup, Abs!ACreateGroup
  <2>2. KernelGroups \subseteq KernelGroups'
    BY <1>1 DEF KernelCreateGroup, KernelGroups
  <2>3. RInv'
    BY <1>0, <1>1, <2>2 DEF KernelCreateGroup, StoredExist, OpenFor, PendingFor, Idle
  <2>4. QED
    BY <2>1, <2>3 DEF StepGoal, Abs!ANext
<1>2. ASSUME NEW r \in GroupSets, NewGroupSet(r) PROVE StepGoal
  <2>1. Abs!ANew(r)
    BY <1>2 DEF NewGroupSet, Abs!ANew
  <2>2. RInv'
    BY <1>0, <1>2 DEF NewGroupSet, StoredExist, OpenFor, PendingFor, Idle, KernelGroups
  <2>3. QED
    BY <2>1, <2>2 DEF StepGoal, Abs!ANext
<1>3. ASSUME NEW r \in GroupSets, FreeGroupSet(r) PROVE StepGoal
  <2>1. Abs!AFree(r)
    BY <1>3 DEF FreeGroupSet, Abs!AFree
  <2>2. \A t \in Threads : ~Idle(t) => op[t].gs # r
    BY <1>3 DEF FreeGroupSet, InUse
  <2>3. RInv'
    BY <1>0, <1>3, <2>2 DEF FreeGroupSet, StoredExist, OpenFor, PendingFor, Idle, KernelGroups
  <2>4. QED
    BY <2>1, <2>3 DEF StepGoal, Abs!ANext
<1>4. ASSUME NEW t \in Threads, NEW r \in GroupSets,
             \/ StartEmpty(t, r) \/ StartForeach(t, r)
             \/ \E g \in Groups : StartAddGroup(t, r, g)
             \/ \E q \in Qoss : StartFromQos(t, r, q)
             \/ \E src \in GroupSets : StartAdd(t, r, src)
      PROVE StepGoal
  <2>1. /\ live' = live /\ entries' = entries /\ kgroups' = kgroups
        /\ \A u \in Threads \ {t} : pc'[u] = pc[u] /\ op'[u] = op[u]
        /\ live[r] /\ op'[t].gs = r
        /\ pc'[t] \in {"em_lock", "fe_lock", "fq_lock", "ag_lock"}
        /\ pc'[t] = "ag_lock" => op'[t].g \in KernelGroups
    <3>1. CASE StartEmpty(t, r)
      BY <3>1 DEF StartEmpty, OpInit
    <3>2. CASE StartForeach(t, r)
      BY <3>2 DEF StartForeach, OpInit
    <3>3. CASE \E g \in Groups : StartAddGroup(t, r, g)
      BY <3>3 DEF StartAddGroup, OpInit, KernelGroups
    <3>4. CASE \E q \in Qoss : StartFromQos(t, r, q)
      BY <3>4 DEF StartFromQos, OpInit
    <3>5. CASE \E src \in GroupSets : StartAdd(t, r, src)
      BY <3>5 DEF StartAdd, OpInit
    <3>6. QED
      BY <1>4, <3>1, <3>2, <3>3, <3>4, <3>5
  <2>2. OpenFor(t)' /\ PendingFor(t)'
    BY <2>1 DEF OpenFor, PendingFor, KernelGroups
  <2>3. QED
    BY <1>0, <2>1, <2>2, ThreadLocal DEF StepGoal
<1>5. ASSUME NEW t \in Threads, AddGroupLocked(t) PROVE StepGoal
  <2> DEFINE r == op[t].gs
  <2>1. PICK o \in AddGroup(entries[r], op[t].g) :
               /\ entries' = [entries EXCEPT ![r] = o.tree]
               /\ Return(t, o.res)
    BY <1>5 DEF AddGroupLocked
  <2>2. r \in GroupSets /\ live[r] /\ op[t].g \in KernelGroups
    BY <1>5 DEF AddGroupLocked, OpenFor, PendingFor, Idle, OpRec
  <2>3. [Abs!ANext]_Abs!avars /\ entries'[r] \subseteq entries[r] \cup {op[t].g}
    BY <1>5, <2>1, <2>2, Insertion DEF AddGroupLocked
  <2>4. StoredExist'
    BY <1>5, <2>1, <2>2, <2>3 DEF AddGroupLocked, StoredExist, KernelGroups
  <2>5. /\ \A u \in Threads \ {t} : pc'[u] = pc[u] /\ op'[u] = op[u]
        /\ OpenFor(t)' /\ PendingFor(t)'
    <3>1. o.res \in Int
      BY <1>5, AddGroupType DEF AddGroupLocked, OpRec
    <3>2. pc'[t] = "idle" /\ \A u \in Threads \ {t} : pc'[u] = pc[u] /\ op'[u] = op[u]
      BY <2>1, <3>1, ReturnType
    <3>3. QED
      BY <3>2 DEF OpenFor, PendingFor, Idle
  <2>6. QED
    BY <1>0, <1>5, <2>3, <2>4, <2>5, ThreadFrame DEF AddGroupLocked, StepGoal
<1>6. ASSUME NEW t \in Threads, EmptyLocked(t) \/ FqUnlock(t) \/ FeUnlock(t)
      PROVE StepGoal
  <2>1. PICK res \in Int : Return(t, res)
    BY <1>6 DEF EmptyLocked, FqUnlock, FeUnlock, OpRec
  <2>2. live' = live /\ entries' = entries /\ kgroups' = kgroups
    BY <1>6 DEF EmptyLocked, FqUnlock, FeUnlock
  <2>3. pc'[t] = "idle" /\ \A u \in Threads \ {t} : pc'[u] = pc[u] /\ op'[u] = op[u]
    BY <2>1, ReturnType
  <2>4. OpenFor(t)' /\ PendingFor(t)'
    BY <2>3 DEF OpenFor, PendingFor, Idle
  <2>5. QED
    BY <1>0, <2>2, <2>3, <2>4, ThreadLocal DEF StepGoal
<1>7. ASSUME NEW t \in Threads, FqLock(t) \/ FqSkip(t) PROVE StepGoal
  <2>1. /\ live' = live /\ entries' = entries /\ kgroups' = kgroups
        /\ \A u \in Threads \ {t} : pc'[u] = pc[u] /\ op'[u] = op[u]
        /\ pc'[t] = "fq_next" /\ op'[t].gs = op[t].gs /\ ~Idle(t)
    <3>1. CASE FqLock(t)
      BY <3>1 DEF FqLock, Idle
    <3>2. CASE FqSkip(t)
      BY <3>2 DEF FqSkip, FqLooping, Idle
    <3>3. QED
      BY <1>7, <3>1, <3>2
  <2>2. OpenFor(t)' /\ PendingFor(t)'
    BY <2>1 DEF OpenFor, PendingFor, Idle
  <2>3. QED
    BY <1>0, <2>1, <2>2, ThreadLocal DEF StepGoal
<1>8. ASSUME NEW t \in Threads, FqLookup(t) PROVE StepGoal
  <2>1. /\ live' = live /\ entries' = entries /\ kgroups' = kgroups
        /\ \A u \in Threads \ {t} : pc'[u] = pc[u] /\ op'[u] = op[u]
        /\ pc'[t] = "fq_add" /\ op'[t].gs = op[t].gs /\ ~Idle(t)
        /\ op'[t].g = GroupOf[FqKey(t)] /\ FqKey(t) \in kgroups
    BY <1>8 DEF FqLookup, FqLooping, Idle
  <2>2. OpenFor(t)' /\ PendingFor(t)'
    BY <2>1 DEF OpenFor, PendingFor, Idle, KernelGroups
  <2>3. QED
    BY <1>0, <2>1, <2>2, ThreadLocal DEF StepGoal
<1>9. ASSUME NEW t \in Threads, FqAdd(t) PROVE StepGoal
  <2> DEFINE r == op[t].gs
  <2>1. PICK o \in AddGroup(entries[r], op[t].g) :
               /\ entries' = [entries EXCEPT ![r] = o.tree]
               /\ op' = [op EXCEPT ![t].res = o.res, ![t].i = @ + 1,
                                   ![t].g = NoGroup]
    BY <1>9 DEF FqAdd
  <2>2. r \in GroupSets /\ live[r] /\ op[t].g \in KernelGroups
    BY <1>9 DEF FqAdd, OpenFor, PendingFor, Idle, OpRec
  <2>3. [Abs!ANext]_Abs!avars /\ entries'[r] \subseteq entries[r] \cup {op[t].g}
    BY <1>9, <2>1, <2>2, Insertion DEF FqAdd
  <2>4. StoredExist'
    BY <1>9, <2>1, <2>2, <2>3 DEF FqAdd, StoredExist, KernelGroups
  <2>5. /\ \A u \in Threads \ {t} : pc'[u] = pc[u] /\ op'[u] = op[u]
        /\ pc'[t] = "fq_next" /\ op'[t].gs = r
    BY <1>9, <2>1 DEF FqAdd
  <2>6. OpenFor(t)' /\ PendingFor(t)'
    BY <1>9, <2>2, <2>5 DEF FqAdd, OpenFor, PendingFor, Idle
  <2>7. QED
    BY <1>0, <1>9, <2>3, <2>4, <2>5, <2>6, ThreadFrame DEF FqAdd, StepGoal
<1>10. ASSUME NEW t \in Threads, FeLock(t) PROVE StepGoal
  <2> DEFINE src == op[t].src
  <2>1. /\ live' = live /\ entries' = entries /\ kgroups' = kgroups
        /\ \A u \in Threads \ {t} : pc'[u] = pc[u] /\ op'[u] = op[u]
        /\ pc'[t] = "fe_walk" /\ op'[t].gs = op[t].gs /\ ~Idle(t)
        /\ op'[t].g = FindMin(entries[src])
    BY <1>10 DEF FeLock, Idle
  <2>2. FindMin(entries[src]) \in entries[src] \cup {NoGroup}
    BY FindMinType DEF OpRec
  <2>3. entries[src] \subseteq KernelGroups
    BY DEF StoredExist, OpRec
  <2>4. OpenFor(t)' /\ PendingFor(t)'
    BY <2>1, <2>2, <2>3 DEF OpenFor, PendingFor, Idle, KernelGroups
  <2>5. QED
    BY <1>0, <2>1, <2>4, ThreadLocal DEF StepGoal
<1>11. ASSUME NEW t \in Threads, FeVisitUser(t) PROVE StepGoal
  <2> DEFINE src == op[t].src
  <2>1. /\ live' = live /\ entries' = entries /\ kgroups' = kgroups
        /\ \A u \in Threads \ {t} : pc'[u] = pc[u] /\ op'[u] = op[u]
        /\ pc'[t] = "fe_walk" /\ op'[t].gs = op[t].gs /\ ~Idle(t)
        /\ op'[t].g = FindSucc(entries[src], op[t].g)
    BY <1>11 DEF FeVisitUser, FeWalking, Visited, Idle
  <2>2. FindSucc(entries[src], op[t].g) \in entries[src] \cup {NoGroup}
    BY FindSuccType DEF OpRec
  <2>3. entries[src] \subseteq KernelGroups
    BY DEF StoredExist, OpRec
  <2>4. OpenFor(t)' /\ PendingFor(t)'
    BY <2>1, <2>2, <2>3 DEF OpenFor, PendingFor, Idle, KernelGroups
  <2>5. QED
    BY <1>0, <2>1, <2>4, ThreadLocal DEF StepGoal
<1>12. ASSUME NEW t \in Threads, FeVisitAdd(t) PROVE StepGoal
  <2> DEFINE r == op[t].gs
             src == op[t].src
  <2>1. PICK o \in AddGroup(entries[r], op[t].g) :
               /\ entries' = [entries EXCEPT ![r] = o.tree]
               /\ Visited(t, o.res)
    BY <1>12 DEF FeVisitAdd
  <2>2. r \in GroupSets /\ live[r] /\ op[t].g \in KernelGroups
    BY <1>12 DEF FeVisitAdd, FeWalking, OpenFor, PendingFor, Idle, OpRec
  <2>3. [Abs!ANext]_Abs!avars /\ entries'[r] \subseteq entries[r] \cup {op[t].g}
    BY <1>12, <2>1, <2>2, Insertion DEF FeVisitAdd
  <2>4. StoredExist'
    BY <1>12, <2>1, <2>2, <2>3 DEF FeVisitAdd, StoredExist, KernelGroups
  <2>5. /\ \A u \in Threads \ {t} : pc'[u] = pc[u] /\ op'[u] = op[u]
        /\ pc'[t] = "fe_walk" /\ op'[t].gs = r
        /\ op'[t].g = FindSucc(entries[src], op[t].g)
    BY <1>12, <2>1 DEF FeVisitAdd, FeWalking, Visited
  <2>6. FindSucc(entries[src], op[t].g) \in entries[src] \cup {NoGroup}
    BY FindSuccType DEF OpRec
  <2>7. entries[src] \subseteq KernelGroups
    BY DEF StoredExist, OpRec
  <2>8. OpenFor(t)' /\ PendingFor(t)'
    BY <1>12, <2>2, <2>5, <2>6, <2>7 DEF FeVisitAdd, OpenFor, PendingFor, Idle, KernelGroups
  <2>9. QED
    BY <1>0, <1>12, <2>3, <2>4, <2>5, <2>8, ThreadFrame DEF FeVisitAdd, StepGoal
<1>13. CASE UNCHANGED vars
  BY <1>13 DEF vars, StepGoal, RInv, StoredExist, OpenFor, PendingFor, Idle,
               KernelGroups, Abs!avars
<1>14. QED
  BY <1>1, <1>2, <1>3, <1>4, <1>5, <1>6, <1>7, <1>8, <1>9, <1>10, <1>11,
     <1>12, <1>13 DEF Next

-----------------------------------------------------------------------------
(* The refinement theorem.                                                 *)

\* Before any call, no registry exists, none holds a group, and the kernel
\* has created no group: the abstract initial state.
LEMMA RefinementInit ==
  Init => RInv /\ Abs!AInit
<1> SUFFICES ASSUME Init PROVE RInv /\ Abs!AInit
  OBVIOUS
<1>1. TypeInv
  BY OpInitType, GroupSetsAssumption DEF Init, TypeInv, TypeOK
<1>2. QED
  BY <1>1 DEF Init, RInv, StoredExist, OpenFor, PendingFor, Idle, Abs!AInit

\* Every behaviour of the group-set operations, run by any number of
\* threads on any number of registries while the kernel creates groups, is
\* a behaviour of GroupSetAbstract: registries start empty, grow only by
\* one group of the kernel at a time, and are dropped whole; the locked
\* builds, unions and walks never expose anything else.
THEOREM Refinement ==
  Spec => Refines
<1>1. Init => RInv /\ Abs!AInit
  BY RefinementInit
<1>2. RInv /\ [Next]_vars => RInv' /\ [Abs!ANext]_Abs!avars
  BY RefinementStep DEF StepGoal
<1>3. QED
  BY <1>1, <1>2, PTL DEF Spec, Refines, Abs!ASpec

=============================================================================
