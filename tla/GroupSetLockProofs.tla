------------------------- MODULE GroupSetLockProofs -------------------------
(***************************************************************************)
(* Proofs about the group-set mutexes and nn_groupset_fromqos, for every  *)
(* value of the constants.                                                 *)
(*                                                                         *)
(* nn_groupset_fromqos holds gs's mutex for its whole loop, so nobody     *)
(* removes what it inserted, and when it returns 0 every concrete         *)
(* partition of the QoS whose kernel group existed at LOCK(gs) has its    *)
(* group in gs (FromQosComplete).                                          *)
(*                                                                         *)
(* The only thread that waits while holding a mutex is nn_groupset_add,   *)
(* which holds src's and takes gs's in nn_groupset_add_helper.  When the  *)
(* callers' (gs, src) pairs respect a lock order, no set of threads waits *)
(* in a circle (NoCircularWait).                                           *)
(***************************************************************************)
EXTENDS GroupSetWalkProofs

\* The mutex a thread holds: gs's inside nn_groupset_fromqos's loop, src's
\* during nn_groupset_foreach's walk.
Holds(u, r) ==
  \/ pc[u] \in {"fq_next", "fq_add"} /\ op[u].gs = r
  \/ pc[u] = "fe_walk" /\ op[u].src = r

\* A locked mutex is held by its owner at one of those places: no thread
\* keeps a mutex past its UNLOCK.
OwnersHold == \A r \in GroupSets : owner[r] # NoOwner => Holds(owner[r], r)

\* nn_groupset_add is called only with the callers' (gs, src) pairs.
AddArgs(t) == op[t].visitor = "add" => <<op[t].gs, op[t].src>> \in AddPairs

\* nn_groupset_fromqos starts its loop at the first partition with res 0.
FqStarted(t) == pc[t] = "fq_lock" => op[t].i = 1 /\ op[t].res = 0

\* Inside the loop the index runs from 1 to one past the last partition.
FqBounds(t) ==
  pc[t] \in {"fq_next", "fq_add"} => op[t].i \in 1..Len(Parts(op[t].qos)) + 1

\* Between v_groupSetGet and c_free, the thread holds the kernel group of
\* the current concrete partition, and no add_group has failed.
FqHeld(t) ==
  pc[t] = "fq_add" =>
    /\ op[t].res >= 0
    /\ op[t].i =< Len(Parts(op[t].qos))
    /\ FqKey(t) \in kgroups
    /\ op[t].g = GroupOf[FqKey(t)]

\* The groups of partitions 1..n of the QoS of operation o whose kernel
\* group existed when it took the lock.
NamedUpTo(o, n) ==
  {GroupOf[k] : k \in {<<Parts(o.qos)[j], o.qos.topic>> : j \in 1..n}
                      \cap o.known}

\* While no add_group has failed, the partitions done so far have their
\* groups in gs.
FqSoFar(t) ==
  pc[t] \in {"fq_next", "fq_add"} /\ op[t].res >= 0 =>
    NamedUpTo(op[t], op[t].i - 1) \subseteq entries[op[t].gs]

\* The kernel never drops a group, so what was known at LOCK(gs) still is.
Known(t) == op[t].known \subseteq kgroups

\* What the invariant adds for one thread.
FqPer(t) ==
  AddArgs(t) /\ FqStarted(t) /\ FqBounds(t) /\ FqHeld(t) /\ FqSoFar(t)
  /\ Known(t)

\* The inductive invariant.
LInv ==
  /\ WInv
  /\ OwnersHold
  /\ \A t \in Threads : FqPer(t)

\* Callers of nn_groupset_add respect a lock order: some ranking of the
\* group sets puts every destination below its source.
LockOrder ==
  \E rank \in [GroupSets -> Nat] : \A p \in AddPairs : rank[p[1]] < rank[p[2]]

-----------------------------------------------------------------------------
(* No circular wait.                                                       *)

\* A thread that holds a mutex and waits for another is inside
\* nn_groupset_add_helper, waiting for gs's mutex.
LEMMA HolderWaits ==
  ASSUME TypeInv, NEW u \in Threads, NEW r \in GroupSets, Holds(u, r),
         WaitsOn(u) # {}
  PROVE  /\ pc[u] = "fe_walk" /\ op[u].visitor = "add" /\ op[u].src = r
         /\ WaitsOn(u) = {op[u].gs}
<1>1. pc[u] \in {"fq_next", "fq_add", "fe_walk"}
  BY DEF Holds
<1>2. ~(pc[u] \in {"ag_lock", "em_lock", "fq_lock"}) /\ pc[u] # "fe_lock"
  BY <1>1
<1>3. FeWalking(u) /\ op[u].visitor = "add"
  <2>1. SUFFICES ASSUME ~(FeWalking(u) /\ op[u].visitor = "add") PROVE FALSE
    OBVIOUS
  <2>2. WaitsOn(u) = {}
    BY <1>2, <2>1 DEF WaitsOn
  <2>3. QED
    BY <2>2
<1>4. WaitsOn(u) = {op[u].gs}
  BY <1>2, <1>3 DEF WaitsOn
<1>5. QED
  BY <1>3, <1>4 DEF FeWalking, Holds

\* The threads of a waiting set that hold a mutex: walks of nn_groupset_add
\* in nn_groupset_add_helper.
AddWaiters(S) ==
  {t \in S : pc[t] = "fe_walk" /\ op[t].visitor = "add"
             /\ WaitsOn(t) = {op[t].gs}}

\* Whoever blocks a member of a waiting set, from inside the set, is such a
\* walk, and its src is the mutex waited for.
LEMMA BlockerIsAddWalk ==
  ASSUME TypeInv, OwnersHold, NEW S \in SUBSET Threads,
         NEW t \in S, NEW u \in S, BlockedBy(t, u), WaitsOn(u) # {}
  PROVE  /\ u \in AddWaiters(S)
         /\ \E r \in WaitsOn(t) : op[u].src = r
<1>1. PICK r \in WaitsOn(t) : owner[r] = u
  BY DEF BlockedBy
<1>2. r \in GroupSets
  <2>1. op[t].gs \in GroupSets /\ op[t].src \in GroupSets
    BY DEF TypeInv, TypeOK, OpRec
  <2>2. CASE pc[t] \in {"ag_lock", "em_lock", "fq_lock"}
    BY <2>1, <2>2 DEF WaitsOn
  <2>3. CASE pc[t] = "fe_lock"
    BY <2>1, <2>3 DEF WaitsOn
  <2>4. CASE ~(pc[t] \in {"ag_lock", "em_lock", "fq_lock"}) /\ pc[t] # "fe_lock"
    <3>1. WaitsOn(t) \in {{op[t].gs}, {}}
      BY <2>4 DEF WaitsOn
    <3>2. QED
      BY <2>1, <3>1
  <2>5. QED
    BY <2>2, <2>3, <2>4
<1>3. Holds(u, r)
  BY <1>1, <1>2, SentinelAssumption DEF OwnersHold
<1>4. QED
  BY <1>1, <1>2, <1>3, HolderWaits DEF AddWaiters

\* Under a lock order the walks of a waiting set have a lowest-ranked src,
\* yet the walk blocking that one has a src of lower rank.
LEMMA LInvNoCircularWait ==
  ASSUME LockOrder, LInv
  PROVE  NoCircularWait
<1>0. TypeInv /\ OwnersHold /\ \A t \in Threads : AddArgs(t)
  BY DEF LInv, WInv, FqPer
<1>1. PICK rank \in [GroupSets -> Nat] :
             \A p \in AddPairs : rank[p[1]] < rank[p[2]]
  BY DEF LockOrder
<1> SUFFICES ASSUME NEW S \in SUBSET Threads, S # {},
                    \A t \in S : \E u \in S : BlockedBy(t, u)
             PROVE  FALSE
  BY DEF NoCircularWait
<1> DEFINE W == AddWaiters(S)
           R == {rank[op[t].src] : t \in W}
<1>2. W # {}
  <2>1. PICK t \in S : TRUE
    OBVIOUS
  <2>2. PICK u \in S : BlockedBy(t, u)
    OBVIOUS
  <2>3. QED
    <3>1. PICK w \in S : BlockedBy(u, w)
      OBVIOUS
    <3>2. WaitsOn(u) # {}
      BY <3>1 DEF BlockedBy
    <3>3. QED
      BY <1>0, <2>2, <3>2, BlockerIsAddWalk
<1>3. \A t \in W : op[t].gs \in GroupSets /\ op[t].src \in GroupSets
  BY <1>0 DEF AddWaiters, TypeInv, TypeOK, OpRec
<1>4. R \subseteq Nat /\ R # {}
  BY <1>1, <1>2, <1>3
<1>5. PICK m \in R : \A y \in R : ~(<<y, m>> \in OpToRel(<, Nat))
  BY <1>4, NatLessThanWellFounded, WFMin
<1>6. PICK t \in W : rank[op[t].src] = m
  BY <1>5
<1>7. PICK u \in S : BlockedBy(t, u)
  BY <1>6 DEF AddWaiters
<1>8. u \in W /\ op[u].src = op[t].gs
  <2>1. PICK w \in S : BlockedBy(u, w)
    OBVIOUS
  <2>2. WaitsOn(u) # {}
    BY <2>1 DEF BlockedBy
  <2>3. t \in S /\ WaitsOn(t) = {op[t].gs}
    BY <1>6 DEF AddWaiters
  <2>4. u \in W /\ \E r \in WaitsOn(t) : op[u].src = r
    BY <1>0, <1>7, <2>2, <2>3, BlockerIsAddWalk
  <2>5. QED
    BY <2>3, <2>4
<1>9. rank[op[t].gs] < rank[op[t].src]
  BY <1>0, <1>1, <1>6 DEF AddArgs, AddWaiters
<1>10. rank[op[u].src] \in R /\ rank[op[u].src] < m
  BY <1>6, <1>8, <1>9
<1>11. QED
  <2>1. m \in Nat /\ rank[op[u].src] \in Nat
    BY <1>4, <1>10
  <2>2. <<rank[op[u].src], m>> \in OpToRel(<, Nat)
    BY <1>10, <2>1 DEF OpToRel
  <2>3. QED
    BY <1>5, <1>10, <2>2

-----------------------------------------------------------------------------
(* The mutexes are held where Holds says.                                 *)

LEMMA LInvInit == Init => LInv
<1> SUFFICES ASSUME Init PROVE LInv
  OBVIOUS
<1>1. WInv
  BY WInvInit
<1>2. OwnersHold
  BY DEF Init, OwnersHold
<1>3. NoOp.visitor = "user" /\ NoOp.known = {}
  BY DEF NoOp, OpInit
<1>4. \A t \in Threads : FqPer(t)
  BY <1>3 DEF Init, FqPer, AddArgs, FqStarted, FqBounds, FqHeld, FqSoFar, Known
<1>5. QED
  BY <1>1, <1>2, <1>4 DEF LInv

\* A thread that is not inside a fromqos loop or a walk holds no mutex.
LEMMA NotOwner ==
  ASSUME OwnersHold, NEW t \in Threads, NEW r \in GroupSets,
         ~(pc[t] \in {"fq_next", "fq_add", "fe_walk"})
  PROVE  owner[r] # t
BY SentinelAssumption DEF OwnersHold, Holds

\* A step of thread t keeps the mutex r that another thread holds.
LEMMA OwnerOther ==
  ASSUME TypeInv, OwnersHold, NEW t \in Threads, NEW r \in GroupSets,
         \A w \in Threads \ {t} : pc'[w] = pc[w] /\ op'[w] = op[w],
         owner'[r] = owner[r], owner[r] # NoOwner, owner[r] # t
  PROVE  (Holds(owner[r], r))'
<1>1. owner[r] \in Threads
  BY DEF TypeInv, TypeOK
<1>2. Holds(owner[r], r)
  BY DEF OwnersHold
<1>3. Holds(owner[r], r)'
  BY <1>1, <1>2 DEF Holds
<1>4. QED
  BY <1>3

\* A step of thread t inside its loop or walk keeps the mutex it holds.
LEMMA OwnerSelf ==
  ASSUME NEW t \in Threads, NEW r, Holds(t, r),
         pc[t] \in {"fq_next", "fq_add"} => pc'[t] \in {"fq_next", "fq_add"},
         pc[t] = "fe_walk" => pc'[t] = "fe_walk",
         op'[t].gs = op[t].gs, op'[t].src = op[t].src
  PROVE  Holds(t, r)'
BY DEF Holds

\* The thread-local part of every step: the other threads keep their
\* state.
LEMMA OthersKept ==
  ASSUME TypeInv, NEW t \in Threads,
         \/ \E l, o : pc' = [pc EXCEPT ![t] = l] /\ op' = [op EXCEPT ![t] = o]
         \/ \E o : pc' = pc /\ op' = [op EXCEPT ![t] = o]
         \/ \E res : Return(t, res)
  PROVE  \A w \in Threads \ {t} : pc'[w] = pc[w] /\ op'[w] = op[w]
<1>1. DOMAIN pc = Threads /\ DOMAIN op = Threads
  BY DEF TypeInv, TypeOK
<1>2. QED
  BY <1>1 DEF Return

LEMMA OwnersStep ==
  ASSUME LInv, [Next]_vars
  PROVE  OwnersHold'
<1>0. TypeInv /\ OwnersHold
  BY DEF LInv, WInv
<1> SUFFICES ASSUME NEW r \in GroupSets, owner'[r] # NoOwner
             PROVE  (Holds(owner[r], r))'
  BY DEF OwnersHold
<1>T. /\ owner \in [GroupSets -> Threads \cup {NoOwner}]
      /\ DOMAIN pc = Threads /\ op \in [Threads -> OpRec]
  BY <1>0 DEF TypeInv, TypeOK
\* Steps that leave every thread and every mutex alone.
<1>1. ASSUME owner'[r] = owner[r], pc' = pc, op' = op
      PROVE  (Holds(owner[r], r))'
  BY <1>0, <1>1 DEF OwnersHold, Holds
<1>2. CASE \E k \in KernelKeys : KernelCreateGroup(k)
  BY <1>1, <1>2 DEF KernelCreateGroup
<1>3. CASE \E x \in GroupSets : NewGroupSet(x) \/ FreeGroupSet(x)
  <2>1. PICK x \in GroupSets : NewGroupSet(x) \/ FreeGroupSet(x)
    BY <1>3
  <2>2. owner'[r] = owner[r] /\ pc' = pc /\ op' = op
    BY <1>T, <2>1 DEF NewGroupSet, FreeGroupSet
  <2>3. QED
    BY <1>1, <2>2
\* Steps of a thread that holds no mutex before or after, or keeps owner.
<1>4. ASSUME NEW t \in Threads, owner' = owner,
             \A w \in Threads \ {t} : pc'[w] = pc[w] /\ op'[w] = op[w],
             ~(pc[t] \in {"fq_next", "fq_add", "fe_walk"})
      PROVE  (Holds(owner[r], r))'
  BY <1>0, <1>4, NotOwner, OwnerOther
<1>5. ASSUME NEW t \in Threads, NEW x \in GroupSets,
             \/ StartEmpty(t, x) \/ StartForeach(t, x)
             \/ \E g \in Groups : StartAddGroup(t, x, g)
             \/ \E q \in Qoss : StartFromQos(t, x, q)
             \/ \E src \in GroupSets : StartAdd(t, x, src)
      PROVE  (Holds(owner[r], r))'
  <2>1. owner' = owner /\ pc[t] = "idle"
    BY <1>5 DEF StartEmpty, StartForeach, StartAddGroup, StartFromQos,
                StartAdd, Idle
  <2>2. \A w \in Threads \ {t} : pc'[w] = pc[w] /\ op'[w] = op[w]
    BY <1>T, <1>5 DEF StartEmpty, StartForeach, StartAddGroup,
                      StartFromQos, StartAdd
  <2>3. QED
    BY <1>4, <2>1, <2>2
<1>6. ASSUME NEW t \in Threads, AddGroupLocked(t) \/ EmptyLocked(t)
      PROVE  (Holds(owner[r], r))'
  <2>1. owner' = owner /\ pc[t] \in {"ag_lock", "em_lock"}
    BY <1>6 DEF AddGroupLocked, EmptyLocked
  <2>2. \E res : Return(t, res)
    BY <1>6 DEF AddGroupLocked, EmptyLocked
  <2>3. \A w \in Threads \ {t} : pc'[w] = pc[w] /\ op'[w] = op[w]
    BY <1>0, <2>2, OthersKept
  <2>4. QED
    BY <1>4, <2>1, <2>3
\* LOCK: the thread takes a free mutex.
<1>7. ASSUME NEW t \in Threads, NEW x \in GroupSets,
             pc[t] \in {"fq_lock", "fe_lock"},
             owner' = [owner EXCEPT ![x] = t],
             \A w \in Threads \ {t} : pc'[w] = pc[w] /\ op'[w] = op[w],
             r = x => Holds(t, x)'
      PROVE  (Holds(owner[r], r))'
  <2>1. \A w \in Threads \ {t} : pc'[w] = pc[w] /\ op'[w] = op[w]
    BY <1>7
  <2>2. CASE r = x
    BY <1>T, <1>7, <2>2
  <2>3. CASE r # x
    <3>1. owner'[r] = owner[r] /\ owner[r] # t
      BY <1>0, <1>T, <1>7, <2>3, NotOwner
    <3>2. QED
      BY <1>0, <1>7, <2>1, <3>1, OwnerOther
  <2>4. QED
    BY <2>2, <2>3
<1>8. ASSUME NEW t \in Threads, FqLock(t) PROVE (Holds(owner[r], r))'
  <2>0. op[t] \in OpRec
    BY <1>T
  <2>1. PICK x \in GroupSets : x = op[t].gs
    BY <2>0 DEF OpRec
  <2>2. pc'[t] = "fq_next" /\ op'[t].gs = x
    BY <1>T, <1>8, <2>1 DEF FqLock
  <2>3. Holds(t, x)'
    BY <2>2 DEF Holds
  <2>4. \A w \in Threads \ {t} : pc'[w] = pc[w] /\ op'[w] = op[w]
    BY <1>T, <1>8 DEF FqLock
  <2>5. /\ pc[t] \in {"fq_lock", "fe_lock"}
        /\ owner' = [owner EXCEPT ![x] = t]
    BY <1>8, <2>1 DEF FqLock
  <2>6. QED
    BY <1>7, <2>1, <2>3, <2>4, <2>5
<1>9. ASSUME NEW t \in Threads, FeLock(t) PROVE (Holds(owner[r], r))'
  <2>0. op[t] \in OpRec
    BY <1>T
  <2>1. PICK x \in GroupSets : x = op[t].src
    BY <2>0 DEF OpRec
  <2>2. pc'[t] = "fe_walk" /\ op'[t].src = x
    BY <1>T, <1>9, <2>1 DEF FeLock
  <2>3. Holds(t, x)'
    BY <2>2 DEF Holds
  <2>4. \A w \in Threads \ {t} : pc'[w] = pc[w] /\ op'[w] = op[w]
    BY <1>T, <1>9 DEF FeLock
  <2>5. /\ pc[t] \in {"fq_lock", "fe_lock"}
        /\ owner' = [owner EXCEPT ![x] = t]
    BY <1>9, <2>1 DEF FeLock
  <2>6. QED
    BY <1>7, <2>1, <2>3, <2>4, <2>5
\* Steps inside the loop or the walk: the thread keeps its mutex.
<1>10. ASSUME NEW t \in Threads, owner' = owner,
              \A w \in Threads \ {t} : pc'[w] = pc[w] /\ op'[w] = op[w],
              pc[t] \in {"fq_next", "fq_add"} => pc'[t] \in {"fq_next", "fq_add"},
              pc[t] = "fe_walk" => pc'[t] = "fe_walk",
              op'[t].gs = op[t].gs, op'[t].src = op[t].src
       PROVE  (Holds(owner[r], r))'
  <2>1. CASE owner[r] = t
    <3>1. Holds(t, r)
      BY <1>0, <2>1, SentinelAssumption DEF OwnersHold
    <3>2. Holds(t, r)'
      BY <1>10, <3>1, OwnerSelf
    <3>3. QED
      BY <1>10, <2>1, <3>2
  <2>2. CASE owner[r] # t
    BY <1>0, <1>10, <2>2, OwnerOther
  <2>3. QED
    BY <2>1, <2>2
<1>11. ASSUME NEW t \in Threads, FqSkip(t) \/ FqLookup(t) \/ FqAdd(t)
       PROVE  (Holds(owner[r], r))'
  <2>1. op[t] \in OpRec
    BY <1>T
  <2>2. /\ owner' = owner /\ pc[t] \in {"fq_next", "fq_add"}
        /\ pc'[t] \in {"fq_next", "fq_add"}
        /\ op'[t].gs = op[t].gs /\ op'[t].src = op[t].src
    <3>1. CASE FqSkip(t)
      BY <1>T, <2>1, <3>1 DEF FqSkip, FqLooping
    <3>2. CASE FqLookup(t)
      BY <1>T, <2>1, <3>2 DEF FqLookup, FqLooping
    <3>3. CASE FqAdd(t)
      <4>1. PICK o \in AddGroup(entries[op[t].gs], op[t].g) :
              op' = [op EXCEPT ![t].res = o.res, ![t].i = @ + 1,
                               ![t].g = NoGroup]
        BY <3>3 DEF FqAdd
      <4>2. QED
        BY <1>T, <2>1, <3>3, <4>1 DEF FqAdd
    <3>4. QED
      BY <1>11, <3>1, <3>2, <3>3
  <2>3. \A w \in Threads \ {t} : pc'[w] = pc[w] /\ op'[w] = op[w]
    <3>1. CASE FqSkip(t)
      BY <1>T, <3>1 DEF FqSkip
    <3>2. CASE FqLookup(t)
      BY <1>T, <3>2 DEF FqLookup
    <3>3. CASE FqAdd(t)
      <4>1. PICK o \in AddGroup(entries[op[t].gs], op[t].g) :
              op' = [op EXCEPT ![t].res = o.res, ![t].i = @ + 1,
                               ![t].g = NoGroup]
        BY <3>3 DEF FqAdd
      <4>2. QED
        BY <1>T, <3>3, <4>1 DEF FqAdd
    <3>4. QED
      BY <1>11, <3>1, <3>2, <3>3
  <2>4. QED
    BY <1>10, <2>2, <2>3
<1>12. ASSUME NEW t \in Threads, FeVisitUser(t) \/ FeVisitAdd(t)
       PROVE  (Holds(owner[r], r))'
  <2>1. PICK v : Visited(t, v)
    BY <1>12 DEF FeVisitUser, FeVisitAdd
  <2>2. /\ owner' = owner /\ pc' = pc /\ pc[t] = "fe_walk"
        /\ op'[t].gs = op[t].gs /\ op'[t].src = op[t].src
    BY <1>0, <1>12, <2>1, VisitedFields DEF FeVisitUser, FeVisitAdd,
                                            FeWalking
  <2>3. \A w \in Threads \ {t} : pc'[w] = pc[w] /\ op'[w] = op[w]
    BY <1>0, <2>1, <2>2, VisitedFields
  <2>4. QED
    BY <1>10, <2>2, <2>3
\* UNLOCK: the thread releases the only mutex it holds.
<1>13. ASSUME NEW t \in Threads, NEW x \in GroupSets,
              owner' = [owner EXCEPT ![x] = NoOwner],
              \E res : Return(t, res),
              owner[r] = t => r = x
       PROVE  (Holds(owner[r], r))'
  <2>1. r # x
    BY <1>T, <1>13
  <2>2. owner'[r] = owner[r] /\ owner[r] # t
    BY <1>T, <1>13, <2>1
  <2>3. \A w \in Threads \ {t} : pc'[w] = pc[w] /\ op'[w] = op[w]
    BY <1>0, <1>13, OthersKept
  <2>4. QED
    BY <1>0, <1>13, <2>2, <2>3, OwnerOther
<1>14. ASSUME NEW t \in Threads, FqUnlock(t) PROVE (Holds(owner[r], r))'
  <2>1. op[t].gs \in GroupSets
    BY <1>T DEF OpRec
  <2>2. owner[r] = t => r = op[t].gs
    BY <1>0, <1>14, SentinelAssumption DEF OwnersHold, Holds, FqUnlock
  <2>3. QED
    BY <1>13, <1>14, <2>1, <2>2 DEF FqUnlock
<1>15. ASSUME NEW t \in Threads, FeUnlock(t) PROVE (Holds(owner[r], r))'
  <2>1. op[t].src \in GroupSets
    BY <1>T DEF OpRec
  <2>2. owner[r] = t => r = op[t].src
    BY <1>0, <1>15, SentinelAssumption DEF OwnersHold, Holds, FeUnlock
  <2>3. QED
    BY <1>13, <1>15, <2>1, <2>2 DEF FeUnlock
<1>16. CASE UNCHANGED vars
  BY <1>1, <1>16 DEF vars
<1>17. QED
  BY <1>2, <1>3, <1>5, <1>6, <1>8, <1>9, <1>11, <1>12, <1>14, <1>15, <1>16
  DEF Next

-----------------------------------------------------------------------------
(* The partitions nn_groupset_fromqos has done.                            *)

\* Nothing is done before the first partition.
LEMMA NamedNone ==
  ASSUME NEW o
  PROVE  NamedUpTo(o, 0) = {}
BY DEF NamedUpTo

\* What partition n adds: its group, when its kernel group was known.
LEMMA NamedNext ==
  ASSUME NEW o, NEW n \in Nat \ {0}, NEW x \in NamedUpTo(o, n)
  PROVE  \/ x \in NamedUpTo(o, n - 1)
         \/ /\ <<Parts(o.qos)[n], o.qos.topic>> \in o.known
            /\ x = GroupOf[<<Parts(o.qos)[n], o.qos.topic>>]
<1>1. PICK j \in 1..n : /\ <<Parts(o.qos)[j], o.qos.topic>> \in o.known
                        /\ x = GroupOf[<<Parts(o.qos)[j], o.qos.topic>>]
  BY DEF NamedUpTo
<1>2. CASE j = n
  BY <1>1, <1>2
<1>3. CASE j # n
  <2>1. j \in 1..(n - 1)
    BY <1>3
  <2>2. QED
    BY <1>1, <2>1 DEF NamedUpTo
<1>4. QED
  BY <1>2, <1>3

\* Only the QoS and the known kernel groups matter.
LEMMA NamedFields ==
  ASSUME NEW o, NEW o2, o2.qos = o.qos, o2.known = o.known, NEW n
  PROVE  NamedUpTo(o2, n) = NamedUpTo(o, n)
BY DEF NamedUpTo

\* After the last partition, the groups done are those FromQosComplete
\* names: Parts replaces an empty list by the "" partition.
LEMMA NamedAll ==
  ASSUME NEW o, o.qos \in Qoss
  PROVE  Named(o.qos, o.known) = NamedUpTo(o, Len(Parts(o.qos)))
<1> DEFINE q == o.qos
<1>1. q.partition \in Seq(Partitions)
  BY QosAssumption
<1>2. (IF q.partition = <<>> THEN {EmptyPartition}
       ELSE {q.partition[i] : i \in 1..Len(q.partition)})
      = {Parts(q)[j] : j \in 1..Len(Parts(q))}
  <2>1. CASE q.partition = <<>>
    BY <1>1, <2>1 DEF Parts
  <2>2. CASE q.partition # <<>>
    <3>1. Len(q.partition) # 0
      BY <1>1, <2>2
    <3>2. QED
      BY <2>2, <3>1 DEF Parts
  <2>3. QED
    BY <2>1, <2>2
<1>3. {<<p, q.topic>> : p \in {Parts(q)[j] : j \in 1..Len(Parts(q))}}
      = {<<Parts(q)[j], q.topic>> : j \in 1..Len(Parts(q))}
  OBVIOUS
<1>4. QED
  BY <1>2, <1>3 DEF Named, NamedUpTo

-----------------------------------------------------------------------------
(* What one step does to FqPer.                                            *)

\* A step that leaves thread u alone, only adds kernel groups, and only
\* grows the tree of a loop u is in.
LEMMA FqFrame ==
  ASSUME NEW u \in Threads, FqPer(u),
         pc'[u] = pc[u], op'[u] = op[u], kgroups \subseteq kgroups',
         pc[u] \in {"fq_next", "fq_add"} =>
           entries[op[u].gs] \subseteq entries'[op[u].gs]
  PROVE  FqPer(u)'
<1>1. (AddArgs(u) /\ FqStarted(u) /\ FqBounds(u) /\ Known(u))'
  BY DEF FqPer, AddArgs, FqStarted, FqBounds, Known
<1>2. FqHeld(u)'
  BY DEF FqPer, FqHeld, FqKey, FqPartition
<1>3. FqSoFar(u)'
  BY DEF FqPer, FqSoFar
<1>4. QED
  BY <1>1, <1>2, <1>3 DEF FqPer

\* The locals an operation returns with: no QoS done, a "user" visitor.
LEMMA FqReturn ==
  ASSUME TypeInv, NEW t \in Threads, NEW res \in Int, Return(t, res)
  PROVE  FqPer(t)'
<1>1. pc'[t] = "idle" /\ op'[t] = NoOp
  BY DEF Return, TypeInv, TypeOK
<1>2. NoOp.visitor = "user" /\ NoOp.known = {}
  BY DEF NoOp, OpInit
<1>3. QED
  BY <1>1, <1>2 DEF FqPer, AddArgs, FqStarted, FqBounds, FqHeld, FqSoFar,
                    Known

\* An operation starts: with the callers' pair for nn_groupset_add, at the
\* first partition with res 0 for nn_groupset_fromqos.
LEMMA FqStart ==
  ASSUME TypeInv, NEW t \in Threads, NEW o,
         NEW l \in {"ag_lock", "em_lock", "fq_lock", "fe_lock"},
         pc' = [pc EXCEPT ![t] = l], op' = [op EXCEPT ![t] = o],
         o.known = {}, o.visitor = "add" => <<o.gs, o.src>> \in AddPairs,
         l = "fq_lock" => o.i = 1 /\ o.res = 0
  PROVE  FqPer(t)'
<1>1. pc'[t] = l /\ op'[t] = o
  BY DEF TypeInv, TypeOK
<1>2. QED
  BY <1>1 DEF FqPer, AddArgs, FqStarted, FqBounds, FqHeld, FqSoFar, Known

\* A step of nn_groupset_foreach keeps the thread's arguments.
LEMMA FqWalk ==
  ASSUME NEW t \in Threads, FqPer(t), pc'[t] = "fe_walk",
         op'[t].gs = op[t].gs, op'[t].src = op[t].src,
         op'[t].visitor = op[t].visitor, op'[t].known = op[t].known,
         kgroups' = kgroups
  PROVE  FqPer(t)'
BY DEF FqPer, AddArgs, FqStarted, FqBounds, FqHeld, FqSoFar, Known

\* The partition list nn_groupset_fromqos walks is a sequence.
LEMMA PartsType ==
  ASSUME NEW q \in Qoss
  PROVE  Parts(q) \in Seq(Partitions) /\ Len(Parts(q)) \in Nat
<1>1. q.partition \in Seq(Partitions) /\ EmptyPartition \in Partitions
  BY QosAssumption, PartitionAssumption DEF Concrete
<1>2. QED
  BY <1>1 DEF Parts

\* LOCK (gs): the loop starts with nothing done and records the kernel
\* groups that exist.
LEMMA FqLockSelf ==
  ASSUME TypeInv, NEW t \in Threads, FqPer(t), FqLock(t)
  PROVE  FqPer(t)'
<1>1. op[t] \in OpRec /\ DOMAIN pc = Threads
  BY DEF TypeInv, TypeOK
<1>2. /\ pc'[t] = "fq_next"
      /\ op'[t] = [op[t] EXCEPT !.known = kgroups]
      /\ kgroups' = kgroups
  BY <1>1 DEF FqLock, TypeInv, TypeOK
<1>3. op[t].i = 1 /\ op[t].res = 0
  BY DEF FqLock, FqPer, FqStarted
<1>4. Len(Parts(op[t].qos)) \in Nat
  BY <1>1, PartsType DEF OpRec
<1>5. /\ op'[t].i = 1 /\ op'[t].res = 0 /\ op'[t].qos = op[t].qos
      /\ op'[t].known = kgroups /\ op'[t].visitor = op[t].visitor
      /\ op'[t].gs = op[t].gs /\ op'[t].src = op[t].src
  BY <1>1, <1>2, <1>3 DEF OpRec
<1>6. NamedUpTo(op'[t], op'[t].i - 1) = {}
  BY <1>5, NamedNone
<1>7. QED
  BY <1>2, <1>4, <1>5, <1>6 DEF FqPer, AddArgs, FqStarted, FqBounds,
                                FqHeld, FqSoFar, Known

\* add_group_by_name skips a wildcard partition, and a partition whose
\* kernel group did not exist when looked up -- so did not exist at LOCK.
LEMMA FqSkipSelf ==
  ASSUME TypeInv, NEW t \in Threads, FqPer(t), FqSkip(t)
  PROVE  FqPer(t)'
<1>1. op[t] \in OpRec /\ DOMAIN pc = Threads
  BY DEF TypeInv, TypeOK
<1> DEFINE n == op[t].i
           k == <<Parts(op[t].qos)[n], op[t].qos.topic>>
<1>2. /\ pc'[t] = pc[t] /\ pc[t] = "fq_next"
      /\ op'[t] = [op[t] EXCEPT !.i = n + 1]
      /\ kgroups' = kgroups /\ entries' = entries
      /\ op[t].res >= 0 /\ n =< Len(Parts(op[t].qos))
      /\ (FqPartition(t) \in Wildcards \/ FqKey(t) \notin kgroups)
  BY <1>1 DEF FqSkip, FqLooping, TypeInv, TypeOK
<1>3. n \in Nat \ {0} /\ Len(Parts(op[t].qos)) \in Nat
  BY <1>1, <1>2, PartsType DEF FqPer, FqBounds, OpRec
<1>4. /\ op'[t].i = n + 1 /\ op'[t].res = op[t].res
      /\ op'[t].qos = op[t].qos /\ op'[t].known = op[t].known
      /\ op'[t].visitor = op[t].visitor
      /\ op'[t].gs = op[t].gs /\ op'[t].src = op[t].src
  BY <1>1, <1>2 DEF OpRec
<1>5. k \notin op[t].known
  <2>1. op[t].known \subseteq kgroups /\ op[t].known \subseteq KernelKeys
    BY <1>1 DEF FqPer, Known, OpRec
  <2>2. CASE FqPartition(t) \in Wildcards
    BY <2>1, <2>2 DEF FqPartition, KernelKeys, Concrete
  <2>3. CASE FqKey(t) \notin kgroups
    BY <2>1, <2>3 DEF FqKey, FqPartition
  <2>4. QED
    BY <1>2, <2>2, <2>3
<1>6. NamedUpTo(op[t], n) \subseteq entries[op[t].gs]
  <2>1. SUFFICES ASSUME NEW x \in NamedUpTo(op[t], n)
                 PROVE  x \in entries[op[t].gs]
    OBVIOUS
  <2>2. x \in NamedUpTo(op[t], n - 1)
    BY <1>3, <1>5, NamedNext
  <2>3. QED
    BY <1>2, <2>2 DEF FqPer, FqSoFar
<1>7. NamedUpTo(op'[t], op'[t].i - 1) \subseteq entries'[op'[t].gs]
  <2>1. NamedUpTo(op'[t], n) = NamedUpTo(op[t], n)
    BY <1>4, NamedFields
  <2>2. QED
    BY <1>2, <1>3, <1>4, <1>6, <2>1
<1>8. QED
  BY <1>2, <1>3, <1>4, <1>7 DEF FqPer, AddArgs, FqStarted, FqBounds,
                                FqHeld, FqSoFar, Known

\* v_groupSetGet found the group: the thread holds the group of the
\* current partition, which stays a kernel group.
LEMMA FqLookupSelf ==
  ASSUME TypeInv, NEW t \in Threads, FqPer(t), FqLookup(t)
  PROVE  FqPer(t)'
<1>1. op[t] \in OpRec /\ DOMAIN pc = Threads
  BY DEF TypeInv, TypeOK
<1>2. /\ pc'[t] = "fq_add" /\ pc[t] = "fq_next"
      /\ op'[t] = [op[t] EXCEPT !.g = GroupOf[FqKey(t)]]
      /\ kgroups' = kgroups /\ entries' = entries
      /\ op[t].res >= 0 /\ op[t].i =< Len(Parts(op[t].qos))
      /\ FqKey(t) \in kgroups
  BY <1>1 DEF FqLookup, FqLooping, TypeInv, TypeOK
<1>3. /\ op'[t].i = op[t].i /\ op'[t].res = op[t].res
      /\ op'[t].qos = op[t].qos /\ op'[t].known = op[t].known
      /\ op'[t].visitor = op[t].visitor
      /\ op'[t].gs = op[t].gs /\ op'[t].src = op[t].src
      /\ op'[t].g = GroupOf[FqKey(t)]
  BY <1>1, <1>2 DEF OpRec
<1>4. FqKey(t)' = FqKey(t)
  BY <1>3 DEF FqKey, FqPartition
<1>5. FqHeld(t)'
  BY <1>2, <1>3, <1>4 DEF FqHeld
<1>6. NamedUpTo(op'[t], op'[t].i - 1) \subseteq entries'[op'[t].gs]
  <2>1. NamedUpTo(op'[t], op[t].i - 1) = NamedUpTo(op[t], op[t].i - 1)
    BY <1>3, NamedFields
  <2>2. QED
    BY <1>2, <1>3, <2>1 DEF FqPer, FqSoFar
<1>7. QED
  BY <1>2, <1>3, <1>5, <1>6 DEF FqPer, AddArgs, FqStarted, FqBounds,
                                FqSoFar, Known

\* res = add_group (gs, g): on success the current partition's group is
\* in gs, and the tree kept everything else.
LEMMA FqAddSelf ==
  ASSUME TypeInv, NEW t \in Threads, FqPer(t), FqAdd(t)
  PROVE  FqPer(t)'
<1>1. op[t] \in OpRec /\ DOMAIN pc = Threads /\ DOMAIN op = Threads
      /\ entries \in [GroupSets -> SUBSET Groups]
  BY DEF TypeInv, TypeOK
<1> DEFINE n == op[t].i
           r == op[t].gs
           g == op[t].g
<1>2. PICK o \in AddGroup(entries[r], g) :
        /\ entries' = [entries EXCEPT ![r] = o.tree]
        /\ op' = [op EXCEPT ![t].res = o.res, ![t].i = @ + 1,
                            ![t].g = NoGroup]
  BY DEF FqAdd
<1>3. /\ pc'[t] = "fq_next" /\ pc[t] = "fq_add" /\ kgroups' = kgroups
  BY <1>1 DEF FqAdd
<1>4. /\ op[t].res >= 0 /\ n =< Len(Parts(op[t].qos))
      /\ FqKey(t) \in kgroups /\ g = GroupOf[FqKey(t)]
  BY <1>3 DEF FqPer, FqHeld
<1>5. n \in Nat \ {0} /\ Len(Parts(op[t].qos)) \in Nat /\ r \in GroupSets
  BY <1>1, <1>3, PartsType DEF FqPer, FqBounds, OpRec
<1>6. /\ op'[t].i = n + 1 /\ op'[t].res = o.res
      /\ op'[t].qos = op[t].qos /\ op'[t].known = op[t].known
      /\ op'[t].visitor = op[t].visitor
      /\ op'[t].gs = r /\ op'[t].src = op[t].src
  BY <1>1, <1>2 DEF OpRec
<1>7. /\ entries'[r] = o.tree /\ entries[r] \subseteq o.tree
      /\ o.res >= 0 => g \in o.tree
  BY <1>1, <1>2, <1>5, AddGroupGrows
<1>8. o.res >= 0 => NamedUpTo(op[t], n) \subseteq o.tree
  <2>1. SUFFICES ASSUME o.res >= 0, NEW x \in NamedUpTo(op[t], n)
                 PROVE  x \in o.tree
    OBVIOUS
  <2>2. CASE x \in NamedUpTo(op[t], n - 1)
    BY <1>3, <1>4, <1>7, <2>2 DEF FqPer, FqSoFar
  <2>3. CASE x = GroupOf[<<Parts(op[t].qos)[n], op[t].qos.topic>>]
    BY <1>4, <1>7, <2>1, <2>3 DEF FqKey, FqPartition
  <2>4. QED
    BY <1>5, <2>2, <2>3, NamedNext
<1>9. FqSoFar(t)'
  <2>1. NamedUpTo(op'[t], n) = NamedUpTo(op[t], n)
    BY <1>6, NamedFields
  <2>2. QED
    BY <1>3, <1>6, <1>7, <1>8, <1>5, <2>1 DEF FqSoFar
<1>10. QED
  BY <1>3, <1>4, <1>5, <1>6, <1>9 DEF FqPer, AddArgs, FqStarted, FqBounds,
                                      FqHeld, Known

LEMMA FqStep ==
  ASSUME LInv, [Next]_vars, NEW u \in Threads
  PROVE  FqPer(u)'
<1>0. TypeInv /\ PerThread(u) /\ FqPer(u)
  BY DEF LInv, WInv
<1>T. /\ DOMAIN pc = Threads /\ op \in [Threads -> OpRec]
      /\ entries \in [GroupSets -> SUBSET Groups]
  BY <1>0 DEF TypeInv, TypeOK
<1>U. pc[u] \in {"fq_next", "fq_add"} =>
        ~Idle(u) /\ live[op[u].gs] /\ op[u].gs \in GroupSets
  BY <1>0, <1>T DEF PerThread, Live, Idle, OpRec
\* Steps that leave u, and every tree, alone.
<1>1. ASSUME pc'[u] = pc[u], op'[u] = op[u], kgroups \subseteq kgroups',
             entries' = entries
      PROVE  FqPer(u)'
  BY <1>0, <1>1, FqFrame
\* Steps that leave u alone and grow one tree.
<1>2. ASSUME pc'[u] = pc[u], op'[u] = op[u], kgroups' = kgroups,
             NEW x \in GroupSets, NEW T2,
             entries' = [entries EXCEPT ![x] = T2], entries[x] \subseteq T2
      PROVE  FqPer(u)'
  <2>1. pc[u] \in {"fq_next", "fq_add"} =>
          entries[op[u].gs] \subseteq entries'[op[u].gs]
    BY <1>T, <1>U, <1>2
  <2>2. QED
    BY <1>0, <1>2, <2>1, FqFrame
<1>3. CASE \E k \in KernelKeys : KernelCreateGroup(k)
  BY <1>1, <1>3 DEF KernelCreateGroup
<1>4. ASSUME NEW x \in GroupSets, NewGroupSet(x) \/ FreeGroupSet(x)
      PROVE  FqPer(u)'
  <2>1. pc[u] \in {"fq_next", "fq_add"} => op[u].gs # x
    BY <1>4, <1>U DEF NewGroupSet, FreeGroupSet, InUse
  <2>2. pc[u] \in {"fq_next", "fq_add"} =>
          entries'[op[u].gs] = entries[op[u].gs]
    BY <1>T, <1>U, <1>4, <2>1 DEF NewGroupSet, FreeGroupSet
  <2>3. pc' = pc /\ op' = op /\ kgroups' = kgroups
    BY <1>4 DEF NewGroupSet, FreeGroupSet
  <2>4. QED
    BY <1>0, <2>2, <2>3, FqFrame
<1>5. ASSUME NEW t \in Threads, NEW r \in GroupSets,
             \/ StartEmpty(t, r) \/ StartForeach(t, r)
             \/ \E g \in Groups : StartAddGroup(t, r, g)
             \/ \E q \in Qoss : StartFromQos(t, r, q)
             \/ \E src \in GroupSets : StartAdd(t, r, src)
      PROVE  FqPer(u)'
  <2>1. CASE u # t
    <3>1. pc'[u] = pc[u] /\ op'[u] = op[u] /\ UNCHANGED <<entries, kgroups>>
      BY <1>T, <1>5, <2>1 DEF StartEmpty, StartForeach, StartAddGroup,
                              StartFromQos, StartAdd
    <3>2. QED
      BY <1>1, <3>1
  <2>4. CASE u = t
    <3>1. OpInit(r).known = {} /\ OpInit(r).visitor = "user"
          /\ OpInit(r).i = 1 /\ OpInit(r).res = 0
      BY DEF OpInit
    <3>2. CASE StartEmpty(t, r) \/ StartForeach(t, r)
      BY <1>0, <2>4, <3>1, <3>2, FqStart DEF StartEmpty, StartForeach
    <3>3. CASE \E g \in Groups : StartAddGroup(t, r, g)
      <4>1. PICK g \in Groups : StartAddGroup(t, r, g)
        BY <3>3
      <4> DEFINE o == [OpInit(r) EXCEPT !.g = g]
      <4>2. o.known = {} /\ o.visitor = "user"
        BY <3>1
      <4>3. QED
        BY <1>0, <2>4, <4>1, <4>2, FqStart DEF StartAddGroup
    <3>4. CASE \E q \in Qoss : StartFromQos(t, r, q)
      <4>1. PICK q \in Qoss : StartFromQos(t, r, q)
        BY <3>4
      <4> DEFINE o == [OpInit(r) EXCEPT !.qos = q]
      <4>2. o.known = {} /\ o.visitor = "user" /\ o.i = 1 /\ o.res = 0
        BY <3>1
      <4>3. QED
        BY <1>0, <2>4, <4>1, <4>2, FqStart DEF StartFromQos
    <3>5. CASE \E src \in GroupSets : StartAdd(t, r, src)
      <4>1. PICK src \in GroupSets : StartAdd(t, r, src)
        BY <3>5
      <4> DEFINE o == [OpInit(r) EXCEPT !.src = src, !.visitor = "add"]
      <4>2. /\ o.known = {} /\ o.visitor = "add"
            /\ <<o.gs, o.src>> = <<r, src>>
        BY DEF OpInit
      <4>3. <<r, src>> \in AddPairs
        BY <4>1 DEF StartAdd
      <4>4. QED
        BY <1>0, <2>4, <4>1, <4>2, <4>3, FqStart DEF StartAdd
    <3>6. QED
      BY <1>5, <3>2, <3>3, <3>4, <3>5
  <2>5. QED
    BY <2>1, <2>4
<1>6. ASSUME NEW t \in Threads, AddGroupLocked(t) PROVE FqPer(u)'
  <2>1. PICK o \in AddGroup(entries[op[t].gs], op[t].g) :
               entries' = [entries EXCEPT ![op[t].gs] = o.tree]
               /\ Return(t, o.res)
    BY <1>6 DEF AddGroupLocked
  <2>2. o.res \in Int /\ entries[op[t].gs] \subseteq o.tree
        /\ op[t].gs \in GroupSets /\ kgroups' = kgroups
    BY <1>6, <1>T, AddGroupGrows DEF AddGroupLocked, OpRec, ERR_OUT_OF_MEMORY
  <2>3. CASE u = t
    BY <1>0, <2>1, <2>2, <2>3, FqReturn
  <2>4. CASE u # t
    <3>1. pc'[u] = pc[u] /\ op'[u] = op[u]
      BY <1>T, <2>1, <2>4 DEF Return
    <3>2. QED
      BY <1>2, <2>1, <2>2, <3>1
  <2>5. QED
    BY <2>3, <2>4
<1>7. ASSUME NEW t \in Threads, EmptyLocked(t) PROVE FqPer(u)'
  <2>1. Return(t, IF entries[op[t].gs] = {} THEN 1 ELSE 0)
        /\ entries' = entries /\ kgroups' = kgroups
    BY <1>7 DEF EmptyLocked
  <2>2. CASE u = t
    BY <1>0, <2>1, <2>2, FqReturn
  <2>3. CASE u # t
    BY <1>1, <1>T, <2>1, <2>3 DEF Return
  <2>4. QED
    BY <2>2, <2>3
<1>8. ASSUME NEW t \in Threads, FqLock(t) \/ FqSkip(t) \/ FqLookup(t)
      PROVE  FqPer(u)'
  <2>1. CASE u = t
    BY <1>0, <1>8, <2>1, FqLockSelf, FqSkipSelf, FqLookupSelf
  <2>2. CASE u # t
    <3>1. pc'[u] = pc[u] /\ op'[u] = op[u] /\ UNCHANGED <<entries, kgroups>>
      BY <1>T, <1>8, <2>2 DEF FqLock, FqSkip, FqLookup
    <3>2. QED
      BY <1>1, <3>1
  <2>3. QED
    BY <2>1, <2>2
<1>9. ASSUME NEW t \in Threads, FqAdd(t) PROVE FqPer(u)'
  <2>1. CASE u = t
    BY <1>0, <1>9, <2>1, FqAddSelf
  <2>2. CASE u # t
    <3>1. PICK o \in AddGroup(entries[op[t].gs], op[t].g) :
            /\ entries' = [entries EXCEPT ![op[t].gs] = o.tree]
            /\ op' = [op EXCEPT ![t].res = o.res, ![t].i = @ + 1,
                                ![t].g = NoGroup]
      BY <1>9 DEF FqAdd
    <3>2. /\ pc'[u] = pc[u] /\ op'[u] = op[u] /\ kgroups' = kgroups
          /\ op[t].gs \in GroupSets
          /\ entries[op[t].gs] \subseteq o.tree
      BY <1>T, <1>9, <2>2, <3>1, AddGroupGrows DEF FqAdd, OpRec
    <3>3. QED
      BY <1>2, <3>1, <3>2
  <2>3. QED
    BY <2>1, <2>2
<1>10. ASSUME NEW t \in Threads, FqUnlock(t) \/ FeUnlock(t)
       PROVE  FqPer(u)'
  <2>1. Return(t, op[t].res) /\ entries' = entries /\ kgroups' = kgroups
    BY <1>10 DEF FqUnlock, FeUnlock
  <2>2. op[t].res \in Int
    BY <1>T DEF OpRec
  <2>3. CASE u = t
    BY <1>0, <2>1, <2>2, <2>3, FqReturn
  <2>4. CASE u # t
    BY <1>1, <1>T, <2>1, <2>4 DEF Return
  <2>5. QED
    BY <2>3, <2>4
<1>11. ASSUME NEW t \in Threads, FeLock(t) PROVE FqPer(u)'
  <2>1. CASE u = t
    <3>1. /\ pc'[t] = "fe_walk"
          /\ op'[t] = [op[t] EXCEPT !.g = FindMin(entries[op[t].src])]
          /\ kgroups' = kgroups
      BY <1>T, <1>11 DEF FeLock
    <3>2. op[t] \in OpRec
      BY <1>T
    <3>3. QED
      BY <1>0, <2>1, <3>1, <3>2, FqWalk DEF OpRec
  <2>2. CASE u # t
    BY <1>1, <1>T, <1>11, <2>2 DEF FeLock
  <2>3. QED
    BY <2>1, <2>2
<1>12. ASSUME NEW t \in Threads, FeVisitUser(t) \/ FeVisitAdd(t)
       PROVE  FqPer(u)'
  <2>1. PICK v : Visited(t, v)
    BY <1>12 DEF FeVisitUser, FeVisitAdd
  <2>2. pc' = pc /\ pc[t] = "fe_walk" /\ kgroups' = kgroups
    BY <1>12 DEF FeVisitUser, FeVisitAdd, FeWalking
  <2>3. CASE u = t
    <3>1. op'[t].known = op[t].known
      BY <1>T, <2>1 DEF Visited, OpRec
    <3>2. QED
      BY <1>0, <2>1, <2>2, <2>3, <3>1, VisitedFields, FqWalk
  <2>4. CASE u # t
    <3>1. op'[u] = op[u]
      BY <1>0, <2>1, <2>4, VisitedFields
    <3>2. CASE FeVisitUser(t)
      BY <1>1, <2>2, <3>1, <3>2 DEF FeVisitUser
    <3>3. CASE FeVisitAdd(t)
      <4>1. PICK o \in AddGroup(entries[op[t].gs], op[t].g) :
                   entries' = [entries EXCEPT ![op[t].gs] = o.tree]
        BY <3>3 DEF FeVisitAdd
      <4>2. op[t].gs \in GroupSets /\ entries[op[t].gs] \subseteq o.tree
        BY <1>T, <4>1, AddGroupGrows DEF OpRec
      <4>3. QED
        BY <1>2, <2>2, <3>1, <4>1, <4>2
    <3>4. QED
      BY <1>12, <3>2, <3>3
  <2>5. QED
    BY <2>3, <2>4
<1>13. CASE UNCHANGED vars
  BY <1>1, <1>13 DEF vars
<1>14. QED
  BY <1>3, <1>4, <1>5, <1>6, <1>7, <1>8, <1>9, <1>10, <1>11, <1>12, <1>13
  DEF Next

\* The invariant is inductive.
LEMMA LInvStep == LInv /\ [Next]_vars => LInv'
<1> SUFFICES ASSUME LInv, [Next]_vars PROVE LInv'
  OBVIOUS
<1>1. WInv'
  BY WInvStep DEF LInv
<1>2. OwnersHold'
  BY OwnersStep
<1>3. \A u \in Threads : FqPer(u)'
  BY FqStep
<1>4. QED
  BY <1>1, <1>2, <1>3 DEF LInv

-----------------------------------------------------------------------------
(* The theorems.                                                           *)

\* Lines 86-147 of q_groupset.c (LOCK in nn_groupset_fromqos and
\* nn_groupset_foreach, and LOCK (gs) in nn_groupset_add_helper while the
\* walk holds src's lock): when every caller of nn_groupset_add(gs, src) passes
\* a gs below src in one fixed ranking of the group sets, no set of
\* threads ever waits in a circle on the group-set mutexes.
THEOREM NoCircularWaitInvariant ==
  ASSUME LockOrder
  PROVE  Spec => []NoCircularWait
<1>1. LInv => NoCircularWait
  BY LInvNoCircularWait
<1>2. QED
  BY <1>1, LInvInit, LInvStep, PTL DEF Spec

\* Only UNLOCK (gs) at out: returns from nn_groupset_fromqos's loop.
LEMMA FqEnds ==
  ASSUME TypeInv, [Next]_vars, NEW t \in Threads,
         pc[t] = "fq_next", pc'[t] = "idle"
  PROVE  FqUnlock(t)
<1>0. DOMAIN pc = Threads /\ op \in [Threads -> OpRec]
  BY DEF TypeInv, TypeOK
<1>1. ASSUME NEW w \in Threads, NEW res, Return(w, res), w # t
      PROVE  FALSE
  BY <1>0, <1>1 DEF Return
<1>2. ASSUME NEW w \in Threads, NEW l, pc' = [pc EXCEPT ![w] = l], w # t
      PROVE  FALSE
  BY <1>0, <1>2
<1>3. CASE \E k \in KernelKeys : KernelCreateGroup(k)
  BY <1>3 DEF KernelCreateGroup
<1>4. CASE \E r \in GroupSets : NewGroupSet(r) \/ FreeGroupSet(r)
  BY <1>4 DEF NewGroupSet, FreeGroupSet
<1>5. ASSUME NEW w \in Threads, NEW r \in GroupSets,
             \/ StartEmpty(w, r) \/ StartForeach(w, r)
             \/ \E g \in Groups : StartAddGroup(w, r, g)
             \/ \E q \in Qoss : StartFromQos(w, r, q)
             \/ \E src \in GroupSets : StartAdd(w, r, src)
      PROVE  FqUnlock(t)
  <2>1. w # t
    BY <1>5 DEF StartEmpty, StartForeach, StartAddGroup, StartFromQos,
                StartAdd, Idle
  <2>2. QED
    BY <1>2, <1>5, <2>1 DEF StartEmpty, StartForeach, StartAddGroup,
                            StartFromQos, StartAdd
<1>6. ASSUME NEW w \in Threads, AddGroupLocked(w) \/ EmptyLocked(w)
      PROVE  FqUnlock(t)
  <2>1. w # t
    BY <1>6 DEF AddGroupLocked, EmptyLocked
  <2>2. QED
    BY <1>1, <1>6, <2>1 DEF AddGroupLocked, EmptyLocked
<1>7. ASSUME NEW w \in Threads,
             FqLock(w) \/ FqSkip(w) \/ FqLookup(w) \/ FqAdd(w) \/ FeLock(w)
             \/ FeVisitUser(w) \/ FeVisitAdd(w)
      PROVE  FqUnlock(t)
  <2>1. CASE FqSkip(w) \/ FeVisitUser(w) \/ FeVisitAdd(w)
    BY <2>1 DEF FqSkip, FeVisitUser, FeVisitAdd
  <2>2. CASE FqLock(w) \/ FqLookup(w) \/ FqAdd(w) \/ FeLock(w)
    <3>1. w = t => pc'[t] # "idle"
      BY <1>0, <2>2 DEF FqLock, FqLookup, FqAdd, FeLock
    <3>2. QED
      BY <1>2, <2>2, <3>1 DEF FqLock, FqLookup, FqAdd, FeLock
  <2>3. QED
    BY <1>7, <2>1, <2>2
<1>8. ASSUME NEW w \in Threads, FqUnlock(w) PROVE FqUnlock(t)
  BY <1>1, <1>8 DEF FqUnlock
<1>9. ASSUME NEW w \in Threads, FeUnlock(w) PROVE FqUnlock(t)
  <2>1. w # t
    BY <1>9 DEF FeUnlock
  <2>2. QED
    BY <1>1, <1>9, <2>1 DEF FeUnlock
<1>10. CASE UNCHANGED vars
  BY <1>10 DEF vars
<1>11. QED
  BY <1>3, <1>4, <1>5, <1>6, <1>7, <1>8, <1>9, <1>10 DEF Next

\* The step of FromQosComplete: nn_groupset_fromqos returns a
\* non-negative result only after the last partition, with every
\* add_group succeeding.
LEMMA FromQosStep ==
  ASSUME LInv, [Next]_vars
  PROVE  [\A t \in Threads :
            (pc[t] = "fq_next" /\ pc'[t] = "idle" /\ ret'[t] >= 0) =>
              Named(op[t].qos, op[t].known) \subseteq entries'[op[t].gs]]_vars
<1> SUFFICES ASSUME NEW t \in Threads, pc[t] = "fq_next", pc'[t] = "idle",
                    ret'[t] >= 0
             PROVE  Named(op[t].qos, op[t].known) \subseteq entries'[op[t].gs]
  OBVIOUS
<1>0. TypeInv /\ FqPer(t)
  BY DEF LInv, WInv
<1>1. FqUnlock(t)
  BY <1>0, FqEnds
<1>2. /\ ret'[t] = op[t].res /\ entries' = entries
      /\ (op[t].res < 0 \/ op[t].i > Len(Parts(op[t].qos)))
  BY <1>0, <1>1 DEF FqUnlock, Return, TypeInv, TypeOK
<1>3. op[t] \in OpRec
  BY <1>0 DEF TypeInv, TypeOK
<1>4. /\ op[t].res \in Int /\ Len(Parts(op[t].qos)) \in Nat
      /\ op[t].qos \in Qoss
  BY <1>3, PartsType DEF OpRec
<1>5. op[t].res >= 0 /\ op[t].i - 1 = Len(Parts(op[t].qos))
  BY <1>0, <1>2, <1>4 DEF FqPer, FqBounds
<1>6. NamedUpTo(op[t], Len(Parts(op[t].qos))) \subseteq entries[op[t].gs]
  BY <1>0, <1>5 DEF FqPer, FqSoFar
<1>7. QED
  BY <1>2, <1>4, <1>6, NamedAll

\* Lines 57-74 and 86-108 of q_groupset.c: when nn_groupset_fromqos
\* returns a non-negative result, gs holds the group of every concrete
\* partition of the QoS (the "" partition when it names none) whose kernel
\* group existed when it took gs's lock. Wildcard partitions and groups
\* missing from the kernel are skipped, and the lock keeps anyone from
\* taking a group out.
THEOREM FromQosCompleteProperty ==
  Spec => FromQosComplete
<1>1. LInv /\ [Next]_vars =>
        [\A t \in Threads :
           (pc[t] = "fq_next" /\ pc'[t] = "idle" /\ ret'[t] >= 0) =>
             Named(op[t].qos, op[t].known) \subseteq entries'[op[t].gs]]_vars
  BY FromQosStep
<1>2. QED
  BY <1>1, LInvInit, LInvStep, PTL DEF Spec, FromQosComplete

=============================================================================
