------------------------------ MODULE GroupSet ------------------------------
(***************************************************************************)
(* The DDSI2 group set (src/services/ddsi2/code/q_groupset.c): a mutex-   *)
(* guarded AVL tree of kernel delivery groups, keyed by the v_group       *)
(* pointer.  Several threads call its operations on several group sets;   *)
(* the kernel's group set (v_groupSetGet) creates groups concurrently.    *)
(*                                                                         *)
(* Each operation is split at the points where another thread can act:    *)
(* the acquisition of a group-set mutex, and, inside nn_groupset_fromqos, *)
(* the window in which a transient kernel reference is held.  Work done   *)
(* under a mutex that no other thread can observe is one step.            *)
(***************************************************************************)
EXTENDS Integers, Sequences, FiniteSets

CONSTANTS
  Threads,        \* threads calling the group-set operations
  GroupSets,      \* struct nn_groupset instances (addresses)
  Groups,         \* v_group addresses; their order is pointer order
  Partitions,     \* partition names that occur in QoS settings
  Wildcards,      \* the partition names containing '?' or '*'
  EmptyPartition, \* the partition name ""
  Topics,         \* topic names
  GroupOf,        \* the kernel group for a (concrete partition, topic)
  Qoss,           \* nn_xqos_t values passed to nn_groupset_fromqos
  VisitorResults, \* values a caller's nn_groupset_foreach_t may return
  AddPairs,       \* <<gs, add>> pairs for which callers do nn_groupset_add
  NoGroup,        \* the NULL v_group
  NoOwner         \* an unlocked mutex has no owner

Concrete == Partitions \ Wildcards
KernelKeys == Concrete \X Topics

ASSUME ThreadsAssumption == IsFiniteSet(Threads) /\ Threads # {}
ASSUME GroupSetsAssumption == GroupSets # {}
ASSUME GroupsAssumption == Groups \subseteq Nat /\ IsFiniteSet(Groups)
ASSUME PartitionAssumption ==
  /\ Wildcards \subseteq Partitions
  /\ EmptyPartition \in Concrete
ASSUME GroupOfAssumption == GroupOf \in [KernelKeys -> Groups]
ASSUME QosAssumption ==
  /\ Qoss \subseteq [topic : Topics, partition : Seq(Partitions)]
  /\ Qoss # {}
ASSUME VisitorAssumption == VisitorResults \subseteq Int
ASSUME AddPairsAssumption == AddPairs \subseteq GroupSets \X GroupSets
ASSUME SentinelAssumption ==
  /\ NoGroup \notin Groups
  /\ NoOwner \notin Threads

\* q_error.h: ERR_OUT_OF_MEMORY is a negative error code.
ERR_OUT_OF_MEMORY == -1

VARIABLES
  live,     \* live[r]: nn_groupset_new returned r and it is not freed
  entries,  \* entries[r]: the groups in r's grouptree
  owner,    \* owner[r]: the thread holding r's mutex, or NoOwner
  kgroups,  \* the (partition, topic) pairs the kernel has a group for
  refs,     \* refs[g]: references on g taken by this code (c_keep/c_free)
  pc,       \* pc[t]: where thread t is in its current operation
  op,       \* op[t]: arguments and locals of t's current operation
  ret       \* ret[t]: what t's last operation returned

vars == <<live, entries, owner, kgroups, refs, pc, op, ret>>

-----------------------------------------------------------------------------
(* Helpers translated from the AVL tree and the group lookup.              *)

\* avl_findmin: the smallest key, NULL for an empty tree.
FindMin(E) ==
  IF E = {} THEN NoGroup ELSE CHOOSE x \in E : \A y \in E : x =< y

\* Mutant: the successor search compares with >= instead of >.
FindSuccNotAbove(E, g) == FindMin({x \in E : x >= g})

\* avl_findsucc: the smallest key above g, NULL if there is none.
FindSucc(E, g) == FindMin({x \in E : x > g})

\* add_group: look g up; when absent, os_malloc an entry (which may fail)
\* and insert it.  The set of (tree, result) outcomes.
AddGroup(E, g) ==
  IF g \in E
  THEN {[tree |-> E, res |-> 0]}
  ELSE {[tree |-> E \cup {g}, res |-> 0],
        [tree |-> E, res |-> ERR_OUT_OF_MEMORY]}

\* nn_groupset_fromqos: an absent or empty partition list means "".
Parts(q) == IF Len(q.partition) = 0 THEN <<EmptyPartition>> ELSE q.partition

\* The groups v_groupSetGet can return: one per pair the kernel knows.
KernelGroups == {GroupOf[k] : k \in kgroups}

OpRec == [gs : GroupSets, src : GroupSets, visitor : {"user", "add"},
          qos : Qoss, i : Nat, g : Groups \cup {NoGroup}, res : Int,
          visited : Seq(Groups), rets : Seq(Int), known : SUBSET KernelKeys]

\* The locals a thread starts an operation with.
OpInit(r) == [gs |-> r, src |-> r, visitor |-> "user",
              qos |-> CHOOSE q \in Qoss : TRUE, i |-> 1, g |-> NoGroup,
              res |-> 0, visited |-> <<>>, rets |-> <<>>, known |-> {}]

\* The locals of an idle thread.
NoOp == OpInit(CHOOSE r \in GroupSets : TRUE)

Idle(t) == pc[t] = "idle"

\* Return res to the caller; the locals go out of scope.
Return(t, res) ==
  /\ pc' = [pc EXCEPT ![t] = "idle"]
  /\ op' = [op EXCEPT ![t] = NoOp]
  /\ ret' = [ret EXCEPT ![t] = res]

\* A registry in use by some thread's operation.
InUse(r) == \E t \in Threads : ~Idle(t) /\ r \in {op[t].gs, op[t].src}

-----------------------------------------------------------------------------
Init ==
  /\ live = [r \in GroupSets |-> FALSE]
  /\ entries = [r \in GroupSets |-> {}]
  /\ owner = [r \in GroupSets |-> NoOwner]
  /\ kgroups = {}
  /\ refs = [g \in Groups |-> 0]
  /\ pc = [t \in Threads |-> "idle"]
  /\ op = [t \in Threads |-> NoOp]
  /\ ret = [t \in Threads |-> 0]

(* The kernel creates the group of a (partition, topic) pair.             *)
KernelCreateGroup(k) ==
  /\ k \notin kgroups
  /\ kgroups' = kgroups \cup {k}
  /\ UNCHANGED <<live, entries, owner, refs, pc, op, ret>>

(* nn_groupset_new: allocate, init the mutex and an empty tree.           *)
NewGroupSet(r) ==
  /\ ~live[r]
  /\ live' = [live EXCEPT ![r] = TRUE]
  /\ entries' = [entries EXCEPT ![r] = {}]
  /\ owner' = [owner EXCEPT ![r] = NoOwner]
  /\ UNCHANGED <<kgroups, refs, pc, op, ret>>

(* nn_groupset_free: free the entries (os_free only, no c_free of the     *)
(* groups) and destroy the mutex.  Callers free a set nobody else uses.   *)
FreeGroupSet(r) ==
  /\ live[r]
  /\ ~InUse(r)
  /\ owner[r] = NoOwner
  /\ live' = [live EXCEPT ![r] = FALSE]
  /\ entries' = [entries EXCEPT ![r] = {}]
  /\ UNCHANGED <<owner, kgroups, refs, pc, op, ret>>

-----------------------------------------------------------------------------
(* nn_groupset_add_group(gs, g): lock, add_group, unlock.                 *)
StartAddGroup(t, r, g) ==
  /\ Idle(t) /\ live[r]
  /\ g \in KernelGroups
  /\ pc' = [pc EXCEPT ![t] = "ag_lock"]
  /\ op' = [op EXCEPT ![t] = [OpInit(r) EXCEPT !.g = g]]
  /\ UNCHANGED <<live, entries, owner, kgroups, refs, ret>>

AddGroupLocked(t) ==
  LET r == op[t].gs IN
  /\ pc[t] = "ag_lock"
  /\ owner[r] = NoOwner
  /\ \E o \in AddGroup(entries[r], op[t].g) :
       /\ entries' = [entries EXCEPT ![r] = o.tree]
       /\ Return(t, o.res)
  /\ UNCHANGED <<live, owner, kgroups, refs>>

\* Mutant: nn_groupset_empty clears the tree instead of testing it.
EmptyClears(t) ==
  LET r == op[t].gs IN
  /\ pc[t] = "em_lock"
  /\ owner[r] = NoOwner
  /\ entries' = [entries EXCEPT ![r] = {}]
  /\ Return(t, IF entries[r] = {} THEN 1 ELSE 0)
  /\ UNCHANGED <<live, owner, kgroups, refs>>

(* nn_groupset_empty(gs): lock, avl_empty, unlock.                        *)
StartEmpty(t, r) ==
  /\ Idle(t) /\ live[r]
  /\ pc' = [pc EXCEPT ![t] = "em_lock"]
  /\ op' = [op EXCEPT ![t] = OpInit(r)]
  /\ UNCHANGED <<live, entries, owner, kgroups, refs, ret>>

EmptyLocked(t) ==
  LET r == op[t].gs IN
  /\ pc[t] = "em_lock"
  /\ owner[r] = NoOwner
  /\ Return(t, IF entries[r] = {} THEN 1 ELSE 0)
  /\ UNCHANGED <<live, entries, owner, kgroups, refs>>

-----------------------------------------------------------------------------
(* nn_groupset_fromqos(gs, kernel, qos): LOCK(gs), then for each          *)
(* partition add_group_by_name, leaving the loop at the first negative    *)
(* result (goto out), then UNLOCK(gs).                                    *)
StartFromQos(t, r, q) ==
  /\ Idle(t) /\ live[r]
  /\ pc' = [pc EXCEPT ![t] = "fq_lock"]
  /\ op' = [op EXCEPT ![t] = [OpInit(r) EXCEPT !.qos = q]]
  /\ UNCHANGED <<live, entries, owner, kgroups, refs, ret>>

\* known is a history variable: the kernel groups at the time of LOCK(gs).
FqLock(t) ==
  LET r == op[t].gs IN
  /\ pc[t] = "fq_lock"
  /\ owner[r] = NoOwner
  /\ owner' = [owner EXCEPT ![r] = t]
  /\ pc' = [pc EXCEPT ![t] = "fq_next"]
  /\ op' = [op EXCEPT ![t].known = kgroups]
  /\ UNCHANGED <<live, entries, kgroups, refs, ret>>

\* The partition add_group_by_name is called for in iteration i.
FqPartition(t) == Parts(op[t].qos)[op[t].i]
FqKey(t) == <<FqPartition(t), op[t].qos.topic>>

FqLooping(t) ==
  /\ pc[t] = "fq_next"
  /\ op[t].res >= 0
  /\ op[t].i =< Len(Parts(op[t].qos))

\* Mutant: the NULL check on v_groupSetGet's result is dropped, so a
\* missing kernel group is inserted as a NULL pointer.
FqSkipNoNullCheck(t) ==
  /\ FqLooping(t)
  /\ \/ /\ FqPartition(t) \in Wildcards
        /\ UNCHANGED entries
     \/ /\ FqPartition(t) \notin Wildcards
        /\ FqKey(t) \notin kgroups
        /\ entries' = [entries EXCEPT ![op[t].gs] = @ \cup {NoGroup}]
  /\ op' = [op EXCEPT ![t].i = @ + 1]
  /\ UNCHANGED <<live, owner, kgroups, refs, pc, ret>>

(* add_group_by_name returns 0 without a lookup for a wildcard partition, *)
(* and returns 0 after a failed lookup (TRACE "no kernel group").         *)
FqSkip(t) ==
  /\ FqLooping(t)
  /\ \/ FqPartition(t) \in Wildcards
     \/ FqKey(t) \notin kgroups
  /\ op' = [op EXCEPT ![t].i = @ + 1]
  /\ UNCHANGED <<live, entries, owner, kgroups, refs, pc, ret>>

(* v_groupSetGet found the group: it returns a new reference to it.       *)
FqLookup(t) ==
  /\ FqLooping(t)
  /\ FqPartition(t) \notin Wildcards
  /\ FqKey(t) \in kgroups
  /\ LET g == GroupOf[FqKey(t)] IN
       /\ refs' = [refs EXCEPT ![g] = @ + 1]
       /\ op' = [op EXCEPT ![t].g = g]
  /\ pc' = [pc EXCEPT ![t] = "fq_add"]
  /\ UNCHANGED <<live, entries, owner, kgroups, ret>>

\* Mutant: return res before c_free (g) when add_group failed.
FqAddLeakOnError(t) ==
  LET r == op[t].gs
      g == op[t].g IN
  /\ pc[t] = "fq_add"
  /\ \E o \in AddGroup(entries[r], g) :
       /\ entries' = [entries EXCEPT ![r] = o.tree]
       /\ op' = [op EXCEPT ![t].res = o.res, ![t].i = @ + 1,
                           ![t].g = NoGroup]
       /\ refs' = IF o.res < 0 THEN refs ELSE [refs EXCEPT ![g] = @ - 1]
  /\ pc' = [pc EXCEPT ![t] = "fq_next"]
  /\ UNCHANGED <<live, owner, kgroups, ret>>

(* res = add_group (gs, g); c_free (g); return res.                       *)
FqAdd(t) ==
  LET r == op[t].gs
      g == op[t].g IN
  /\ pc[t] = "fq_add"
  /\ \E o \in AddGroup(entries[r], g) :
       /\ entries' = [entries EXCEPT ![r] = o.tree]
       /\ op' = [op EXCEPT ![t].res = o.res, ![t].i = @ + 1,
                           ![t].g = NoGroup]
  /\ refs' = [refs EXCEPT ![g] = @ - 1]
  /\ pc' = [pc EXCEPT ![t] = "fq_next"]
  /\ UNCHANGED <<live, owner, kgroups, ret>>

\* Mutant: the error path returns without UNLOCK (gs).
FqUnlockNotOnError(t) ==
  LET r == op[t].gs IN
  /\ pc[t] = "fq_next"
  /\ op[t].res < 0 \/ op[t].i > Len(Parts(op[t].qos))
  /\ owner' = IF op[t].res < 0 THEN owner ELSE [owner EXCEPT ![r] = NoOwner]
  /\ Return(t, op[t].res)
  /\ UNCHANGED <<live, entries, kgroups, refs>>

\* Mutant: the loop stops one partition early (i < n - 1).
FqUnlockEarly(t) ==
  LET r == op[t].gs IN
  /\ pc[t] = "fq_next"
  /\ op[t].res < 0 \/ op[t].i >= Len(Parts(op[t].qos))
  /\ owner' = [owner EXCEPT ![r] = NoOwner]
  /\ Return(t, op[t].res)
  /\ UNCHANGED <<live, entries, kgroups, refs>>

(* out: UNLOCK (gs); return res.                                          *)
FqUnlock(t) ==
  LET r == op[t].gs IN
  /\ pc[t] = "fq_next"
  /\ op[t].res < 0 \/ op[t].i > Len(Parts(op[t].qos))
  /\ owner' = [owner EXCEPT ![r] = NoOwner]
  /\ Return(t, op[t].res)
  /\ UNCHANGED <<live, entries, kgroups, refs>>

-----------------------------------------------------------------------------
(* nn_groupset_foreach(src, f, arg): LOCK(src), walk the tree from        *)
(* avl_findmin by avl_findsucc while result >= 0, UNLOCK(src).  The       *)
(* visitor is either a caller's function ("user") or, for                 *)
(* nn_groupset_add(gs, src), nn_groupset_add_helper ("add").  visited and *)
(* rets are history variables: the groups passed to f and f's results.    *)
StartForeach(t, r) ==
  /\ Idle(t) /\ live[r]
  /\ pc' = [pc EXCEPT ![t] = "fe_lock"]
  /\ op' = [op EXCEPT ![t] = OpInit(r)]
  /\ UNCHANGED <<live, entries, owner, kgroups, refs, ret>>

StartAdd(t, gs, src) ==
  /\ Idle(t) /\ live[gs] /\ live[src]
  /\ <<gs, src>> \in AddPairs
  /\ pc' = [pc EXCEPT ![t] = "fe_lock"]
  /\ op' = [op EXCEPT ![t] = [OpInit(gs) EXCEPT !.src = src,
                                                !.visitor = "add"]]
  /\ UNCHANGED <<live, entries, owner, kgroups, refs, ret>>

FeLock(t) ==
  LET r == op[t].src IN
  /\ pc[t] = "fe_lock"
  /\ owner[r] = NoOwner
  /\ owner' = [owner EXCEPT ![r] = t]
  /\ op' = [op EXCEPT ![t].g = FindMin(entries[r])]
  /\ pc' = [pc EXCEPT ![t] = "fe_walk"]
  /\ UNCHANGED <<live, entries, kgroups, refs, ret>>

\* Mutant: the walk does not test result >= 0.
FeWalkingNoAbort(t) ==
  /\ pc[t] = "fe_walk"
  /\ op[t].g # NoGroup

FeWalking(t) ==
  /\ pc[t] = "fe_walk"
  /\ op[t].g # NoGroup
  /\ op[t].res >= 0

\* if ((r = f (e->group, arg)) < 0) result = r; else result += r;
\* then e = avl_findsucc.
Visited(t, v) ==
  op' = [op EXCEPT ![t].res = IF v < 0 THEN v ELSE @ + v,
                   ![t].g = FindSucc(entries[op[t].src], op[t].g),
                   ![t].visited = Append(@, op[t].g),
                   ![t].rets = Append(@, v)]

FeVisitUser(t) ==
  /\ FeWalking(t)
  /\ op[t].visitor = "user"
  /\ \E v \in VisitorResults : Visited(t, v)
  /\ UNCHANGED <<live, entries, owner, kgroups, refs, pc, ret>>

\* Mutant: nn_groupset_add_helper returns 0 instead of add_group's result.
FeVisitAddIgnoreResult(t) ==
  LET gs == op[t].gs IN
  /\ FeWalking(t)
  /\ op[t].visitor = "add"
  /\ owner[gs] = NoOwner
  /\ \E o \in AddGroup(entries[gs], op[t].g) :
       /\ entries' = [entries EXCEPT ![gs] = o.tree]
       /\ Visited(t, 0)
  /\ UNCHANGED <<live, owner, kgroups, refs, pc, ret>>

\* nn_groupset_add_helper: LOCK(gs); add_group; UNLOCK(gs) -- while the
\* walk still holds src's mutex.
FeVisitAdd(t) ==
  LET gs == op[t].gs IN
  /\ FeWalking(t)
  /\ op[t].visitor = "add"
  /\ owner[gs] = NoOwner
  /\ \E o \in AddGroup(entries[gs], op[t].g) :
       /\ entries' = [entries EXCEPT ![gs] = o.tree]
       /\ Visited(t, o.res)
  /\ UNCHANGED <<live, owner, kgroups, refs, pc, ret>>

FeUnlock(t) ==
  LET r == op[t].src IN
  /\ pc[t] = "fe_walk"
  /\ op[t].g = NoGroup \/ op[t].res < 0
  /\ owner' = [owner EXCEPT ![r] = NoOwner]
  /\ Return(t, op[t].res)
  /\ UNCHANGED <<live, entries, kgroups, refs>>

-----------------------------------------------------------------------------
Next ==
  \/ \E k \in KernelKeys : KernelCreateGroup(k)
  \/ \E r \in GroupSets : NewGroupSet(r) \/ FreeGroupSet(r)
  \/ \E t \in Threads :
       \/ \E r \in GroupSets :
            \/ StartEmpty(t, r) \/ StartForeach(t, r)
            \/ \E g \in Groups : StartAddGroup(t, r, g)
            \/ \E q \in Qoss : StartFromQos(t, r, q)
            \/ \E src \in GroupSets : StartAdd(t, r, src)
       \/ AddGroupLocked(t) \/ EmptyLocked(t)
       \/ FqLock(t) \/ FqSkip(t) \/ FqLookup(t) \/ FqAdd(t) \/ FqUnlock(t)
       \/ FeLock(t) \/ FeVisitUser(t) \/ FeVisitAdd(t) \/ FeUnlock(t)

Spec == Init /\ [][Next]_vars

(* The steps of an operation in progress that need no mutex beyond those  *)
(* the thread already holds.                                               *)
Local(t) ==
  \/ FqSkip(t) \/ FqLookup(t) \/ FqAdd(t) \/ FqUnlock(t)
  \/ FeVisitUser(t) \/ FeUnlock(t)

(* A running thread is not stopped forever by the scheduler: weak fairness *)
(* of its lock-free steps. Acquiring a mutex gets no fairness (a pthread   *)
(* mutex promises none), and no thread is obliged to start an operation.   *)
FairSpec == Spec /\ \A t \in Threads : WF_vars(Local(t))

-----------------------------------------------------------------------------
(* Properties.                                                            *)

\* The type invariant (refs is only shown to stay in Nat by RefsBalanced).
TypeOK ==
  /\ live \in [GroupSets -> BOOLEAN]
  /\ entries \in [GroupSets -> SUBSET Groups]
  /\ owner \in [GroupSets -> Threads \cup {NoOwner}]
  /\ kgroups \subseteq KernelKeys
  /\ refs \in [Groups -> Int]
  /\ pc \in [Threads -> {"idle", "ag_lock", "em_lock", "fq_lock", "fq_next",
                         "fq_add", "fe_lock", "fe_walk"}]
  /\ op \in [Threads -> OpRec]
  /\ ret \in [Threads -> Int]

\* The threads holding the transient reference v_groupSetGet returned on g.
Holders(g) == {t \in Threads : pc[t] = "fq_add" /\ op[t].g = g}

\* add_group_by_name releases (c_free) the reference v_groupSetGet gave it
\* on every path, the add_group failure included: the references this code
\* holds on a group are exactly those of lookups still in progress.
RefsBalanced == \A g \in Groups : refs[g] = Cardinality(Holders(g))

\* The group-set mutex a thread is blocked on, if any: LOCK at the start of
\* an operation, or LOCK(gs) in nn_groupset_add_helper.
WaitsOn(t) ==
  CASE pc[t] \in {"ag_lock", "em_lock", "fq_lock"} -> {op[t].gs}
    [] pc[t] = "fe_lock" -> {op[t].src}
    [] FeWalking(t) /\ op[t].visitor = "add" -> {op[t].gs}
    [] OTHER -> {}

BlockedBy(t, u) == \E r \in WaitsOn(t) : owner[r] = u

\* No set of threads waits on mutexes held inside the set (a circular wait,
\* e.g. nn_groupset_add(a, b) and nn_groupset_add(b, a) running together,
\* or a mutex left locked by its own caller).
NoCircularWait ==
  ~\E S \in SUBSET Threads :
     /\ S # {}
     /\ \A t \in S : \E u \in S : BlockedBy(t, u)

\* nn_groupset_foreach hands f the groups of the tree in ascending pointer
\* order, each once, none skipped: while walking, the groups visited are
\* exactly those below the cursor, in increasing order.
ForeachVisitsInOrder ==
  \A t \in Threads : pc[t] = "fe_walk" =>
    LET E == entries[op[t].src]
        s == op[t].visited IN
    /\ \A i, j \in 1..Len(s) : i < j => s[i] < s[j]
    /\ {s[i] : i \in 1..Len(s)} =
         {x \in E : op[t].g = NoGroup \/ x < op[t].g}
    /\ op[t].g \in E \cup {NoGroup}

\* Sum of a sequence of integers.
SeqSum(s) ==
  LET f[i \in 0..Len(s)] == IF i = 0 THEN 0 ELSE f[i - 1] + s[i] IN f[Len(s)]

\* The walk's result is the sum of f's results when none is negative; a
\* negative result stops the walk and is returned as it is.
ForeachResult ==
  \A t \in Threads : pc[t] = "fe_walk" =>
    LET s == op[t].rets IN
    /\ \A i \in 1..Len(s) - 1 : s[i] >= 0
    /\ op[t].res = IF Len(s) > 0 /\ s[Len(s)] < 0 THEN s[Len(s)]
                   ELSE SeqSum(s)

\* The concrete groups a QoS names (the "" partition when it names none)
\* among the kernel groups in ks.
Named(q, ks) ==
  {GroupOf[k] : k \in {<<p, q.topic>> : p \in
      IF q.partition = <<>> THEN {EmptyPartition}
      ELSE {q.partition[i] : i \in 1..Len(q.partition)}} \cap ks}

\* When nn_groupset_fromqos succeeds, gs holds the group of every concrete
\* partition of the QoS whose kernel group existed when it took the lock.
FromQosComplete ==
  [][\A t \in Threads :
       (pc[t] = "fq_next" /\ pc'[t] = "idle" /\ ret'[t] >= 0) =>
         Named(op[t].qos, op[t].known) \subseteq entries'[op[t].gs]]_vars

\* When nn_groupset_add(gs, add) succeeds, every group of add is in gs.
AddUnion ==
  [][\A t \in Threads :
       (pc[t] = "fe_walk" /\ op[t].visitor = "add" /\ pc'[t] = "idle"
        /\ ret'[t] >= 0) =>
         entries'[op[t].src] \subseteq entries'[op[t].gs]]_vars

\* A mutex taken by nn_groupset_fromqos or by nn_groupset_foreach with a
\* caller's visitor is released again on every path, the early exits on a
\* failed add_group or a negative visitor result included.
LockReleased ==
  \A r \in GroupSets, t \in Threads :
    (owner[r] = t /\ op[t].visitor = "user") ~> owner[r] # t

\* The group set as its users see it (GroupSetAbstract): the registries,
\* their groups and the kernel's groups, unchanged.
Abs == INSTANCE GroupSetAbstract WITH Keys <- KernelKeys

\* Every step of every operation is a step of the abstract group set or
\* leaves it unchanged: a group set only grows, by one kernel group at a
\* time, while it is live, and only free drops its groups. The insertions
\* of nn_groupset_fromqos and nn_groupset_add are separate abstract steps.
Refines == Abs!ASpec

\* Spec (data model, concurrency model): a group stored in a group set is
\* kept alive by a reference of the set's own, distinct from the lookup's
\* transient one.
StoredGroupsReferenced ==
  \A g \in Groups :
    refs[g] >= Cardinality({r \in GroupSets : g \in entries[r]})
               + Cardinality(Holders(g))
=============================================================================
