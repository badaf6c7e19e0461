# Verification of the OpenSplice group set, ISO C++ deleters and ContentFilteredTopic example

This directory holds TLA+ models of the code under `src/`. It also holds the
TLC configurations that model-check them and TLAPS proofs about them.
`PROJECT.json` lists every component, run, mutant, hazard and theorem, and maps
every model definition to the source lines it translates.

## 1. Inventory

### Components

| Component | Source | State | Operations |
|---|---|---|---|
| Group registry (`nn_groupset`) | `src/src/services/ddsi2/code/q_groupset.c` | one mutex; an AVL tree of `v_group` pointers, ordered by pointer value (`compare_group_ptr`) | `nn_groupset_new`, `_free`, `_add_group`, `_fromqos`, `_foreach`, `_add`, `_empty` |
| Kernel group resolver (external) | called from `q_groupset.c:62,66` | the kernel's groups per (partition, topic); a reference count per group | `v_groupSetGet` (returns a new reference or NULL), `c_free` |
| Discovery protocol engine | `src/src/services/ddsi2/code/q_ddsi_discovery.h` (prototypes only) | the remote participants and endpoints (kept outside this core) | `spdp_write`, `spdp_dispose_unregister`, `sedp_write_writer/_reader`, `sedp_dispose_unregister_writer/_reader`, `nn_spdp_dqueue_handler`, `builtins_dqueue_handler` |
| Locator translator | same header (prototypes only) | none | `nn_loc_to_address`, `nn_address_to_loc` |
| ISO C++ entity deleters | `src/src/api/dcps/isocpp/code/org/opensplice/core/memory.cpp` | the entity reference being deleted | `DPDeleter`, `PubDeleter`, `DWDeleter`, `SubDeleter`, `DRDeleter`, `TopicDeleter`: delete through the factory, `check_and_throw`, `DDS::release` |
| ContentFilteredTopic example | `src/examples/dcps/ContentFilteredTopic/isocpp/implementation.cpp` | the publisher's loop counter; the subscriber's poll count, terminate flag and quote count | `publisher`: 20 rounds of two quotes, then a terminator pair. `subscriber`: at most 300 polls of `take()` through a content filter |
| Declarations only | Listener `implementation.hpp`, `TopicListener.hpp`, `TypeProvider.hpp`, WinCE `os_os_cond.h`, iShapes `ShapesDialog.hpp` | none | none |

### How the components interact

- Any number of threads call the group-set operations on any number of sets.
  Each set serialises its operations with its own mutex.
- `nn_groupset_fromqos` calls the kernel resolver once for each concrete partition.
  The resolver returns a new reference, and `add_group_by_name` releases it
  after inserting the pointer.
- `nn_groupset_add(gs, add)` runs `nn_groupset_foreach` over `add` with
  `nn_groupset_add_helper` as the visitor, and that visitor locks `gs`. This is
  the only place where one thread holds two set mutexes.
- The kernel creates groups concurrently with all of this.
- According to the spec, the discovery engine uses group sets to publish its own
  data, and its dqueue handlers are callbacks from the receive threads.

### What is hard

- **Lock nesting.** `nn_groupset_add` holds `add`'s mutex for the whole walk and
  locks `gs` once per element. Unions in opposite directions can therefore
  deadlock (`q_groupset.c:138`).
- **Reference counting on every path.** The lookup reference must be released
  on the allocation-failure path too (`:66`). A stored group holds no reference
  of the set's own (`:51`).
- **Non-atomic builds.** A failure mid-loop leaves earlier insertions in place
  (`:102`). A group created after its lookup is silently missed (`:71`).
- **The walk contract.** It visits in ascending pointer order and stops at the
  first negative visitor result (`:122-129`).
- **Frees without a lock.** `nn_groupset_free` takes no lock (`:112`).
- **Outside the group set.** A deleter whose delete fails throws before it
  releases, and keeps its parent referenced (`memory.cpp:27` and the five
  others). The example subscriber can time out against a late
  publisher (`implementation.cpp:180`).

### What makes each component correct

- **Group set.**
  - Lookup references are balanced.
  - No two threads wait on each other.
  - The walk visits every group once, in order, and returns the sum of the
    visitor results or the first negative one.
  - A successful build contains the group of every concrete partition that
    existed when it took the lock.
  - A successful union contains the whole source.
  - (Spec) Each stored group holds a reference of the set's own.
- **Discovery (spec).**
  - An entity is removed only after a dispose or a lease expiry.
  - A refresh keeps it alive.
  - A malformed sample never aborts the receive loop.
- **Deleters.** A delete never meets an existing child, or a writer or
  reader of its topic, and an unreferenced entity is eventually deleted
  unless a delete beneath it fails.
- **Example.** The subscriber counts exactly 20 quotes for its ticker when it
  sees the terminator, and sees the terminator within its 300 polls.

## 2. Modules and status

| Module | Models | Status |
|---|---|---|
| `GroupSet` | `q_groupset.c`, with the kernel resolver as environment | every operation |
| `GroupSetAbstract` | what a registry promises its users | abstract specification |
| `MC_GroupSet` | instance of `GroupSet` for TLC | |
| `GroupSetProofs` | type correctness, reference balance | TLAPS |
| `GroupSetRefinement` | `GroupSet` implements `GroupSetAbstract` | TLAPS |
| `GroupSetWalkProofs` | the walk's order, the union of `nn_groupset_add` | TLAPS |
| `GroupSetLockProofs` | no circular wait under a lock order, the groups `nn_groupset_fromqos` inserts | TLAPS |
| `Deleters` | `memory.cpp`: the six custom deleters and the entity references | every deleter |
| `MC_Deleters` | a participant with a publisher, writer, subscriber, reader and topic | |
| `DeletersProofs` | type correctness, use-count balance, no precondition failure | TLAPS |
| `CFTExample` | `implementation.cpp`: `publisher()`, `subscriber()` and the middleware between them | both functions |
| `MC_CFTExample` | two tickers and a symmetry over them | |
| `CFTExampleProofs` | type correctness, the subscriber's verdict, no unread quote overwritten | TLAPS |

Still open:
- a spec-modelled discovery module (only prototypes are in `src/`);
- a proof of `ForeachResult` (a sum over the visitor's results).

## 3. The `GroupSet` model

`GroupSet.tla` translates `q_groupset.c`.

### State

| Variable | Code |
|---|---|
| `live[r]` | `nn_groupset_new` returned `r` and `r` has not been freed |
| `entries[r]` | the keys of `r->grouptree` |
| `owner[r]` | the holder of `r->lock` |
| `kgroups` | the (partition, topic) pairs the kernel has groups for |
| `refs[g]` | the references on `g` taken and not yet released by this code |
| `pc[t]`, `op[t]` | thread `t`'s position and locals (`res`, `result`, the loop index, the current entry) |
| `ret[t]` | the last return value |

`op[t]` also holds three history variables used only by the properties:
- `visited`: the groups passed to the visitor;
- `rets`: the visitor's results;
- `known`: the kernel's groups when the build took the lock.

Group identities are integers, so their order is the pointer order.

### Actions

An operation is split wherever another thread can act in between:
- at each mutex acquisition;
- in `fromqos`, between `v_groupSetGet` and `c_free`.

Everything a thread does under a mutex that no one else can observe is one step.

| Code | Actions |
|---|---|
| `nn_groupset_add_group` | `StartAddGroup`, `AddGroupLocked` |
| `nn_groupset_empty` | `StartEmpty`, `EmptyLocked` |
| `nn_groupset_fromqos` | `StartFromQos`, `FqLock`, `FqSkip`, `FqLookup`, `FqAdd`, `FqUnlock` |
| `nn_groupset_foreach` | `StartForeach`, `FeLock`, `FeVisitUser`, `FeUnlock` |
| `nn_groupset_add` | `StartAdd`, `FeLock`, `FeVisitAdd`, `FeUnlock` |
| `nn_groupset_new`, `nn_groupset_free` | `NewGroupSet`, `FreeGroupSet` |
| the kernel | `KernelCreateGroup` |

- `FqSkip` covers a wildcard partition, or a failed lookup that is only traced.
- `FqLookup` is a successful lookup, which takes a reference.
- `FqAdd` is `add_group` followed by `c_free`.
- `FqUnlock` is `out:`.
- `FeVisitAdd` is `nn_groupset_add_helper`.

`add_group`'s `os_malloc` may fail. The `AddGroup` operator gives both outcomes.
A user visitor returns any value of `VisitorResults`.

`nn_groupset_new`'s allocation failure changes no state and is not a separate
step. `FreeGroupSet` requires that no thread is using the set. That is the
callers' obligation, and the callers are outside the repository.

### Properties

Each property is stated in the module with a comment.

| Property | Kind | What it says |
|---|---|---|
| `TypeOK` | invariant | Type invariant. |
| `RefsBalanced` | invariant | `refs[g]` equals the number of threads between `v_groupSetGet` and `c_free`. |
| `NoCircularWait` | invariant | No non-empty set of threads is blocked on mutexes held inside the set. |
| `ForeachVisitsInOrder` | invariant | During a walk, the visited groups are strictly ascending and are exactly the tree's keys below the cursor. |
| `ForeachResult` | invariant | The walk's result is the sum of the visitor results. If a visitor result is negative, it is the last one and it is the result. |
| `FromQosComplete` | action property | A build that returns a non-negative result contains the group of every concrete partition of the QoS whose group existed when the build locked the set. `""` stands in for an empty list. |
| `AddUnion` | action property | A union that returns a non-negative result leaves the source included in the destination. |
| `StoredGroupsReferenced` | invariant | The spec's rule that each stored group holds a reference of the set's own. |
| `LockReleased` | liveness | A thread that holds a set's mutex in `fromqos`, or in a walk with a user visitor, eventually releases it. |
| `Refines` | refinement | Every step is a step of `GroupSetAbstract`, or leaves the registries and the kernel's groups unchanged. |

### The abstract specification

`GroupSetAbstract` keeps only the state a user sees: `live`, `entries` and the
kernel's `kgroups`. Its actions:
- `ANew` and `AFree`: a registry is created empty and is dropped whole;
- `ACreateGroup`: the kernel creates a group;
- `AInsert(r, g)`: a group the kernel has, and that `r` does not yet hold, is
  added to a live `r`.

None of these change anything a user sees: a walk, an emptiness test, a
lookup, a failed insertion, or any lock step. `GroupSet` instantiates the
abstract module with the identity mapping on the three variables (`Abs ==
INSTANCE GroupSetAbstract WITH Keys <- KernelKeys`). The mapping hides the
locks, the threads' positions and locals, and the reference counts.
`Refines == Abs!ASpec` is checked by TLC and proved by TLAPS.

### Fairness

`FairSpec` adds weak fairness on `Local(t)`. These are the steps that need no
mutex beyond those the thread already holds: `FqSkip`, `FqLookup`, `FqAdd`,
`FqUnlock`, `FeVisitUser` and `FeUnlock`. This states that a running thread is
not descheduled forever. Acquiring a mutex gets no fairness, because a pthread
mutex promises none, and no thread is obliged to start an operation.
`FeVisitAdd` is not in `Local`, because it locks the destination set. A union
can therefore wait forever behind other users of that set, and the model does
not claim otherwise.

## 4. The `Deleters` model

`Deleters.tla` translates `memory.cpp`. Each DDS entity is held by a
`shared_ptr` with a custom deleter. The constructors of `PubDeleter`,
`SubDeleter` and `TopicDeleter` copy the participant's `shared_ptr`.
`DWDeleter` copies the publisher's, and `DRDeleter` the subscriber's.
A writer or reader is also created for a topic. Its `dds::` object (outside
this repository) keeps the topic's reference until the writer or reader is
deleted; the model takes that as an assumption about the environment.

| Variable | Code |
|---|---|
| `phase[e]` | `none`; `alive`; `disposing` (use count 0, deleter running); `deleted`; `thrown` (`check_and_throw` threw) |
| `handles[e]` | the application's reference to `e` |
| `uses[e]` | the `shared_ptr` use count: the application's reference, plus the deleters of `e`'s children, plus (for a topic) its writers and readers |
| `result[e]` | the last return code of `delete_<kind>` |

- `Create(e)` creates `e` through live references to its parent and, for a
  writer or reader, its topic (`Held(e)`). The new deleter copies the parent
  reference (`HoldParent`), and the writer or reader object keeps the topic
  (`TopicRef`).
- `Drop(e)` releases a reference. The last one hands `e` to its deleter.
- `RunDeleter(e)` is the shared body of the six deleters: `delete_<kind>`
  (`DeleteOutcomes`), then `check_and_throw`, then `DDS::release`. On `OK`, the
  deleter object is destroyed, and with it the parent reference
  (`ReleaseParent`); a deleted writer or reader drops its topic too. If that
  was the parent's or topic's last use, it goes to its own deleter in the same
  thread (`Handover`). On any other return code, the
  exception leaves the deleter, and nothing is released.
- `DPDeleter` … `TopicDeleter` are `RunDeleter` restricted to one kind.
- `delete_<kind>` returns `PRECONDITION_NOT_MET` while a contained entity
  exists, and `delete_topic` while a writer or reader of the topic exists
  (`Dependents`). It may return `ERROR` when the constant `MayFail` is true,
  which the run sets.

A delete that fails throws at `check_and_throw`, before `DDS::release`, and
the deleter object keeps its parent reference for good. That is not a defect
of the order: once `delete_<kind>` has failed, no order of the release could
delete the entity, and a parent released early would meet the failed child
(`RunDeleterReleaseOnThrow` is that variant, and `NoPreconditionFailure`
catches it).

`Create`, `Drop`, `Handover` and `TopicRef` are the environment: the
application and the `shared_ptr` machinery, not lines of `memory.cpp`. They
are not in the map.

`Spec` has weak fairness on each `RunDeleter(e)`. The thread that dropped the
last reference runs the deleter to its end. The application itself is not
obliged to create or drop anything.

| Property | Kind | What it says |
|---|---|---|
| `TypeOK` | invariant | Type invariant. |
| `UsesBalanced` | invariant | A live entity's use count is its user reference plus one per existing dependent (child, or writer and reader of a topic). |
| `NoPreconditionFailure` | invariant | No `delete_<kind>` returns `PRECONDITION_NOT_MET`, failed deletes included. |
| `Reclaimed` | liveness | An entity that nobody references, and of which nothing in its subtree (its dependents, two levels down) is referenced, is eventually deleted, unless a `delete_<kind>` in that subtree returned `ERROR`. A failed delete keeps its references for good, whatever the code does, so no stronger statement can hold. |

## 5. The `CFTExample` model

`CFTExample.tla` translates `publisher()` and `subscriber()` of the
ContentFilteredTopic example. They are two processes over a discrete clock
`now`. One tick is the subscriber's 200 ms sleep, and the publisher's 1 s
sleep is `PubPeriod` ticks.

- **Publisher.**
  - `PubStart` creates the entities.
  - `PubWrite` runs one loop round, writing both quotes.
  - `PubTerminate` writes the terminator pair.
  - `PubExit` deletes the writer on return.
- **Subscriber.**
  - `SubNoArg` is the `argc < 2` return.
  - `SubStart(arg)` creates the filtered reader. The transient store hands it
    the last stored sample of its ticker.
  - `SubPoll` runs one loop iteration: `take()`, the valid, terminator and
    ticker checks, then the sleep.
  - `SubFinish` is the verdict of lines 207–221.
- **Middleware.**
  - `store` holds the transient store's last sample per ticker.
  - `cache` is the reader's KEEP_LAST(1) history.
  - `WriteAll` delivers a write to both, through the filter (`Admits`).
  - With `AutoDisposeUnregisteredInstances`, the writer's deletion may purge
    the store, and it gives a reader that has nothing unread an invalid
    sample.
- **Scheduling.** `Tick` advances time when no program has a step due.

Prices are abstracted to "terminator or not". The 20 rounds and 300 polls are
scaled to `Rounds = 3` and `MaxPolls = 45`, with `PubPeriod = 5`. This keeps
the code's 3 : 1 ratio of poll budget (300 × 200 ms = 60 s) to publishing time
(20 × 1 s), so a timely subscriber has the same slack as in the code. The spec has no fairness. The property is about the verdict
when the subscriber returns, and the subscriber always returns, because its
loop is bounded.

| Property | Kind | What it says |
|---|---|---|
| `TypeOK` | invariant | Type invariant. |
| `SubscriberVerdict` | invariant | Result 0 implies a published ticker and a reader created before the second round. A reader created before the first write, that sees the terminator within its poll budget, returns 0. |
| `NoUnreadOverwritten` | action property | For a reader created before the first write, a valid unread sample is never replaced: 200 ms polls against 1 s writes. |

## 6. Runs

`MC_GroupSet.tla` fixes the group-set instance:
- threads `t1`, `t2`; sets `gA`, `gB`; one topic;
- partitions: the default `PE` (group 1), `P1` (group 2), and the wildcard
  `PW`;
- two QoS values: one with no partition list, and `<<P1, PW, P1>>`. The second
  makes `add_group` meet a group that is already present, and puts a wildcard
  between two lookups;
- visitor results `{-1, 1}`.

Symmetry over the threads is sound for the safety run, because nothing in the
code distinguishes threads. The liveness run uses no symmetry.

`MC_Deleters.tla` has one entity of each kind: `dp`, with `pub` (writer `dw`),
`sub` (reader `dr`) and `topic`, which `dw` and `dr` are for. Every
parent-child pair of the API occurs, and so does a topic with a writer and a
reader. `MayFail = TRUE`, so every delete may also fail with `ERROR`.
Deadlock is not checked, because the application ends once everything is
deleted.

`MC_CFTExample.tla` has the tickers `GE` and `MSFT` with symmetry, a ticker
nobody publishes, and a missing argument. `LaunchWindow = 35` lets either
program start before, during or after the other's run. It also covers a
subscriber that starts too late for its poll budget.

| Run | Config | Expect | Shows |
|---|---|---|---|
| `groupset_safety` | `MC_GroupSet.cfg` | pass | With `AddPairs = {<<gA, gB>>}`, callers union in one direction only. All eight properties hold, including `Refines`: about 357,000 distinct states, with every action taken. |
| `groupset_lock_release` | `MC_GroupSet_Live.cfg` | pass | `LockReleased` under `FairSpec`: about 712,000 distinct states. |
| `groupset_add_both_ways` | `MC_GroupSet_Deadlock.cfg` | violation of `NoCircularWait` | `t1` in `add(gA, gB)` holds `gB` and waits for `gA`, while `t2` in `add(gB, gA)` holds `gA` and waits for `gB`. |
| `groupset_stored_refs` | `MC_GroupSet_Refs.cfg` | violation of `StoredGroupsReferenced` | After one build, a group is in a set and `refs` is back to 0. |
| `deleters` | `MC_Deleters.cfg` | pass | Deletes succeed or fail with `ERROR`. `TypeOK`, `UsesBalanced`, `NoPreconditionFailure` and `Reclaimed` hold for every drop order. |
| `cft_example` | `MC_CFTExample.cfg` | pass | `TypeOK`, `SubscriberVerdict` and `NoUnreadOverwritten` hold: about 265,000 distinct states. |
| `cft_other_ticker` | `MC_CFTExample_OtherTickerSucceeds.cfg` | violation | A subscriber for an unpublished ticker times out, even with a timely publisher. |
| `cft_late_join` | `MC_CFTExample_LateJoinerSucceeds.cfg` | violation | A reader created after the second round fails the quote count. |
| `cft_exit_first` | `MC_CFTExample_ExitBeforeSubscriberTerminates.cfg` | violation | A publisher that exits first can leave the subscriber without its terminator. |

The group-set bounds reach every case the properties are about:
- concurrent builds and walks on the same set and on different sets;
- a kernel group created before, during and after a build;
- allocation failure at every insertion;
- a visitor aborting on the first and on the second entry;
- a union racing a build on its destination;
- free and re-create.

A third thread would add only longer wait chains, and two threads already form
a two-cycle. More groups would add only longer walks.

Every property of a passing run has a mutant in `PROJECT.json`: a plausible
bug in the mapped code that TLC catches with the run's own configuration.

## 7. Findings

1. **Unions deadlock (`q_groupset.c:138`).** `nn_groupset_add` holds both
   mutexes at once, in no fixed order. Two opposite unions deadlock, and
   `add(gs, gs)` relocks its own mutex. The spec requires either never holding
   both locks or a fixed lock order. The code is safe only if its callers union
   in one direction, which is what `groupset_safety` assumes.
2. **Stored groups hold no reference (`q_groupset.c:51`, `:66`).** Each stored
   group is an unreferenced pointer, but the spec asks for one reference per
   distinct stored group. The pointer is valid only while the kernel's own
   group set keeps the group.
3. **The `: 0` branch of `implementation.cpp:211` is dead.** A subscriber for
   a ticker other than GE or MSFT never receives a terminator through its
   filter, so it always times out and returns 1.
4. **A late subscriber fails (`implementation.cpp:56`).** The comment says
   transient durability lets a late subscriber get the samples. KEEP_LAST(1)
   keeps only the last one, so a subscriber that joins after the second round
   counts too few quotes.
5. **The publisher cannot safely exit first (`implementation.cpp:82`).** The
   comment describes `ManuallyDisposeUnregisteredInstances`, but the code sets
   `AutoDisposeUnregisteredInstances`. The writer's deletion may dispose the
   instances before the subscriber takes the terminator.

## 8. Proofs

All proofs are checked by `tlapm` and hold for every value of the constants,
under the named assumptions of the model modules.

**`GroupSetProofs`**, under the assumptions in `GroupSet.tla`: `Threads` and
`Groups` are finite, `Groups ⊆ Nat`, `GroupSets` and `Qoss` are non-empty,
`GroupOf` maps the concrete keys to groups, and the sentinels are fresh.
- **`FindMinIsMin`.** A non-empty set of group addresses has a least element,
  so `avl_findmin` is well defined. The proof goes through `WFMin` and the
  well-foundedness of `<` on `Nat`.
- **`TypeCorrect` and `TypeOKInvariant`.**
  - `TypeOK` alone is not inductive, because `add_group` applied to `NULL`
    would put `NoGroup` in a tree.
  - The strengthening `TypeInv` adds that a thread about to call `add_group`
    holds a real group.
  - `TypeStep` proves it is preserved, with one step per action.
- **`RefsBalancedInvariant`.** The inductive invariant is
  `TypeInv /\ RefsBalanced`.
  - `FqLookup` adds a holder and increments `refs[g]`.
  - `FqAdd` removes the holder and decrements `refs[g]`.
  - Every other step keeps both.

**`GroupSetRefinement`: `Refinement`, `Spec => Refines`.** The inductive
invariant `RInv` strengthens `TypeInv` with three facts:
- every stored group is a kernel group (`StoredExist`);
- a thread with an operation in progress works on a live set (`OpenFor`);
- the group a thread is about to insert is a kernel group (`PendingFor`).

These are exactly what `AInsert` requires. `Insertion` shows that an
`add_group` on a live set, with a kernel group, is an `AInsert` or no change.
`RefinementStep` takes one step per action, with the frame lemmas
`ThreadFrame` and `ThreadLocal`. `FreeGroupSet` keeps `OpenFor` because
callers free only a set nobody uses (`~InUse(r)`). The walk's cursor stays a
stored group by `FindMinType` and `FindSuccType`.

**`GroupSetWalkProofs`: `ForeachVisitsInOrderInvariant` and
`AddUnionProperty`.** Both rest on the mutexes. The inductive invariant
`WInv` adds five facts per thread to `TypeInv`:
- a thread holds `gs`'s mutex from `FqLock` to `FqUnlock`, and `src`'s from
  `FeLock` to `FeUnlock` (`Locked`);
- the registries of an operation in progress are live (`Live`);
- a walk that has not locked yet has visited nothing (`Unstarted`);
- the groups visited so far ascend and are exactly the tree's keys below
  the cursor (`WalkSoFar`);
- while no `add_group` has failed, every group visited is in `gs`
  (`AddedSoFar`).

`WalkAdvance` is the heart of the argument: `avl_findsucc` is the least key
above the cursor (`FindSuccIsSucc`), so appending the cursor keeps the
visited groups equal to the keys below the new cursor. The walked tree
cannot change under the walk. Every other step that changes a tree holds
that tree's mutex or needs it free (`TreeFrame`, `OwnerKept`). A registry
in use is neither freed nor re-created. `nn_groupset_add_helper` adds to
`gs`, never to `src`, because it needs `gs`'s mutex free while the walk
holds `src`'s. When the walk returns (`WalkEnds`: only `FeUnlock` returns
from `fe_walk`) with a non-negative result, the cursor is `NULL`, so every
key was visited and added.

**`GroupSetLockProofs`: `NoCircularWaitInvariant` and
`FromQosCompleteProperty`.** The inductive invariant `LInv` adds to `WInv`:
- a locked mutex is held by its owner inside a fromqos loop (`gs`) or a
  walk (`src`) (`OwnersHold`). This is the converse of `Locked`: no thread
  keeps a mutex past its UNLOCK;
- a running `nn_groupset_add` has one of the callers' pairs (`AddArgs`);
- the fromqos loop starts at partition 1 with `res = 0` and its index stays
  in `1..Len(Parts(qos)) + 1` (`FqStarted`, `FqBounds`);
- between `v_groupSetGet` and `c_free`, the thread holds the group of the
  current partition, which is a kernel group (`FqHeld`);
- while no `add_group` has failed, the partitions done so far whose kernel
  group existed at LOCK have their groups in `gs` (`FqSoFar`, over
  `NamedUpTo`);
- the kernel groups recorded at LOCK still exist (`Known`).

`FqSoFar` survives other threads' steps because every step other than free
only grows a tree, and a set in use is not freed. A skipped partition adds
nothing, because a wildcard key is not a kernel key and a failed lookup
means the group did not exist at LOCK either (`FqSkipSelf`). `FqEnds` shows
that only `FqUnlock` returns from the loop. With `res >= 0`, the index is
past the last partition, and `NamedAll` equates the groups done with
`Named`.

`NoCircularWait` is proved under the hypothesis `LockOrder`: some ranking
of the group sets puts every destination of `AddPairs` below its source.
`MC_GroupSet`'s single pair `<<gA, gB>>` satisfies it, and
`MC_GroupSet_Deadlock`'s two opposite pairs do not. The argument has three
steps:
- a thread that holds a mutex and waits is a walk of `nn_groupset_add`
  inside `nn_groupset_add_helper`, holding `src` and waiting for `gs`
  (`HolderWaits`);
- so in a circle of waiting threads, each one's blocker is such a walk,
  whose `src` is the `gs` waited for (`BlockerIsAddWalk`);
- the walk with the lowest-ranked `src` (`WFMin` on `Nat`) is then blocked
  by one whose `src` ranks lower still, a contradiction.

**`DeletersProofs`: `UsesBalancedInvariant` and
`NoPreconditionFailureInvariant`**, under `DeletersAssumption`: the entities
are finite, each kind has a parent of the kind the API creates it from, and
each writer and reader has a topic of its own participant. `MayFail` is left
free, so failed deletes are covered. The inductive invariant `Inv` has these
conjuncts:
- every entity (not only a live one) is `Balanced`: its use count is its
  user reference plus its existing dependents (`LiveDeps`);
- only a live entity has a user reference;
- an entity is in use exactly while it is live;
- what an existing entity holds (`Held`: its parent and its topic) is live.

With these, a deleter runs on an entity with use count 0. Its existing
dependents are then counted as 0, so it has none, and `delete_<kind>` cannot
meet one. A delete that throws keeps its entity in existence and its
references held, so the balance survives it. `HoldUses` and `ReleaseUses` say
what creating and deleting an entity do to the use counts of what it holds
(`HeldFacts`: never itself, and never one entity twice). The counts follow by
`FS_AddElement` and `FS_RemoveElement`. `TypeOKInvariant` follows from the
same `Inv`.

**`CFTExampleProofs`**, under `CFTAssumption` and `NoneAssumption` (the
empty cache `None` is not a sample).
- **`TypeOKInvariant`.** The inductive invariant `CInv` strengthens `TypeOK`
  with four groups of conjuncts:
  - `Shapes`: an idle program has its initial locals, and a closed
    publisher has done all `Rounds` rounds;
  - `Contents`: the store holds the last quote of each ticker, with a
    terminator only once the loop has ended; the cache holds a sample of
    the requested ticker or nothing;
  - `Clock`: no due step is skipped; a polling subscriber's next poll is
    `startAt + count`; a returned one has the result its flags give;
  - `Counts`: the quotes counted plus the one pending are at most the
    quotes written, and at most one more than those written since the
    reader was created.

  `TypeOK` needs `Counts` because the quote count is bounded by `Rounds`
  only through the writes. `PollEffect` states what one `take()` does to
  the subscriber's locals. `CInvStep` has one step per action and one leaf
  per conjunct group.
- **`SubscriberVerdictInvariant` and `NoUnreadOverwrittenProperty`.** Both
  assume `PollsBetweenWrites`: `PubPeriod >= 2`, that is, the subscriber
  polls at least twice per publishing period. The code has
  1000 ms / 200 ms = 5. Both results fail without it: with `PubPeriod = 1`,
  TLC finds a write that replaces an unread quote. The inductive invariant
  is `DInv == CInv /\ Delivery`. For a reader created before the first
  quote, `Delivery` says:
  - every quote written is counted or pending (`CountedAll`);
  - a pending quote is taken before the next write is due
    (`TakenBeforeNext`); this step needs `PubPeriod >= 2`;
  - after the terminator is written, it waits in the cache for a poll at
    most one tick later (`TerminatorWaits`);
  - a subscriber that took the terminator has counted all `Rounds` quotes
    (`CountComplete`).

  `DInvVerdict` derives the verdict. A 0 needs the terminator and all
  `Rounds` quotes, and `Counts` bounds the quotes a late reader missed to
  one. For an early reader, a missing terminator would mean `MaxPolls`
  polls, all done by one tick after `termAt`. `TermInTime` rules that out.
  `KeepsUnreadStep` shows that each step keeps an unread valid sample or
  takes it. `NoWriteOverUnread` shows that no write is due while one
  waits (`TakenBeforeNext` together with `Clock`). A dispose only fills an
  empty cache.

What stays with TLC:
- `ForeachResult`: the walk's result is a sum (`SeqSum`) over the
  visitor's results. Its proof needs what `SeqSum` computes on every
  sequence, which is induction over data;
- `NoCircularWait` for pairs that violate `LockOrder`, where it fails
  (`MC_GroupSet_Deadlock`);
- the `CFTExample` runs with a violation (`OtherTickerSucceeds`,
  `LateJoinerSucceeds`, `ExitBeforeSubscriberTerminates`);
- liveness (`LockReleased`, `Reclaimed`) and anything about `ENABLED`, which
  the prover cannot handle;
- facts about recursive definitions for all inputs.

No proof module reaches a RECURSIVE operator, because `SeqSum` is written as a
recursive function.

## 9. Not modelled

- **Discovery engine and locator translator.** Only their prototypes are in
  `src/`. The discovery engine could be modelled from the spec as a separate
  module.
- **Declarations only.** The listener headers, `TypeProvider`, `os_os_cond`
  and the GUI dialog have no behaviour in the repository.
- **The `int` overflow of the walk's sum (`q_groupset.c:128`).** It is out of
  reach of a model.
- **The AVL balancing.** It is abstracted to the set of keys, with
  `avl_findmin` and `avl_findsucc`, because no property depends on the tree's
  shape.
- **Logging, prices and strings.** The deleters' log output, the example's
  prices and console output, and the filter expression's text are left out.
  Only the ticker each filter admits is kept.
