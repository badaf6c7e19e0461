------------------------- MODULE GroupSetWalkProofs -------------------------
(***************************************************************************)
(* Proofs about nn_groupset_foreach and nn_groupset_add, for every value  *)
(* of the constants: the walk hands the visitor every group of the tree   *)
(* once, in ascending order (ForeachVisitsInOrder), and an add that       *)
(* succeeds leaves every group of the source in the destination           *)
(* (AddUnion).                                                             *)
(*                                                                         *)
(* Both rest on the mutexes: a walk holds src's mutex from FeLock to      *)
(* FeUnlock, and every step that changes a tree holds, or briefly takes,  *)
(* that tree's mutex, so nobody changes entries[src] while it is walked.  *)
(* A registry in use is live, so it is neither freed nor re-created, and  *)
(* nothing else removes a group from a tree.                               *)
(***************************************************************************)
EXTENDS GroupSetProofs

\* The mutexes a thread holds: gs's from FqLock to FqUnlock, src's from
\* FeLock to FeUnlock.
Locked(t) ==
  /\ pc[t] \in {"fq_next", "fq_add"} => owner[op[t].gs] = t
  /\ pc[t] = "fe_walk" => owner[op[t].src] = t

\* The registries of an operation in progress are live: callers free only
\* a set nobody uses.
Live(t) == ~Idle(t) => live[op[t].gs] /\ live[op[t].src]

\* A walk that has not taken src's mutex yet has visited nothing.
Unstarted(t) == pc[t] = "fe_lock" => op[t].visited = << >>

\* The walk so far: the groups visited are ascending and are exactly the
\* tree's groups below the cursor, which is a group of the tree or NULL.
WalkSoFar(t) ==
  pc[t] = "fe_walk" =>
    LET E == entries[op[t].src]
        s == op[t].visited IN
    /\ \A i, j \in 1..Len(s) : i < j => s[i] < s[j]
    /\ {s[i] : i \in 1..Len(s)} =
         {x \in E : op[t].g = NoGroup \/ x < op[t].g}
    /\ op[t].g \in E \cup {NoGroup}

\* nn_groupset_add_helper has added every group visited so far to gs, as
\* long as no add_group failed.
AddedSoFar(t) ==
  pc[t] = "fe_walk" /\ op[t].visitor = "add" /\ op[t].res >= 0 =>
    \A i \in 1..Len(op[t].visited) : op[t].visited[i] \in entries[op[t].gs]

\* What the invariant says of one thread.
PerThread(t) ==
  Locked(t) /\ Live(t) /\ Unstarted(t) /\ WalkSoFar(t) /\ AddedSoFar(t)

\* The inductive invariant.
WInv ==
  /\ TypeInv
  /\ \A t \in Threads : PerThread(t)

-----------------------------------------------------------------------------
(* avl_findmin and avl_findsucc on the tree's keys.                        *)

\* avl_findmin returns NULL exactly on the empty tree.
LEMMA FindMinEmpty ==
  ASSUME NEW E \in SUBSET Groups
  PROVE  FindMin(E) = NoGroup <=> E = {}
<1>1. CASE E = {}
  BY <1>1 DEF FindMin
<1>2. CASE E # {}
  BY <1>2, FindMinIsMin, SentinelAssumption
<1>3. QED
  BY <1>1, <1>2

\* avl_findsucc(g) is the least key above g, or NULL when no key is above g.
LEMMA FindSuccIsSucc ==
  ASSUME NEW E \in SUBSET Groups, NEW g \in Groups
  PROVE  LET n == FindSucc(E, g) IN
         /\ n = NoGroup => \A x \in E : x =< g
         /\ n # NoGroup =>
              /\ n \in E /\ g < n
              /\ \A x \in E : g < x => n =< x
<1> DEFINE A == {x \in E : x > g}
<1>1. A \in SUBSET Groups
  OBVIOUS
<1>2. CASE A = {}
  <2>1. FindSucc(E, g) = NoGroup
    BY <1>2 DEF FindSucc, FindMin
  <2>2. \A x \in E : x =< g
    BY <1>2, GroupsAssumption
  <2>3. QED
    BY <2>1, <2>2
<1>3. CASE A # {}
  <2>1. FindSucc(E, g) \in A /\ \A y \in A : FindSucc(E, g) =< y
    BY <1>1, <1>3, FindMinIsMin DEF FindSucc
  <2>2. FindSucc(E, g) # NoGroup
    BY <2>1, SentinelAssumption
  <2>3. QED
    BY <2>1, <2>2, GroupsAssumption
<1>4. QED
  BY <1>2, <1>3

-----------------------------------------------------------------------------
(* The walk of nn_groupset_foreach.                                        *)

\* e = avl_findmin (&src->sets): nothing is visited yet, and no key of the
\* tree is below the first one.
LEMMA WalkStart ==
  ASSUME NEW E \in SUBSET Groups
  PROVE  LET s == << >>
             g == FindMin(E) IN
         /\ \A i, j \in 1..Len(s) : i < j => s[i] < s[j]
         /\ {s[i] : i \in 1..Len(s)} = {x \in E : g = NoGroup \/ x < g}
         /\ g \in E \cup {NoGroup}
<1>1. CASE E = {}
  BY <1>1, FindMinType
<1>2. CASE E # {}
  <2>1. FindMin(E) \in E /\ \A y \in E : FindMin(E) =< y
    BY <1>2, FindMinIsMin
  <2>2. FindMin(E) # NoGroup
    BY <2>1, SentinelAssumption
  <2>3. \A x \in E : ~(x < FindMin(E))
    <3>1. SUFFICES ASSUME NEW x \in E PROVE ~(x < FindMin(E))
      OBVIOUS
    <3>2. x \in Nat /\ FindMin(E) \in Nat /\ FindMin(E) =< x
      BY <2>1, GroupsAssumption
    <3>3. QED
      BY <3>2
  <2>4. {x \in E : FindMin(E) = NoGroup \/ x < FindMin(E)} = {}
    BY <2>2, <2>3
  <2>5. QED
    BY <2>1, <2>4
<1>3. QED
  BY <1>1, <1>2

\* f (e->group, arg); e = avl_findsucc: the visited sequence grows by the
\* cursor, which is above everything visited, and the cursor moves to the
\* next key, so the visited groups are again the keys below it.
LEMMA WalkAdvance ==
  ASSUME NEW E \in SUBSET Groups, NEW s \in Seq(Groups), NEW g \in E,
         \A i, j \in 1..Len(s) : i < j => s[i] < s[j],
         {s[i] : i \in 1..Len(s)} = {x \in E : x < g}
  PROVE  LET s2 == Append(s, g)
             n == FindSucc(E, g) IN
         /\ \A i, j \in 1..Len(s2) : i < j => s2[i] < s2[j]
         /\ {s2[i] : i \in 1..Len(s2)} = {x \in E : n = NoGroup \/ x < n}
         /\ n \in E \cup {NoGroup}
<1> DEFINE s2 == Append(s, g)
           n == FindSucc(E, g)
<1>0. g \in Groups /\ E \subseteq Nat /\ g \in Nat /\ Len(s) \in Nat
  BY GroupsAssumption
<1>1. /\ Len(s2) = Len(s) + 1 /\ s2[Len(s) + 1] = g
      /\ \A i \in 1..Len(s) : s2[i] = s[i]
  OBVIOUS
<1>2. {s2[i] : i \in 1..Len(s2)} = {x \in E : x < g} \cup {g}
  BY <1>1
<1>3. \A i, j \in 1..Len(s2) : i < j => s2[i] < s2[j]
  <2>1. SUFFICES ASSUME NEW i \in 1..Len(s2), NEW j \in 1..Len(s2), i < j
                 PROVE  s2[i] < s2[j]
    OBVIOUS
  <2>2. CASE j = Len(s) + 1
    <3>0. i \in Nat /\ 1 =< i /\ i < Len(s) + 1
      BY <1>0, <2>1, <2>2
    <3>1. i \in 1..Len(s)
      BY <1>0, <3>0
    <3>2. s[i] \in {x \in E : x < g}
      BY <3>1
    <3>3. s2[i] = s[i] /\ s2[j] = g
      BY <1>1, <2>2, <3>1
    <3>4. s[i] \in Nat /\ g \in Nat /\ s[i] < g
      BY <1>0, <3>2
    <3>5. QED
      BY <3>3, <3>4
  <2>3. CASE j # Len(s) + 1
    <3>0. /\ i \in Nat /\ 1 =< i /\ j \in Nat /\ 1 =< j
          /\ j =< Len(s) + 1 /\ j # Len(s) + 1 /\ i < j
      BY <1>0, <1>1, <2>1, <2>3
    <3>1. i \in 1..Len(s) /\ j \in 1..Len(s)
      BY <1>0, <3>0
    <3>2. s[i] < s[j]
      BY <2>1, <3>1
    <3>3. s2[i] = s[i] /\ s2[j] = s[j]
      BY <1>1, <3>1
    <3>4. QED
      BY <3>2, <3>3
  <2>4. QED
    BY <2>2, <2>3
<1>4. {x \in E : x < g} \cup {g} = {x \in E : n = NoGroup \/ x < n}
  <2>1. CASE n = NoGroup
    <3>1. \A x \in E : x =< g
      BY <1>0, <2>1, FindSuccIsSucc
    <3>2. \A x \in E : x < g \/ x = g
      <4>1. SUFFICES ASSUME NEW x \in E PROVE x < g \/ x = g
        OBVIOUS
      <4>2. x \in Nat /\ x =< g
        BY <1>0, <3>1
      <4>3. QED
        BY <1>0, <4>2
    <3>3. QED
      BY <2>1, <3>2
  <2>2. CASE n # NoGroup
    <3>1. n \in E /\ g < n /\ \A x \in E : g < x => n =< x
      BY <1>0, <2>2, FindSuccIsSucc
    <3>2. \A x \in E : x < n <=> (x < g \/ x = g)
      <4>1. SUFFICES ASSUME NEW x \in E PROVE x < n <=> (x < g \/ x = g)
        OBVIOUS
      <4>2. x \in Nat /\ n \in Nat /\ g < n /\ (g < x => n =< x)
        BY <1>0, <3>1
      <4>3. QED
        BY <1>0, <4>2
    <3>3. QED
      BY <2>2, <3>1, <3>2
  <2>3. QED
    BY <2>1, <2>2
<1>5. n \in E \cup {NoGroup}
  BY FindSuccType
<1>6. QED
  BY <1>2, <1>3, <1>4, <1>5

-----------------------------------------------------------------------------
(* A step that leaves thread u's locals, its mutexes, its registries and   *)
(* the tree it walks alone, and only grows the tree it adds to, keeps     *)
(* what the invariant says of u.                                           *)
LEMMA OtherFrame ==
  ASSUME NEW u \in Threads, PerThread(u),
         pc'[u] = pc[u], op'[u] = op[u],
         ~Idle(u) => /\ live'[op[u].gs] = live[op[u].gs]
                     /\ live'[op[u].src] = live[op[u].src],
         pc[u] \in {"fq_next", "fq_add"} =>
           owner'[op[u].gs] = owner[op[u].gs],
         pc[u] = "fe_walk" =>
           /\ owner'[op[u].src] = owner[op[u].src]
           /\ entries'[op[u].src] = entries[op[u].src]
           /\ entries[op[u].gs] \subseteq entries'[op[u].gs]
  PROVE  PerThread(u)'
<1>1. Locked(u)' /\ Live(u)' /\ Unstarted(u)'
  BY DEF PerThread, Locked, Live, Idle, Unstarted
<1>2. WalkSoFar(u)'
  BY DEF PerThread, WalkSoFar
<1>3. AddedSoFar(u)'
  BY DEF PerThread, AddedSoFar
<1>4. QED
  BY <1>1, <1>2, <1>3 DEF PerThread

\* A step that changes no registry, no mutex and none of u's locals.
LEMMA QuietFrame ==
  ASSUME NEW u \in Threads, PerThread(u),
         pc'[u] = pc[u], op'[u] = op[u],
         live' = live, owner' = owner, entries' = entries
  PROVE  PerThread(u)'
BY OtherFrame

\* add_group only grows the tree, and a non-negative result means g is in it.
LEMMA AddGroupGrows ==
  ASSUME NEW E, NEW g, NEW o \in AddGroup(E, g)
  PROVE  /\ E \subseteq o.tree
         /\ o.res >= 0 => g \in o.tree
         /\ o.res \in {0, ERR_OUT_OF_MEMORY}
BY DEF AddGroup, ERR_OUT_OF_MEMORY

\* A step of another thread that grows tree r, which u does not walk.
LEMMA TreeFrame ==
  ASSUME TypeInv, NEW u \in Threads, PerThread(u),
         NEW r \in GroupSets, NEW T2,
         entries' = [entries EXCEPT ![r] = T2], entries[r] \subseteq T2,
         pc'[u] = pc[u], op'[u] = op[u], live' = live,
         pc[u] \in {"fq_next", "fq_add"} =>
           owner'[op[u].gs] = owner[op[u].gs],
         pc[u] = "fe_walk" =>
           owner'[op[u].src] = owner[op[u].src] /\ op[u].src # r
  PROVE  PerThread(u)'
<1>1. op[u] \in OpRec /\ entries \in [GroupSets -> SUBSET Groups]
  BY DEF TypeInv, TypeOK
<1>2. pc[u] = "fe_walk" =>
        /\ entries'[op[u].src] = entries[op[u].src]
        /\ entries[op[u].gs] \subseteq entries'[op[u].gs]
  BY <1>1 DEF OpRec
<1>3. QED
  BY <1>2, OtherFrame

\* Another thread t takes or releases a mutex: a mutex u holds stays u's.
LEMMA OwnerKept ==
  ASSUME TypeInv, NEW t \in Threads, NEW u \in Threads, u # t,
         NEW x \in GroupSets, NEW v, owner[x] \in {NoOwner, t},
         owner' = [owner EXCEPT ![x] = v],
         NEW y \in GroupSets, owner[y] = u
  PROVE  owner'[y] = owner[y] /\ y # x
<1>1. y # x
  BY SentinelAssumption
<1>2. QED
  BY <1>1 DEF TypeInv, TypeOK

\* Another thread t takes or releases a mutex, and changes nothing else u
\* depends on.
LEMMA OwnerStepFrame ==
  ASSUME TypeInv, NEW t \in Threads, NEW u \in Threads, u # t, PerThread(u),
         NEW x \in GroupSets, NEW v, owner[x] \in {NoOwner, t},
         owner' = [owner EXCEPT ![x] = v],
         pc'[u] = pc[u], op'[u] = op[u], live' = live, entries' = entries
  PROVE  PerThread(u)'
<1>1. op[u].gs \in GroupSets /\ op[u].src \in GroupSets
  BY DEF TypeInv, TypeOK, OpRec
<1>2. pc[u] \in {"fq_next", "fq_add"} => owner'[op[u].gs] = owner[op[u].gs]
  <2>1. SUFFICES ASSUME pc[u] \in {"fq_next", "fq_add"}
                 PROVE  owner'[op[u].gs] = owner[op[u].gs]
    OBVIOUS
  <2>2. owner[op[u].gs] = u
    BY <2>1 DEF PerThread, Locked
  <2>3. op[u].gs # x
    BY <2>2, SentinelAssumption
  <2>4. QED
    BY <1>1, <2>3 DEF TypeInv, TypeOK
<1>3. pc[u] = "fe_walk" => owner'[op[u].src] = owner[op[u].src]
  <2>1. SUFFICES ASSUME pc[u] = "fe_walk"
                 PROVE  owner'[op[u].src] = owner[op[u].src]
    OBVIOUS
  <2>2. owner[op[u].src] = u
    BY <2>1 DEF PerThread, Locked
  <2>3. op[u].src # x
    BY <2>2, SentinelAssumption
  <2>4. QED
    BY <1>1, <2>3 DEF TypeInv, TypeOK
<1>4. QED
  BY <1>2, <1>3, OtherFrame

\* A thread that returns holds no obligation of the invariant.
LEMMA ReturnSelf ==
  ASSUME TypeInv, NEW t \in Threads, NEW res \in Int, Return(t, res)
  PROVE  PerThread(t)'
<1>1. pc'[t] = "idle"
  BY ReturnType DEF TypeInv
<1>2. QED
  BY <1>1 DEF PerThread, Locked, Live, Unstarted, WalkSoFar, AddedSoFar, Idle

\* An operation starts on live registries; nobody else's state changes.
LEMMA StartStep ==
  ASSUME TypeInv, NEW t \in Threads, NEW u \in Threads, PerThread(u),
         NEW o, NEW l \in {"ag_lock", "em_lock", "fq_lock", "fe_lock"},
         pc' = [pc EXCEPT ![t] = l], op' = [op EXCEPT ![t] = o],
         live' = live, owner' = owner, entries' = entries,
         live[o.gs], live[o.src], l = "fe_lock" => o.visited = << >>
  PROVE  PerThread(u)'
<1>0. DOMAIN pc = Threads /\ DOMAIN op = Threads
  BY DEF TypeInv, TypeOK
<1>1. CASE u = t
  <2>1. pc'[t] = l /\ op'[t] = o
    BY <1>0
  <2>2. QED
    BY <1>1, <2>1 DEF PerThread, Locked, Live, Unstarted, WalkSoFar,
                      AddedSoFar, Idle
<1>2. CASE u # t
  <2>1. pc'[u] = pc[u] /\ op'[u] = op[u]
    BY <1>0, <1>2
  <2>2. QED
    BY <2>1, QuietFrame
<1>3. QED
  BY <1>1, <1>2

\* A step of nn_groupset_fromqos inside the lock keeps the lock and the
\* registries of the thread.
LEMMA FqSelf ==
  ASSUME NEW t \in Threads, PerThread(t),
         pc[t] \in {"fq_next", "fq_add"}, pc'[t] \in {"fq_next", "fq_add"},
         op'[t].gs = op[t].gs, op'[t].src = op[t].src,
         live' = live, owner' = owner
  PROVE  PerThread(t)'
BY DEF PerThread, Locked, Live, Unstarted, WalkSoFar, AddedSoFar, Idle

\* What one visit does to the walking thread's locals.
LEMMA VisitedFields ==
  ASSUME TypeInv, NEW t \in Threads, NEW v, Visited(t, v)
  PROVE  /\ op'[t].gs = op[t].gs /\ op'[t].src = op[t].src
         /\ op'[t].visitor = op[t].visitor
         /\ op'[t].visited = Append(op[t].visited, op[t].g)
         /\ op'[t].g = FindSucc(entries[op[t].src], op[t].g)
         /\ op'[t].res = IF v < 0 THEN v ELSE op[t].res + v
         /\ \A w \in Threads \ {t} : op'[w] = op[w]
<1>1. op \in [Threads -> OpRec]
  BY DEF TypeInv, TypeOK
<1>2. QED
  BY <1>1 DEF Visited, OpRec

\* A visit, with the walked tree unchanged, keeps the walk's obligations.
LEMMA WalkSelf ==
  ASSUME TypeInv, NEW t \in Threads, PerThread(t),
         pc[t] = "fe_walk", op[t].g # NoGroup, pc'[t] = "fe_walk",
         NEW v, Visited(t, v),
         entries'[op[t].src] = entries[op[t].src],
         live' = live, owner' = owner
  PROVE  Locked(t)' /\ Live(t)' /\ Unstarted(t)' /\ WalkSoFar(t)'
<1> DEFINE E == entries[op[t].src]
           s == op[t].visited
           g == op[t].g
<1>1. /\ op[t] \in OpRec /\ E \in SUBSET Groups
  BY DEF TypeInv, TypeOK, OpRec
<1>2. /\ \A i, j \in 1..Len(s) : i < j => s[i] < s[j]
      /\ {s[i] : i \in 1..Len(s)} = {x \in E : x < g}
      /\ g \in E
  BY DEF PerThread, WalkSoFar
<1>3. s \in Seq(Groups)
  BY <1>1 DEF OpRec
<1>4. LET s2 == Append(s, g)
          n == FindSucc(E, g) IN
      /\ \A i, j \in 1..Len(s2) : i < j => s2[i] < s2[j]
      /\ {s2[i] : i \in 1..Len(s2)} = {x \in E : n = NoGroup \/ x < n}
      /\ n \in E \cup {NoGroup}
  BY <1>1, <1>2, <1>3, WalkAdvance
<1>5. /\ op'[t].src = op[t].src /\ op'[t].gs = op[t].gs
      /\ op'[t].visited = Append(s, g) /\ op'[t].g = FindSucc(E, g)
  BY VisitedFields
<1>6. WalkSoFar(t)'
  BY <1>4, <1>5 DEF WalkSoFar
<1>7. QED
  BY <1>5, <1>6 DEF PerThread, Locked, Live, Unstarted, Idle

-----------------------------------------------------------------------------
(* The invariant is inductive.                                             *)

LEMMA WInvInit == Init => WInv
<1> SUFFICES ASSUME Init PROVE WInv
  OBVIOUS
<1>1. TypeInv
  BY OpInitType, GroupSetsAssumption DEF Init, TypeInv, TypeOK
<1>2. \A t \in Threads : pc[t] = "idle"
  BY DEF Init
<1>3. QED
  BY <1>1, <1>2 DEF WInv, PerThread, Locked, Live, Unstarted, WalkSoFar,
                    AddedSoFar, Idle

LEMMA WInvStep == WInv /\ [Next]_vars => WInv'
<1> SUFFICES ASSUME WInv, [Next]_vars PROVE WInv'
  OBVIOUS
<1>0. /\ TypeInv /\ TypeInv'
      /\ \A w \in Threads : PerThread(w)
  BY TypeStep DEF WInv
<1> SUFFICES ASSUME NEW u \in Threads PROVE PerThread(u)'
  BY <1>0 DEF WInv
<1>T. /\ live \in [GroupSets -> BOOLEAN]
      /\ entries \in [GroupSets -> SUBSET Groups]
      /\ owner \in [GroupSets -> Threads \cup {NoOwner}]
      /\ DOMAIN pc = Threads /\ op \in [Threads -> OpRec]
  BY <1>0 DEF TypeInv, TypeOK
<1>U. /\ op[u].gs \in GroupSets /\ op[u].src \in GroupSets
      /\ pc[u] \in {"fq_next", "fq_add"} => owner[op[u].gs] = u
      /\ pc[u] = "fe_walk" => owner[op[u].src] = u
      /\ (pc[u] \in {"fq_next", "fq_add"} \/ pc[u] = "fe_walk") => ~Idle(u)
  BY <1>0, <1>T DEF OpRec, PerThread, Locked, Idle
<1>1. ASSUME NEW k \in KernelKeys, KernelCreateGroup(k) PROVE PerThread(u)'
  BY <1>0, <1>1, QuietFrame DEF KernelCreateGroup
<1>2. ASSUME NEW r \in GroupSets, NewGroupSet(r) PROVE PerThread(u)'
  <2>1. ~Idle(u) => op[u].gs # r /\ op[u].src # r
    BY <1>0, <1>2 DEF PerThread, Live, NewGroupSet
  <2>2. ~Idle(u) =>
          /\ live'[op[u].gs] = live[op[u].gs]
          /\ live'[op[u].src] = live[op[u].src]
          /\ owner'[op[u].gs] = owner[op[u].gs]
          /\ owner'[op[u].src] = owner[op[u].src]
          /\ entries'[op[u].gs] = entries[op[u].gs]
          /\ entries'[op[u].src] = entries[op[u].src]
    BY <1>2, <1>T, <1>U, <2>1 DEF NewGroupSet
  <2>3. pc'[u] = pc[u] /\ op'[u] = op[u]
    BY <1>2 DEF NewGroupSet
  <2>4. QED
    BY <1>0, <1>U, <2>2, <2>3, OtherFrame
<1>3. ASSUME NEW r \in GroupSets, FreeGroupSet(r) PROVE PerThread(u)'
  <2>1. ~Idle(u) => op[u].gs # r /\ op[u].src # r
    BY <1>3 DEF FreeGroupSet, InUse
  <2>2. ~Idle(u) =>
          /\ live'[op[u].gs] = live[op[u].gs]
          /\ live'[op[u].src] = live[op[u].src]
          /\ entries'[op[u].gs] = entries[op[u].gs]
          /\ entries'[op[u].src] = entries[op[u].src]
    BY <1>3, <1>T, <1>U, <2>1 DEF FreeGroupSet
  <2>3. pc'[u] = pc[u] /\ op'[u] = op[u] /\ owner' = owner
    BY <1>3 DEF FreeGroupSet
  <2>4. QED
    BY <1>0, <1>U, <2>2, <2>3, OtherFrame
<1>4. ASSUME NEW t \in Threads, NEW r \in GroupSets, StartEmpty(t, r)
      PROVE PerThread(u)'
  <2>1. live[OpInit(r).gs] /\ live[OpInit(r).src]
    BY <1>4 DEF StartEmpty, OpInit
  <2>2. QED
    BY <1>0, <1>4, <2>1, StartStep DEF StartEmpty
<1>5. ASSUME NEW t \in Threads, NEW r \in GroupSets, StartForeach(t, r)
      PROVE PerThread(u)'
  <2>1. live[OpInit(r).gs] /\ live[OpInit(r).src] /\ OpInit(r).visited = << >>
    BY <1>5 DEF StartForeach, OpInit
  <2>2. QED
    BY <1>0, <1>5, <2>1, StartStep DEF StartForeach
<1>6. ASSUME NEW t \in Threads, NEW r \in GroupSets, NEW g \in Groups,
             StartAddGroup(t, r, g)
      PROVE PerThread(u)'
  <2> DEFINE o == [OpInit(r) EXCEPT !.g = g]
  <2>1. live[o.gs] /\ live[o.src]
    BY <1>6 DEF StartAddGroup, OpInit
  <2>2. QED
    BY <1>0, <1>6, <2>1, StartStep DEF StartAddGroup
<1>7. ASSUME NEW t \in Threads, NEW r \in GroupSets, NEW q \in Qoss,
             StartFromQos(t, r, q)
      PROVE PerThread(u)'
  <2> DEFINE o == [OpInit(r) EXCEPT !.qos = q]
  <2>1. live[o.gs] /\ live[o.src]
    BY <1>7 DEF StartFromQos, OpInit
  <2>2. QED
    BY <1>0, <1>7, <2>1, StartStep DEF StartFromQos
<1>8. ASSUME NEW t \in Threads, NEW r \in GroupSets, NEW src \in GroupSets,
             StartAdd(t, r, src)
      PROVE PerThread(u)'
  <2> DEFINE o == [OpInit(r) EXCEPT !.src = src, !.visitor = "add"]
  <2>1. live[o.gs] /\ live[o.src] /\ o.visited = << >>
    BY <1>8 DEF StartAdd, OpInit
  <2>2. QED
    BY <1>0, <1>8, <2>1, StartStep DEF StartAdd
<1>9. ASSUME NEW t \in Threads, AddGroupLocked(t) PROVE PerThread(u)'
  <2> DEFINE r == op[t].gs
  <2>1. PICK o \in AddGroup(entries[r], op[t].g) :
               entries' = [entries EXCEPT ![r] = o.tree] /\ Return(t, o.res)
    BY <1>9 DEF AddGroupLocked
  <2>2. /\ owner[r] = NoOwner /\ live' = live /\ owner' = owner
        /\ r \in GroupSets /\ o.res \in Int /\ entries[r] \subseteq o.tree
    BY <1>9, <1>T, <2>1, AddGroupGrows DEF AddGroupLocked, OpRec,
                                          ERR_OUT_OF_MEMORY
  <2>3. CASE u = t
    BY <1>0, <2>1, <2>2, <2>3, ReturnSelf
  <2>4. CASE u # t
    <3>1. pc'[u] = pc[u] /\ op'[u] = op[u]
      BY <1>0, <2>1, <2>2, <2>4, ReturnType DEF TypeInv
    <3>2. pc[u] = "fe_walk" => op[u].src # r
      BY <1>U, <2>2, SentinelAssumption
    <3>3. QED
      BY <1>0, <2>1, <2>2, <3>1, <3>2, TreeFrame
  <2>5. QED
    BY <2>3, <2>4
<1>10. ASSUME NEW t \in Threads, EmptyLocked(t) PROVE PerThread(u)'
  <2>1. /\ Return(t, IF entries[op[t].gs] = {} THEN 1 ELSE 0)
        /\ (IF entries[op[t].gs] = {} THEN 1 ELSE 0) \in Int
        /\ UNCHANGED <<live, entries, owner>>
    BY <1>10 DEF EmptyLocked
  <2>2. CASE u = t
    BY <1>0, <2>1, <2>2, ReturnSelf
  <2>3. CASE u # t
    <3>1. pc'[u] = pc[u] /\ op'[u] = op[u]
      BY <1>0, <2>1, <2>3, ReturnType DEF TypeInv
    <3>2. QED
      BY <1>0, <2>1, <3>1, QuietFrame
  <2>4. QED
    BY <2>2, <2>3
<1>11. ASSUME NEW t \in Threads, FqLock(t) PROVE PerThread(u)'
  <2> DEFINE r == op[t].gs
  <2>1. /\ pc[t] = "fq_lock" /\ owner[r] = NoOwner /\ r \in GroupSets
        /\ owner' = [owner EXCEPT ![r] = t]
        /\ pc' = [pc EXCEPT ![t] = "fq_next"]
        /\ op' = [op EXCEPT ![t].known = kgroups]
        /\ live' = live /\ entries' = entries
    BY <1>11, <1>T DEF FqLock, OpRec
  <2>2. CASE u = t
    <3>1. /\ pc'[t] = "fq_next" /\ owner'[r] = t
          /\ op'[t].gs = op[t].gs /\ op'[t].src = op[t].src
      BY <1>T, <2>1 DEF OpRec
    <3>2. live[op[t].gs] /\ live[op[t].src]
      BY <1>0, <2>1 DEF PerThread, Live, Idle
    <3>3. QED
      BY <2>1, <2>2, <3>1, <3>2 DEF PerThread, Locked, Live, Unstarted,
                                    WalkSoFar, AddedSoFar, Idle
  <2>3. CASE u # t
    <3>1. pc'[u] = pc[u] /\ op'[u] = op[u]
      BY <1>T, <2>1, <2>3
    <3>2. /\ pc[u] \in {"fq_next", "fq_add"} =>
               owner'[op[u].gs] = owner[op[u].gs]
          /\ pc[u] = "fe_walk" => owner'[op[u].src] = owner[op[u].src]
      <4>1. owner[r] \in {NoOwner, t}
        BY <2>1
      <4>2. pc[u] \in {"fq_next", "fq_add"} =>
              owner'[op[u].gs] = owner[op[u].gs]
        <5>1. SUFFICES ASSUME pc[u] \in {"fq_next", "fq_add"}
                       PROVE  owner'[op[u].gs] = owner[op[u].gs]
          OBVIOUS
        <5>2. owner[op[u].gs] = u /\ op[u].gs \in GroupSets
          BY <1>U, <5>1
        <5>3. QED
          BY <1>0, <2>1, <2>3, <4>1, <5>2, OwnerKept
      <4>3. pc[u] = "fe_walk" => owner'[op[u].src] = owner[op[u].src]
        <5>1. SUFFICES ASSUME pc[u] = "fe_walk"
                       PROVE  owner'[op[u].src] = owner[op[u].src]
          OBVIOUS
        <5>2. owner[op[u].src] = u /\ op[u].src \in GroupSets
          BY <1>U, <5>1
        <5>3. QED
          BY <1>0, <2>1, <2>3, <4>1, <5>2, OwnerKept
      <4>4. QED
        BY <4>2, <4>3
    <3>3. QED
      BY <1>0, <2>1, <3>1, <3>2, OtherFrame
  <2>4. QED
    BY <2>2, <2>3
<1>12. ASSUME NEW t \in Threads, FqSkip(t) PROVE PerThread(u)'
  <2>1. /\ pc[t] = "fq_next" /\ pc' = pc
        /\ op' = [op EXCEPT ![t].i = @ + 1]
        /\ live' = live /\ owner' = owner /\ entries' = entries
    BY <1>12 DEF FqSkip, FqLooping
  <2>2. CASE u = t
    <3>1. op'[t].gs = op[t].gs /\ op'[t].src = op[t].src
      BY <1>T, <2>1 DEF OpRec
    <3>2. QED
      BY <1>0, <2>1, <2>2, <3>1, FqSelf
  <2>3. CASE u # t
    BY <1>0, <1>T, <2>1, <2>3, QuietFrame
  <2>4. QED
    BY <2>2, <2>3
<1>13. ASSUME NEW t \in Threads, FqLookup(t) PROVE PerThread(u)'
  <2>1. /\ pc[t] = "fq_next" /\ pc' = [pc EXCEPT ![t] = "fq_add"]
        /\ op' = [op EXCEPT ![t].g = GroupOf[FqKey(t)]]
        /\ live' = live /\ owner' = owner /\ entries' = entries
    BY <1>13 DEF FqLookup, FqLooping
  <2>2. CASE u = t
    <3>1. /\ op'[t].gs = op[t].gs /\ op'[t].src = op[t].src
          /\ pc'[t] = "fq_add"
      BY <1>T, <2>1 DEF OpRec
    <3>2. QED
      BY <1>0, <2>1, <2>2, <3>1, FqSelf
  <2>3. CASE u # t
    BY <1>0, <1>T, <2>1, <2>3, QuietFrame
  <2>4. QED
    BY <2>2, <2>3
<1>14. ASSUME NEW t \in Threads, FqAdd(t) PROVE PerThread(u)'
  <2> DEFINE r == op[t].gs
  <2>1. PICK o \in AddGroup(entries[r], op[t].g) :
          /\ entries' = [entries EXCEPT ![r] = o.tree]
          /\ op' = [op EXCEPT ![t].res = o.res, ![t].i = @ + 1,
                              ![t].g = NoGroup]
    BY <1>14 DEF FqAdd
  <2>2. /\ pc[t] = "fq_add" /\ pc' = [pc EXCEPT ![t] = "fq_next"]
        /\ live' = live /\ owner' = owner /\ r \in GroupSets
        /\ owner[r] = t /\ entries[r] \subseteq o.tree
    BY <1>0, <1>14, <1>T, <2>1, AddGroupGrows DEF FqAdd, OpRec, PerThread,
                                                Locked
  <2>3. CASE u = t
    <3>1. /\ op'[t].gs = op[t].gs /\ op'[t].src = op[t].src
          /\ pc'[t] = "fq_next"
      BY <1>T, <2>1, <2>2 DEF OpRec
    <3>2. QED
      BY <1>0, <2>2, <2>3, <3>1, FqSelf
  <2>4. CASE u # t
    <3>1. pc'[u] = pc[u] /\ op'[u] = op[u]
      BY <1>T, <2>1, <2>2, <2>4
    <3>2. pc[u] = "fe_walk" => op[u].src # r
      BY <1>U, <2>2, <2>4
    <3>3. QED
      BY <1>0, <2>1, <2>2, <3>1, <3>2, TreeFrame
  <2>5. QED
    BY <2>3, <2>4
<1>15. ASSUME NEW t \in Threads, FqUnlock(t) PROVE PerThread(u)'
  <2> DEFINE r == op[t].gs
  <2>1. /\ pc[t] = "fq_next" /\ owner[r] = t /\ r \in GroupSets
        /\ owner' = [owner EXCEPT ![r] = NoOwner]
        /\ Return(t, op[t].res) /\ op[t].res \in Int
        /\ live' = live /\ entries' = entries
    BY <1>0, <1>15, <1>T DEF FqUnlock, OpRec, PerThread, Locked
  <2>2. CASE u = t
    BY <1>0, <2>1, <2>2, ReturnSelf
  <2>3. CASE u # t
    <3>1. pc'[u] = pc[u] /\ op'[u] = op[u]
      BY <1>0, <2>1, <2>3, ReturnType DEF TypeInv
    <3>2. /\ pc[u] \in {"fq_next", "fq_add"} =>
               owner'[op[u].gs] = owner[op[u].gs]
          /\ pc[u] = "fe_walk" => owner'[op[u].src] = owner[op[u].src]
      BY <1>0, <1>U, <2>1, <2>3, OwnerKept
    <3>3. QED
      BY <1>0, <2>1, <3>1, <3>2, OtherFrame
  <2>4. QED
    BY <2>2, <2>3
<1>16. ASSUME NEW t \in Threads, FeLock(t) PROVE PerThread(u)'
  <2> DEFINE r == op[t].src
             g == FindMin(entries[r])
  <2>1. /\ pc[t] = "fe_lock" /\ owner[r] = NoOwner /\ r \in GroupSets
        /\ owner' = [owner EXCEPT ![r] = t]
        /\ op' = [op EXCEPT ![t].g = g]
        /\ pc' = [pc EXCEPT ![t] = "fe_walk"]
        /\ live' = live /\ entries' = entries
    BY <1>16, <1>T DEF FeLock, OpRec
  <2>2. CASE u = t
    <3>1. /\ pc'[t] = "fe_walk" /\ owner'[r] = t
          /\ op'[t].gs = op[t].gs /\ op'[t].src = r
          /\ op'[t].visited = op[t].visited /\ op'[t].g = g
      BY <1>T, <2>1 DEF OpRec
    <3>2. live[op[t].gs] /\ live[op[t].src] /\ op[t].visited = << >>
      BY <1>0, <2>1 DEF PerThread, Live, Idle, Unstarted
    <3>3. /\ \A i, j \in 1..Len(<< >>) : i < j => (<< >>)[i] < (<< >>)[j]
          /\ {(<< >>)[i] : i \in 1..Len(<< >>)} =
               {x \in entries[r] : g = NoGroup \/ x < g}
          /\ g \in entries[r] \cup {NoGroup}
      BY <1>T, <2>1, WalkStart
    <3>4. WalkSoFar(t)'
      BY <2>1, <3>1, <3>2, <3>3 DEF WalkSoFar
    <3>5. AddedSoFar(t)'
      BY <3>1, <3>2 DEF AddedSoFar
    <3>6. QED
      BY <2>1, <2>2, <3>1, <3>2, <3>4, <3>5 DEF PerThread, Locked, Live,
                                                Unstarted, Idle
  <2>3. CASE u # t
    <3>1. pc'[u] = pc[u] /\ op'[u] = op[u]
      BY <1>T, <2>1, <2>3
    <3>2. QED
      BY <1>0, <2>1, <2>3, <3>1, OwnerStepFrame
  <2>4. QED
    BY <2>2, <2>3
<1>17. ASSUME NEW t \in Threads, FeVisitUser(t) PROVE PerThread(u)'
  <2>1. /\ pc[t] = "fe_walk" /\ op[t].g # NoGroup /\ op[t].visitor = "user"
        /\ pc' = pc /\ pc'[t] = "fe_walk"
        /\ live' = live /\ owner' = owner /\ entries' = entries
    BY <1>17 DEF FeVisitUser, FeWalking
  <2>2. PICK v \in VisitorResults : Visited(t, v)
    BY <1>17 DEF FeVisitUser
  <2>3. CASE u = t
    <3>1. Locked(t)' /\ Live(t)' /\ Unstarted(t)' /\ WalkSoFar(t)'
      BY <1>0, <2>1, <2>2, WalkSelf
    <3>2. op'[t].visitor = "user"
      BY <1>0, <2>1, <2>2, VisitedFields
    <3>3. AddedSoFar(t)'
      BY <3>2 DEF AddedSoFar
    <3>4. QED
      BY <2>3, <3>1, <3>3 DEF PerThread
  <2>4. CASE u # t
    <3>1. op'[u] = op[u]
      BY <1>0, <2>2, <2>4, VisitedFields
    <3>2. QED
      BY <1>0, <2>1, <3>1, QuietFrame
  <2>5. QED
    BY <2>3, <2>4
<1>18. ASSUME NEW t \in Threads, FeVisitAdd(t) PROVE PerThread(u)'
  <2> DEFINE r == op[t].gs
  <2>1. PICK o \in AddGroup(entries[r], op[t].g) :
               entries' = [entries EXCEPT ![r] = o.tree] /\ Visited(t, o.res)
    BY <1>18 DEF FeVisitAdd
  <2>2. /\ pc[t] = "fe_walk" /\ op[t].g # NoGroup /\ op[t].visitor = "add"
        /\ owner[r] = NoOwner /\ r \in GroupSets /\ op[t].src \in GroupSets
        /\ pc' = pc /\ pc'[t] = "fe_walk" /\ live' = live /\ owner' = owner
    BY <1>18, <1>T DEF FeVisitAdd, FeWalking, OpRec
  <2>3. /\ entries[r] \subseteq o.tree
        /\ o.res >= 0 => op[t].g \in o.tree
        /\ o.res \in {0, ERR_OUT_OF_MEMORY}
    BY AddGroupGrows
  <2>4. op[t].src # r
    BY <1>0, <2>2, SentinelAssumption DEF PerThread, Locked
  <2>5. entries'[op[t].src] = entries[op[t].src] /\ entries'[r] = o.tree
    BY <1>T, <2>1, <2>2, <2>4
  <2>6. CASE u = t
    <3>1. Locked(t)' /\ Live(t)' /\ Unstarted(t)' /\ WalkSoFar(t)'
      BY <1>0, <2>1, <2>2, <2>5, WalkSelf
    <3>2. AddedSoFar(t)'
      <4>1. SUFFICES ASSUME op'[t].res >= 0
                     PROVE  \A i \in 1..Len(op'[t].visited) :
                               op'[t].visited[i] \in entries'[op'[t].gs]
        BY DEF AddedSoFar
      <4>2. /\ op'[t].gs = r
            /\ op'[t].visited = Append(op[t].visited, op[t].g)
            /\ op'[t].res = IF o.res < 0 THEN o.res ELSE op[t].res + o.res
        BY <1>0, <2>1, VisitedFields
      <4>3. op[t].res \in Int
        BY <1>T DEF OpRec
      <4>4. o.res = 0 /\ op[t].res >= 0
        BY <2>3, <4>1, <4>2, <4>3 DEF ERR_OUT_OF_MEMORY
      <4>5. \A i \in 1..Len(op[t].visited) : op[t].visited[i] \in entries[r]
        BY <1>0, <2>2, <4>4 DEF PerThread, AddedSoFar
      <4>6. op[t].g \in o.tree /\ op[t].visited \in Seq(Groups)
        BY <1>T, <2>3, <4>4 DEF OpRec
      <4>7. QED
        BY <2>3, <2>5, <4>2, <4>5, <4>6
    <3>3. QED
      BY <2>6, <3>1, <3>2 DEF PerThread
  <2>7. CASE u # t
    <3>1. pc'[u] = pc[u] /\ op'[u] = op[u]
      BY <1>0, <2>1, <2>2, <2>7, VisitedFields
    <3>2. pc[u] = "fe_walk" => op[u].src # r
      BY <1>U, <2>2, SentinelAssumption
    <3>3. QED
      BY <1>0, <2>1, <2>2, <2>3, <3>1, <3>2, TreeFrame
  <2>8. QED
    BY <2>6, <2>7
<1>19. ASSUME NEW t \in Threads, FeUnlock(t) PROVE PerThread(u)'
  <2> DEFINE r == op[t].src
  <2>1. /\ pc[t] = "fe_walk" /\ owner[r] = t /\ r \in GroupSets
        /\ owner' = [owner EXCEPT ![r] = NoOwner]
        /\ Return(t, op[t].res) /\ op[t].res \in Int
        /\ live' = live /\ entries' = entries
    BY <1>0, <1>19, <1>T DEF FeUnlock, OpRec, PerThread, Locked
  <2>2. CASE u = t
    BY <1>0, <2>1, <2>2, ReturnSelf
  <2>3. CASE u # t
    <3>1. pc'[u] = pc[u] /\ op'[u] = op[u]
      BY <1>0, <2>1, <2>3, ReturnType DEF TypeInv
    <3>2. QED
      BY <1>0, <2>1, <2>3, <3>1, OwnerStepFrame
  <2>4. QED
    BY <2>2, <2>3
<1>20. CASE UNCHANGED vars
  BY <1>0, <1>20, QuietFrame DEF vars
<1>21. QED
  BY <1>1, <1>2, <1>3, <1>4, <1>5, <1>6, <1>7, <1>8, <1>9, <1>10,
     <1>11, <1>12, <1>13, <1>14, <1>15, <1>16, <1>17, <1>18, <1>19,
     <1>20 DEF Next

-----------------------------------------------------------------------------
(* The walk's order and the union.                                         *)

\* Lines 117-132 of q_groupset.c: nn_groupset_foreach hands f every group
\* of src's tree once, in ascending pointer order, none skipped, whatever
\* the other threads do meanwhile -- they cannot change the tree while the
\* walk holds its mutex, nor free it while the walk uses it.
THEOREM ForeachVisitsInOrderInvariant ==
  Spec => []ForeachVisitsInOrder
<1>1. WInv => ForeachVisitsInOrder
  BY DEF WInv, PerThread, WalkSoFar, ForeachVisitsInOrder
<1>2. QED
  BY <1>1, WInvInit, WInvStep, PTL DEF Spec

\* Only UNLOCK (src) at the end of nn_groupset_foreach returns from a walk.
LEMMA WalkEnds ==
  ASSUME TypeInv, [Next]_vars, NEW t \in Threads,
         pc[t] = "fe_walk", pc'[t] = "idle"
  PROVE  FeUnlock(t)
<1>0. DOMAIN pc = Threads
  BY DEF TypeInv, TypeOK
<1>1. ASSUME NEW w \in Threads, NEW res \in Int, Return(w, res), w # t
      PROVE  FALSE
  BY <1>0, <1>1 DEF Return
<1>2. ASSUME NEW w \in Threads, NEW l, pc' = [pc EXCEPT ![w] = l], w # t
      PROVE  FALSE
  BY <1>0, <1>2
<1>3. CASE \E k \in KernelKeys : KernelCreateGroup(k)
  BY <1>3 DEF KernelCreateGroup
<1>4. CASE \E r \in GroupSets : NewGroupSet(r) \/ FreeGroupSet(r)
  BY <1>4 DEF NewGroupSet, FreeGroupSet
<1>5. ASSUME NEW w \in Threads, NEW r \in GroupSets,
             \/ StartEmpty(w, r) \/ StartForeach(w, r)
             \/ \E g \in Groups : StartAddGroup(w, r, g)
             \/ \E q \in Qoss : StartFromQos(w, r, q)
             \/ \E src \in GroupSets : StartAdd(w, r, src)
      PROVE  FeUnlock(t)
  <2>1. w # t
    BY <1>5 DEF StartEmpty, StartForeach, StartAddGroup, StartFromQos,
                StartAdd, Idle
  <2>2. QED
    BY <1>2, <1>5, <2>1 DEF StartEmpty, StartForeach, StartAddGroup,
                            StartFromQos, StartAdd
<1>6. ASSUME NEW w \in Threads, AddGroupLocked(w) \/ EmptyLocked(w)
      PROVE  FeUnlock(t)
  <2>1. w # t
    BY <1>6 DEF AddGroupLocked, EmptyLocked
  <2>2. QED
    BY <1>1, <1>6, <2>1 DEF AddGroupLocked, EmptyLocked, AddGroup,
                            ERR_OUT_OF_MEMORY
<1>7. ASSUME NEW w \in Threads,
             FqLock(w) \/ FqSkip(w) \/ FqLookup(w) \/ FqAdd(w) \/ FeLock(w)
             \/ FeVisitUser(w) \/ FeVisitAdd(w)
      PROVE  FeUnlock(t)
  <2>1. CASE FqSkip(w) \/ FeVisitUser(w) \/ FeVisitAdd(w)
    BY <2>1 DEF FqSkip, FeVisitUser, FeVisitAdd
  <2>2. CASE FqLock(w) \/ FqLookup(w) \/ FqAdd(w) \/ FeLock(w)
    <3>1. w # t
      BY <2>2 DEF FqLock, FqLookup, FqLooping, FqAdd, FeLock
    <3>2. QED
      BY <1>2, <2>2, <3>1 DEF FqLock, FqLookup, FqAdd, FeLock
  <2>3. QED
    BY <1>7, <2>1, <2>2
<1>8. ASSUME NEW w \in Threads, FqUnlock(w) PROVE FeUnlock(t)
  <2>1. w # t /\ op[w].res \in Int
    BY <1>8 DEF FqUnlock, TypeInv, TypeOK, OpRec
  <2>2. QED
    BY <1>1, <1>8, <2>1 DEF FqUnlock
<1>9. ASSUME NEW w \in Threads, FeUnlock(w) PROVE FeUnlock(t)
  <2>1. CASE w = t
    BY <1>9, <2>1
  <2>2. CASE w # t
    <3>1. op[w].res \in Int
      BY DEF TypeInv, TypeOK, OpRec
    <3>2. QED
      BY <1>1, <1>9, <2>2, <3>1 DEF FeUnlock
  <2>3. QED
    BY <2>1, <2>2
<1>10. CASE UNCHANGED vars
  BY <1>10 DEF vars
<1>11. QED
  BY <1>3, <1>4, <1>5, <1>6, <1>7, <1>8, <1>9, <1>10 DEF Next

\* The step of AddUnion: the walk of nn_groupset_add(gs, src) returns a
\* non-negative result only after it reached the end of src's tree with
\* every add_group succeeding.
LEMMA AddUnionStep ==
  ASSUME WInv, [Next]_vars
  PROVE  [\A t \in Threads :
            (pc[t] = "fe_walk" /\ op[t].visitor = "add" /\ pc'[t] = "idle"
             /\ ret'[t] >= 0) =>
              entries'[op[t].src] \subseteq entries'[op[t].gs]]_vars
<1> SUFFICES ASSUME NEW t \in Threads, pc[t] = "fe_walk",
                    op[t].visitor = "add", pc'[t] = "idle", ret'[t] >= 0
             PROVE  entries'[op[t].src] \subseteq entries'[op[t].gs]
  OBVIOUS
<1>0. TypeInv /\ PerThread(t)
  BY DEF WInv
<1>1. FeUnlock(t)
  BY <1>0, WalkEnds
<1>2. /\ ret'[t] = op[t].res /\ entries' = entries
      /\ (op[t].g = NoGroup \/ op[t].res < 0)
  BY <1>0, <1>1 DEF FeUnlock, Return, TypeInv, TypeOK
<1>3. op[t].res \in Int
  BY <1>0 DEF TypeInv, TypeOK, OpRec
<1>4. op[t].res >= 0 /\ op[t].g = NoGroup
  BY <1>2, <1>3
<1>5. LET s == op[t].visited IN
      /\ {s[i] : i \in 1..Len(s)} = entries[op[t].src]
      /\ \A i \in 1..Len(s) : s[i] \in entries[op[t].gs]
  BY <1>0, <1>4 DEF PerThread, WalkSoFar, AddedSoFar
<1>6. QED
  BY <1>2, <1>5

\* Lines 134-147 of q_groupset.c: when nn_groupset_add(gs, src) returns a
\* non-negative result, every group of src is in gs -- the walk reached
\* the end of src's tree, and no add_group of nn_groupset_add_helper
\* failed.
THEOREM AddUnionProperty ==
  Spec => AddUnion
<1>1. WInv /\ [Next]_vars =>
        [\A t \in Threads :
           (pc[t] = "fe_walk" /\ op[t].visitor = "add" /\ pc'[t] = "idle"
            /\ ret'[t] >= 0) =>
             entries'[op[t].src] \subseteq entries'[op[t].gs]]_vars
  BY AddUnionStep
<1>2. QED
  BY <1>1, WInvInit, WInvStep, PTL DEF Spec, AddUnion

=============================================================================
