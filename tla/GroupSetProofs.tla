--------------------------- MODULE GroupSetProofs ---------------------------
(***************************************************************************)
(* Proofs about the group-set model GroupSet, for every value of its      *)
(* constants: the type invariant, and that the references taken on kernel *)
(* groups by add_group_by_name are exactly those of lookups in progress.  *)
(***************************************************************************)
EXTENDS GroupSet, WellFoundedInduction, FiniteSetTheorems, TLAPS

-----------------------------------------------------------------------------
(* The AVL helpers.                                                        *)

\* A non-empty set of group addresses has a least element, so avl_findmin
\* is the smallest key of a non-empty tree.
LEMMA FindMinIsMin ==
  ASSUME NEW E \in SUBSET Groups, E # {}
  PROVE  /\ FindMin(E) \in E
         /\ \A y \in E : FindMin(E) =< y
<1>1. \E x \in E : \A y \in E : ~(<<y, x>> \in OpToRel(<, Nat))
  BY GroupsAssumption, NatLessThanWellFounded, WFMin
<1>2. PICK x \in E : \A y \in E : ~(<<y, x>> \in OpToRel(<, Nat))
  BY <1>1
<1>3. \A y \in E : x =< y
  <2>1. SUFFICES ASSUME NEW y \in E PROVE x =< y
    OBVIOUS
  <2>2. x \in Nat /\ y \in Nat
    BY GroupsAssumption
  <2>3. ~(<<y, x>> \in {ss \in Nat \X Nat : ss[1] < ss[2]})
    BY <1>2 DEF OpToRel
  <2>4. QED
    BY <2>2, <2>3
<1>4. QED
  BY <1>3 DEF FindMin

\* avl_findmin returns a key of the tree or NULL.
LEMMA FindMinType ==
  ASSUME NEW E \in SUBSET Groups
  PROVE  FindMin(E) \in E \cup {NoGroup}
<1>1. CASE E = {}
  BY <1>1 DEF FindMin
<1>2. CASE E # {}
  BY <1>2, FindMinIsMin
<1>3. QED
  BY <1>1, <1>2

\* avl_findsucc returns a key of the tree or NULL.
LEMMA FindSuccType ==
  ASSUME NEW E \in SUBSET Groups, NEW g
  PROVE  FindSucc(E, g) \in E \cup {NoGroup}
<1>1. {x \in E : x > g} \in SUBSET Groups
  OBVIOUS
<1>2. QED
  BY <1>1, FindMinType DEF FindSucc

\* add_group yields a tree of groups and an integer result.
LEMMA AddGroupType ==
  ASSUME NEW E \in SUBSET Groups, NEW g \in Groups
  PROVE  \A o \in AddGroup(E, g) : o.tree \in SUBSET Groups /\ o.res \in Int
BY DEF AddGroup, ERR_OUT_OF_MEMORY

-----------------------------------------------------------------------------
(* Type correctness.                                                       *)

\* The locals a thread starts an operation with are well typed.
LEMMA OpInitType ==
  ASSUME NEW r \in GroupSets
  PROVE  /\ OpInit(r) \in OpRec
         /\ NoOp \in OpRec
BY QosAssumption, GroupSetsAssumption DEF OpInit, OpRec, NoOp

\* Updating the locals of an operation field by field keeps them well typed.
LEMMA OpUpdateType ==
  ASSUME NEW o \in OpRec
  PROVE  /\ \A x \in SUBSET KernelKeys : [o EXCEPT !.known = x] \in OpRec
         /\ \A x \in Nat : [o EXCEPT !.i = x] \in OpRec
         /\ \A x \in Groups \cup {NoGroup} : [o EXCEPT !.g = x] \in OpRec
         /\ \A x \in Int, y \in Nat :
              [o EXCEPT !.res = x, !.i = y, !.g = NoGroup] \in OpRec
BY DEF OpRec

\* The type invariant strengthened so that it is inductive: a thread about
\* to call add_group holds a group, not NULL.
TypeInv ==
  /\ TypeOK
  /\ \A t \in Threads : pc[t] \in {"ag_lock", "fq_add"} => op[t].g \in Groups

\* Return keeps the thread's locals and result well typed.
LEMMA ReturnType ==
  ASSUME TypeOK, NEW t \in Threads, NEW res \in Int, Return(t, res)
  PROVE  /\ pc' \in [Threads -> {"idle", "ag_lock", "em_lock", "fq_lock",
                                 "fq_next", "fq_add", "fe_lock", "fe_walk"}]
         /\ op' \in [Threads -> OpRec]
         /\ ret' \in [Threads -> Int]
         /\ pc'[t] = "idle"
         /\ \A u \in Threads \ {t} : pc'[u] = pc[u] /\ op'[u] = op[u]
BY OpInitType, GroupSetsAssumption DEF Return, TypeOK

\* One foreach step (Visited) keeps the locals well typed.
LEMMA VisitedType ==
  ASSUME TypeOK, NEW t \in Threads, op[t].g \in Groups, NEW v \in Int,
         Visited(t, v)
  PROVE  op' \in [Threads -> OpRec]
<1> DEFINE o == op[t]
           n == FindSucc(entries[o.src], o.g)
<1>1. o \in OpRec
  BY DEF TypeOK
<1>2. n \in Groups \cup {NoGroup}
  BY <1>1, FindSuccType DEF TypeOK, OpRec
<1>3. /\ Append(o.visited, o.g) \in Seq(Groups)
      /\ Append(o.rets, v) \in Seq(Int)
      /\ (IF v < 0 THEN v ELSE o.res + v) \in Int
  BY <1>1 DEF OpRec
<1>4. op' = [op EXCEPT ![t] = [o EXCEPT !.res = IF v < 0 THEN v ELSE o.res + v,
                                       !.g = n,
                                       !.visited = Append(o.visited, o.g),
                                       !.rets = Append(o.rets, v)]]
  BY DEF Visited
<1>5. [o EXCEPT !.res = IF v < 0 THEN v ELSE o.res + v, !.g = n,
                !.visited = Append(o.visited, o.g),
                !.rets = Append(o.rets, v)] \in OpRec
  BY <1>1, <1>2, <1>3 DEF OpRec
<1>6. QED
  BY <1>4, <1>5 DEF TypeOK

\* Every step of the group-set operations keeps the variables well typed.
LEMMA TypeStep == TypeInv /\ [Next]_vars => TypeInv'
<1> SUFFICES ASSUME TypeInv, [Next]_vars PROVE TypeInv'
  OBVIOUS
<1> USE DEF TypeInv, TypeOK
<1>1. ASSUME NEW k \in KernelKeys, KernelCreateGroup(k) PROVE TypeInv'
  BY <1>1 DEF KernelCreateGroup
<1>2. ASSUME NEW r \in GroupSets, NewGroupSet(r) PROVE TypeInv'
  BY <1>2 DEF NewGroupSet
<1>3. ASSUME NEW r \in GroupSets, FreeGroupSet(r) PROVE TypeInv'
  BY <1>3 DEF FreeGroupSet
<1>4. ASSUME NEW t \in Threads, NEW r \in GroupSets, StartEmpty(t, r)
      PROVE TypeInv'
  BY <1>4, OpInitType DEF StartEmpty
<1>5. ASSUME NEW t \in Threads, NEW r \in GroupSets, StartForeach(t, r)
      PROVE TypeInv'
  BY <1>5, OpInitType DEF StartForeach
<1>6. ASSUME NEW t \in Threads, NEW r \in GroupSets, NEW g \in Groups,
             StartAddGroup(t, r, g)
      PROVE TypeInv'
  BY <1>6, OpInitType DEF StartAddGroup, OpRec, OpInit
<1>7. ASSUME NEW t \in Threads, NEW r \in GroupSets, NEW q \in Qoss,
             StartFromQos(t, r, q)
      PROVE TypeInv'
  BY <1>7, OpInitType DEF StartFromQos, OpRec, OpInit
<1>8. ASSUME NEW t \in Threads, NEW r \in GroupSets, NEW src \in GroupSets,
             StartAdd(t, r, src)
      PROVE TypeInv'
  BY <1>8, OpInitType DEF StartAdd, OpRec, OpInit
<1>9. ASSUME NEW t \in Threads, AddGroupLocked(t) PROVE TypeInv'
  <2>1. PICK o \in AddGroup(entries[op[t].gs], op[t].g) :
               /\ entries' = [entries EXCEPT ![op[t].gs] = o.tree]
               /\ Return(t, o.res)
    BY <1>9 DEF AddGroupLocked
  <2>2. o.tree \in SUBSET Groups /\ o.res \in Int
    BY <1>9, AddGroupType DEF AddGroupLocked, OpRec
  <2>3. QED
    BY <1>9, <2>1, <2>2, ReturnType DEF AddGroupLocked, OpRec
<1>10. ASSUME NEW t \in Threads, EmptyLocked(t) PROVE TypeInv'
  BY <1>10, ReturnType DEF EmptyLocked
<1>11. ASSUME NEW t \in Threads, FqLock(t) PROVE TypeInv'
  <2>1. op' = [op EXCEPT ![t] = [op[t] EXCEPT !.known = kgroups]]
    BY <1>11 DEF FqLock
  <2>2. [op[t] EXCEPT !.known = kgroups] \in OpRec
    BY DEF OpRec
  <2>3. QED
    BY <1>11, <2>1, <2>2 DEF FqLock
<1>12. ASSUME NEW t \in Threads, FqSkip(t) PROVE TypeInv'
  <2>1. op' = [op EXCEPT ![t] = [op[t] EXCEPT !.i = op[t].i + 1]]
    BY <1>12 DEF FqSkip
  <2>2. [op[t] EXCEPT !.i = op[t].i + 1] \in OpRec
    <3>1. op[t] \in OpRec /\ op[t].i + 1 \in Nat
      BY DEF OpRec
    <3>2. QED
      BY ONLY <3>1, OpUpdateType
  <2>3. QED
    BY <1>12, <2>1, <2>2 DEF FqSkip, FqLooping
<1>13. ASSUME NEW t \in Threads, FqLookup(t) PROVE TypeInv'
  <2>1. FqKey(t) \in KernelKeys
    BY <1>13 DEF FqLookup
  <2>2. GroupOf[FqKey(t)] \in Groups
    BY <2>1, GroupOfAssumption
  <2>3. op' = [op EXCEPT ![t] = [op[t] EXCEPT !.g = GroupOf[FqKey(t)]]]
    BY <1>13 DEF FqLookup
  <2>4. [op[t] EXCEPT !.g = GroupOf[FqKey(t)]] \in OpRec
    BY <2>2 DEF OpRec
  <2>5. QED
    BY <1>13, <2>2, <2>3, <2>4 DEF FqLookup
<1>14. ASSUME NEW t \in Threads, FqAdd(t) PROVE TypeInv'
  <2>1. PICK o \in AddGroup(entries[op[t].gs], op[t].g) :
               /\ entries' = [entries EXCEPT ![op[t].gs] = o.tree]
               /\ op' = [op EXCEPT ![t].res = o.res, ![t].i = @ + 1,
                                   ![t].g = NoGroup]
    BY <1>14 DEF FqAdd
  <2>2. o.tree \in SUBSET Groups /\ o.res \in Int
    BY <1>14, AddGroupType DEF FqAdd, OpRec
  <2>3. op' = [op EXCEPT ![t] = [op[t] EXCEPT !.res = o.res,
                                            !.i = op[t].i + 1,
                                            !.g = NoGroup]]
    BY <2>1
  <2>4. [op[t] EXCEPT !.res = o.res, !.i = op[t].i + 1, !.g = NoGroup]
          \in OpRec
    <3>1. op[t] \in OpRec /\ op[t].i + 1 \in Nat
      BY DEF OpRec
    <3>2. QED
      BY ONLY <2>2, <3>1, OpUpdateType
  <2>5. entries' \in [GroupSets -> SUBSET Groups]
    BY <2>1, <2>2
  <2>6. refs' \in [Groups -> Int]
    BY <1>14 DEF FqAdd
  <2>7. pc' = [pc EXCEPT ![t] = "fq_next"] /\ pc[t] = "fq_add"
    BY <1>14 DEF FqAdd
  <2>8. op' \in [Threads -> OpRec]
    BY <2>3, <2>4
  <2>9. \A u \in Threads \ {t} : op'[u] = op[u]
    BY <2>3
  <2>10. QED
    BY <1>14, <2>5, <2>6, <2>7, <2>8, <2>9 DEF FqAdd
<1>15. ASSUME NEW t \in Threads, FqUnlock(t) PROVE TypeInv'
  BY <1>15, ReturnType DEF FqUnlock, OpRec
<1>16. ASSUME NEW t \in Threads, FeLock(t) PROVE TypeInv'
  <2>1. FindMin(entries[op[t].src]) \in Groups \cup {NoGroup}
    BY FindMinType DEF OpRec
  <2>2. op' = [op EXCEPT ![t] = [op[t] EXCEPT
                                   !.g = FindMin(entries[op[t].src])]]
    BY <1>16 DEF FeLock
  <2>3. [op[t] EXCEPT !.g = FindMin(entries[op[t].src])] \in OpRec
    BY <2>1 DEF OpRec
  <2>4. QED
    BY <1>16, <2>2, <2>3 DEF FeLock
<1>17. ASSUME NEW t \in Threads, FeVisitUser(t) PROVE TypeInv'
  <2>1. PICK v \in VisitorResults : Visited(t, v)
    BY <1>17 DEF FeVisitUser
  <2>2. op[t].g \in Groups
    BY <1>17 DEF FeVisitUser, FeWalking, OpRec
  <2>3. op' \in [Threads -> OpRec]
    BY <2>1, <2>2, VisitorAssumption, VisitedType
  <2>4. \A u \in Threads : pc'[u] = pc[u] /\ (u # t => op'[u] = op[u])
    BY <1>17, <2>1 DEF FeVisitUser, Visited
  <2>5. pc[t] = "fe_walk"
    BY <1>17 DEF FeVisitUser, FeWalking
  <2>6. QED
    BY <1>17, <2>3, <2>4, <2>5 DEF FeVisitUser
<1>18. ASSUME NEW t \in Threads, FeVisitAdd(t) PROVE TypeInv'
  <2>1. op[t].g \in Groups
    BY <1>18 DEF FeVisitAdd, FeWalking, OpRec
  <2>2. PICK o \in AddGroup(entries[op[t].gs], op[t].g) :
               /\ entries' = [entries EXCEPT ![op[t].gs] = o.tree]
               /\ Visited(t, o.res)
    BY <1>18 DEF FeVisitAdd
  <2>3. o.tree \in SUBSET Groups /\ o.res \in Int
    BY <2>1, AddGroupType DEF OpRec
  <2>4. op' \in [Threads -> OpRec]
    BY <2>1, <2>2, <2>3, VisitedType
  <2>5. \A u \in Threads : pc'[u] = pc[u] /\ (u # t => op'[u] = op[u])
    BY <1>18, <2>2 DEF FeVisitAdd, Visited
  <2>6. pc[t] = "fe_walk"
    BY <1>18 DEF FeVisitAdd, FeWalking
  <2>7. QED
    BY <1>18, <2>2, <2>3, <2>4, <2>5, <2>6 DEF FeVisitAdd, OpRec
<1>19. ASSUME NEW t \in Threads, FeUnlock(t) PROVE TypeInv'
  BY <1>19, ReturnType DEF FeUnlock, OpRec
<1>20. CASE UNCHANGED vars
  BY <1>20 DEF vars
<1>21. QED
  BY <1>1, <1>2, <1>3, <1>4, <1>5, <1>6, <1>7, <1>8, <1>9, <1>10,
     <1>11, <1>12, <1>13, <1>14, <1>15, <1>16, <1>17, <1>18, <1>19,
     <1>20 DEF Next

\* The strengthened type invariant holds in every reachable state.
THEOREM TypeCorrect == Spec => []TypeInv
<1>1. Init => TypeInv
  BY OpInitType, GroupSetsAssumption DEF Init, TypeInv, TypeOK
<1>2. QED
  BY <1>1, TypeStep, PTL DEF Spec

\* The type invariant of the model holds in every reachable state.
THEOREM TypeOKInvariant == Spec => []TypeOK
BY TypeCorrect, PTL DEF TypeInv

-----------------------------------------------------------------------------
(* Reference balance: add_group_by_name's c_free on every path.            *)

\* The set of lookups holding a reference on a group is finite.
LEMMA HoldersFinite ==
  ASSUME NEW h
  PROVE  /\ IsFiniteSet(Holders(h))
         /\ IsFiniteSet(Holders(h)')
BY ThreadsAssumption, FS_Subset DEF Holders

\* A step that leaves every other thread alone and moves t neither into nor
\* out of the window between v_groupSetGet and c_free changes no holder set.
LEMMA HoldersUnchanged ==
  ASSUME NEW t \in Threads,
         pc[t] # "fq_add", pc'[t] # "fq_add",
         \A u \in Threads \ {t} : pc'[u] = pc[u] /\ op'[u] = op[u]
  PROVE  \A h \in Groups : Holders(h)' = Holders(h)
BY DEF Holders

\* The same, for a step in which no thread moves.
LEMMA HoldersStill ==
  ASSUME UNCHANGED <<pc, op>>
  PROVE  \A h \in Groups : Holders(h)' = Holders(h)
BY DEF Holders

\* The inductive invariant: types, and the reference balance.
IInv == TypeInv /\ RefsBalanced

\* Every reference v_groupSetGet hands to nn_groupset_fromqos is released
\* by the time the thread leaves add_group_by_name, on the error path too.
THEOREM RefsBalancedInvariant == Spec => []RefsBalanced
<1>1. Init => IInv
  <2> SUFFICES ASSUME Init PROVE IInv
    OBVIOUS
  <2>1. TypeInv
    BY OpInitType, GroupSetsAssumption DEF Init, TypeInv, TypeOK
  <2>2. \A g \in Groups : Holders(g) = {}
    BY DEF Init, Holders
  <2>3. QED
    BY <2>1, <2>2, FS_EmptySet DEF Init, IInv, RefsBalanced
<1>2. IInv /\ [Next]_vars => IInv'
  <2> SUFFICES ASSUME IInv, [Next]_vars PROVE IInv'
    OBVIOUS
  <2>0. TypeInv'
    BY TypeStep DEF IInv
  <2> DEFINE Balanced(h) == refs'[h] = Cardinality(Holders(h)')
  <2> SUFFICES \A h \in Groups : Balanced(h)
    BY <2>0 DEF IInv, RefsBalanced
  <2> DEFINE Frame == refs' = refs /\ \A h \in Groups : Holders(h)' = Holders(h)
  <2> USE DEF IInv, TypeInv, TypeOK
  <2>1. CASE Frame
    BY <2>1 DEF RefsBalanced
  <2>2. ASSUME NEW t \in Threads, FqLookup(t) PROVE \A h \in Groups : Balanced(h)
    <3>1. PICK g \in Groups : g = GroupOf[FqKey(t)]
      BY <2>2, GroupOfAssumption DEF FqLookup
    <3>2. /\ refs' = [refs EXCEPT ![g] = @ + 1]
          /\ op' = [op EXCEPT ![t].g = g]
          /\ pc' = [pc EXCEPT ![t] = "fq_add"]
          /\ pc[t] = "fq_next"
      BY <2>2, <3>1 DEF FqLookup, FqLooping
    <3>7. /\ op'[t].g = g /\ pc'[t] = "fq_add"
          /\ \A u \in Threads \ {t} : op'[u] = op[u] /\ pc'[u] = pc[u]
      <4>1. op'[t] = [op[t] EXCEPT !.g = g]
        BY <3>2
      <4>2. op[t] \in OpRec
        OBVIOUS
      <4>3. QED
        BY <3>2, <4>1, <4>2 DEF OpRec
    <3>3. Holders(g)' = Holders(g) \cup {t} /\ t \notin Holders(g)
      BY <3>2, <3>7 DEF Holders
    <3>4. \A h \in Groups \ {g} : Holders(h)' = Holders(h)
      BY <3>2, <3>7 DEF Holders
    <3>5. Cardinality(Holders(g)') = Cardinality(Holders(g)) + 1
      BY <3>3, HoldersFinite, FS_AddElement
    <3>6. QED
      BY <3>1, <3>2, <3>4, <3>5 DEF RefsBalanced
  <2>3. ASSUME NEW t \in Threads, FqAdd(t) PROVE \A h \in Groups : Balanced(h)
    <3>1. PICK g \in Groups : pc[t] = "fq_add" /\ g = op[t].g
      BY <2>3 DEF FqAdd
    <3>2. PICK o \in AddGroup(entries[op[t].gs], g) :
            op' = [op EXCEPT ![t].res = o.res, ![t].i = @ + 1, ![t].g = NoGroup]
      BY <2>3, <3>1 DEF FqAdd
    <3>3. /\ refs' = [refs EXCEPT ![g] = @ - 1]
          /\ pc' = [pc EXCEPT ![t] = "fq_next"]
      BY <2>3, <3>1 DEF FqAdd
    <3>8. /\ pc'[t] = "fq_next"
          /\ \A u \in Threads \ {t} : op'[u] = op[u] /\ pc'[u] = pc[u]
      BY <3>2, <3>3
    <3>4. Holders(g)' = Holders(g) \ {t} /\ t \in Holders(g)
      BY <3>1, <3>8 DEF Holders
    <3>5. \A h \in Groups \ {g} : Holders(h)' = Holders(h)
      BY <3>1, <3>8 DEF Holders
    <3>6. Cardinality(Holders(g)') = Cardinality(Holders(g)) - 1
      BY <3>4, HoldersFinite, FS_RemoveElement
    <3>7. QED
      BY <3>1, <3>3, <3>5, <3>6 DEF RefsBalanced
  <2>4. ASSUME NEW t \in Threads,
               \/ AddGroupLocked(t) \/ EmptyLocked(t) \/ FqUnlock(t)
               \/ FeUnlock(t)
        PROVE  Frame
    <3>1. pc[t] # "fq_add" /\ refs' = refs
      BY <2>4 DEF AddGroupLocked, EmptyLocked, FqUnlock, FeUnlock
    <3>2. PICK res \in Int : Return(t, res)
      <4>1. CASE AddGroupLocked(t)
        <5>1. op[t].g \in Groups
          BY <4>1 DEF AddGroupLocked
        <5>2. PICK o \in AddGroup(entries[op[t].gs], op[t].g) : Return(t, o.res)
          BY <4>1 DEF AddGroupLocked
        <5>3. QED
          BY <5>1, <5>2, AddGroupType DEF OpRec
      <4>2. CASE EmptyLocked(t)
        BY <4>2 DEF EmptyLocked
      <4>3. CASE FqUnlock(t)
        BY <4>3 DEF FqUnlock, OpRec
      <4>4. CASE FeUnlock(t)
        BY <4>4 DEF FeUnlock, OpRec
      <4>5. QED
        BY <2>4, <4>1, <4>2, <4>3, <4>4
    <3>3. QED
      BY <3>1, <3>2, ReturnType, HoldersUnchanged
  <2>5. ASSUME NEW t \in Threads,
               \/ \E r \in GroupSets :
                    \/ StartEmpty(t, r) \/ StartForeach(t, r)
                    \/ \E g \in Groups : StartAddGroup(t, r, g)
                    \/ \E q \in Qoss : StartFromQos(t, r, q)
                    \/ \E src \in GroupSets : StartAdd(t, r, src)
               \/ FqLock(t) \/ FqSkip(t) \/ FeLock(t)
        PROVE  Frame
    <3>1. /\ pc[t] # "fq_add" /\ pc'[t] # "fq_add" /\ refs' = refs
          /\ \A u \in Threads \ {t} : pc'[u] = pc[u] /\ op'[u] = op[u]
      BY <2>5 DEF StartEmpty, StartForeach, StartAddGroup, StartFromQos,
                  StartAdd, FqLock, FqSkip, FeLock, Idle, FqLooping
    <3>2. QED
      BY <3>1, HoldersUnchanged
  <2>6. ASSUME NEW t \in Threads, FeVisitUser(t) \/ FeVisitAdd(t)
        PROVE  Frame
    <3>1. /\ pc[t] = "fe_walk" /\ pc' = pc /\ refs' = refs
      BY <2>6 DEF FeVisitUser, FeVisitAdd, FeWalking
    <3>2. \A u \in Threads \ {t} : op'[u] = op[u]
      <4>1. ASSUME NEW v, Visited(t, v) PROVE \A u \in Threads \ {t} : op'[u] = op[u]
        BY <4>1 DEF Visited
      <4>2. QED
        BY <2>6, <4>1 DEF FeVisitUser, FeVisitAdd
    <3>3. QED
      BY <3>1, <3>2, HoldersUnchanged
  <2>7. ASSUME \/ \E k \in KernelKeys : KernelCreateGroup(k)
               \/ \E r \in GroupSets : NewGroupSet(r) \/ FreeGroupSet(r)
               \/ UNCHANGED vars
        PROVE  Frame
    <3>1. UNCHANGED <<pc, op, refs>>
      BY <2>7 DEF KernelCreateGroup, NewGroupSet, FreeGroupSet, vars
    <3>2. QED
      BY <3>1, HoldersStill
  <2>8. QED
    BY <2>1, <2>2, <2>3, <2>4, <2>5, <2>6, <2>7 DEF Next
<1>3. QED
  BY <1>1, <1>2, PTL DEF Spec, IInv

=============================================================================
