--------------------------- MODULE DeletersProofs ---------------------------
(***************************************************************************)
(* Proofs about the deleter model Deleters, for every set of entities,    *)
(* every parent relation and every topic choice the ISO C++ API allows:   *)
(* the shared_ptr use count of each live entity is its user reference     *)
(* plus one per existing dependent (child, or writer and reader of a      *)
(* topic), and no delete_<kind> call ever meets an existing dependent.    *)
(***************************************************************************)
EXTENDS Deleters, FiniteSetTheorems, TLAPS

\* The existing entities that hold a reference to e: each child's deleter
\* object holds a copy of e's shared_ptr, each writer and reader of a
\* topic its topic.
LiveDeps(e) == {c \in Dependents(e) : Exists(c)}

\* e's use count is its user reference plus its existing dependents.
Balanced(e) == uses[e] = handles[e] + Cardinality(LiveDeps(e))

\* The inductive invariant.
Inv ==
  /\ TypeOK
  /\ \A e \in Entities : Balanced(e)
  \* Only a live entity is referenced by the user,
  /\ \A e \in Entities : handles[e] > 0 => phase[e] = "alive"
  \* an entity is in use exactly while it is live,
  /\ \A e \in Entities : uses[e] > 0 <=> phase[e] = "alive"
  \* and what an existing entity holds is live.
  /\ \A c \in Entities : Exists(c) => \A h \in Held(c) : phase[h] = "alive"
  /\ NoPreconditionFailure

-----------------------------------------------------------------------------
(* Facts about the constants.                                              *)

\* An entity holds other entities only, and no entity twice.
LEMMA HeldFacts ==
  ASSUME NEW e \in Entities
  PROVE  /\ Held(e) \subseteq Entities
         /\ e \notin Held(e)
         /\ Parent[e] # NoParent /\ TopicOf[e] # NoParent => Parent[e] # TopicOf[e]
<1>1. Parent[e] # e
  BY DeletersAssumption
<1>2. TopicOf[e] # e
  BY DeletersAssumption
<1>3. Parent[e] # NoParent /\ TopicOf[e] # NoParent => Parent[e] # TopicOf[e]
  BY DeletersAssumption
<1>4. QED
  BY <1>1, <1>2, <1>3, DeletersAssumption DEF Held

\* The set of existing dependents of an entity is finite, before and after
\* any step.
LEMMA LiveDepsFinite ==
  ASSUME NEW e \in Entities
  PROVE  IsFiniteSet(LiveDeps(e)) /\ IsFiniteSet(LiveDeps(e)')
BY DeletersAssumption, FS_Subset DEF LiveDeps, Dependents

\* An entity with no existing dependent has none by the count either.
LEMMA NoLiveDep ==
  ASSUME NEW e \in Entities, Cardinality(LiveDeps(e)) = 0
  PROVE  \A c \in Entities : Exists(c) => e \notin Held(c)
<1>1. LiveDeps(e) = {}
  BY LiveDepsFinite, FS_EmptySet
<1>2. QED
  BY <1>1 DEF LiveDeps, Dependents

\* Creating e adds one use to each entity e holds.
LEMMA HoldUses ==
  ASSUME NEW u \in [Entities -> Int], NEW e \in Entities, uses = u
  PROVE  /\ TopicRef(e, HoldParent(e), 1) \in [Entities -> Int]
         /\ \A x \in Entities :
              TopicRef(e, HoldParent(e), 1)[x] =
                IF x \in Held(e) THEN u[x] + 1 ELSE u[x]
BY HeldFacts, DeletersAssumption DEF TopicRef, HoldParent, Held

\* Deleting e drops one use of each entity e holds.
LEMMA ReleaseUses ==
  ASSUME NEW u \in [Entities -> Int], NEW e \in Entities, uses = u
  PROVE  /\ TopicRef(e, ReleaseParent(e), -1) \in [Entities -> Int]
         /\ \A x \in Entities :
              TopicRef(e, ReleaseParent(e), -1)[x] =
                IF x \in Held(e) THEN u[x] - 1 ELSE u[x]
BY HeldFacts, DeletersAssumption DEF TopicRef, ReleaseParent, Held

-----------------------------------------------------------------------------
(* Each action preserves the invariant.                                    *)

\* The application creates e through its references to what e holds.
LEMMA CreateInv ==
  ASSUME Inv, NEW e \in Entities, Create(e)
  PROVE  Inv'
<1>1. \A h \in Held(e) : h \in Entities /\ h # e /\ phase[h] = "alive"
  BY HeldFacts DEF Inv, Create
<1>2. \A c \in Entities : Exists(c) => e \notin Held(c)
  BY DEF Inv, Create, Exists
<1>3. /\ uses' \in [Entities -> Nat]
      /\ uses'[e] = 1
      /\ \A x \in Entities \ {e} :
           uses'[x] = IF x \in Held(e) THEN uses[x] + 1 ELSE uses[x]
  BY HoldUses, HeldFacts DEF Inv, TypeOK, Create
<1>4. \A c \in Entities : Exists(c)' <=> Exists(c) \/ c = e
  BY DEF Inv, TypeOK, Create, Exists
<1>5. \A x \in Entities :
        LiveDeps(x)' = IF x \in Held(e) THEN LiveDeps(x) \cup {e} ELSE LiveDeps(x)
  BY <1>4 DEF LiveDeps, Dependents
<1>6. ~Exists(e)
  BY DEF Create, Exists
<1>7. TypeOK'
  BY <1>3 DEF Inv, TypeOK, Create
<1>8. \A x \in Entities : Balanced(x)'
  <2> SUFFICES ASSUME NEW x \in Entities PROVE Balanced(x)'
    OBVIOUS
  <2>1. IsFiniteSet(LiveDeps(x))
    BY LiveDepsFinite
  <2>2. CASE x = e
    <3>1. LiveDeps(x)' = {}
      BY <2>2, <1>2, <1>5, HeldFacts DEF LiveDeps, Dependents
    <3>2. handles'[x] = 1
      BY <2>2 DEF Inv, TypeOK, Create
    <3>3. QED
      BY <2>2, <1>3, <3>1, <3>2, FS_EmptySet DEF Balanced
  <2>3. CASE x # e /\ x \in Held(e)
    <3>1. e \notin LiveDeps(x)
      BY <1>6 DEF LiveDeps
    <3>2. Cardinality(LiveDeps(x)') = Cardinality(LiveDeps(x)) + 1
      BY <2>1, <2>3, <3>1, <1>5, FS_AddElement
    <3>3. handles'[x] = handles[x]
      BY <2>3 DEF Inv, TypeOK, Create
    <3>4. uses[x] = handles[x] + Cardinality(LiveDeps(x))
      BY DEF Inv, Balanced
    <3>5. Cardinality(LiveDeps(x)) \in Nat /\ handles[x] \in Nat
      BY <2>1, FS_CardinalityType DEF Inv, TypeOK
    <3>6. uses'[x] = uses[x] + 1
      BY <2>3, <1>3
    <3>7. QED
      BY <3>2, <3>3, <3>4, <3>5, <3>6 DEF Balanced
  <2>4. CASE x # e /\ x \notin Held(e)
    <3>1. handles'[x] = handles[x]
      BY <2>4 DEF Inv, TypeOK, Create
    <3>2. QED
      BY <2>4, <1>3, <1>5, <3>1 DEF Inv, Balanced
  <2>5. QED
    BY <2>2, <2>3, <2>4
<1>9. \A x \in Entities : handles'[x] > 0 => phase'[x] = "alive"
  BY DEF Inv, TypeOK, Create
<1>10. \A x \in Entities : uses'[x] > 0 <=> phase'[x] = "alive"
  BY <1>1, <1>3 DEF Inv, TypeOK, Create
<1>11. \A c \in Entities : Exists(c)' => \A h \in Held(c) : phase'[h] = "alive"
  <2> SUFFICES ASSUME NEW c \in Entities, Exists(c)', NEW h \in Held(c)
               PROVE  phase'[h] = "alive"
    OBVIOUS
  <2>1. CASE c = e
    BY <2>1, <1>1 DEF Inv, TypeOK, Create
  <2>2. CASE c # e
    <3>1. Exists(c) /\ h # e /\ h \in Entities
      BY <2>2, <1>2, <1>4, HeldFacts
    <3>2. QED
      BY <3>1 DEF Inv, TypeOK, Create
  <2>3. QED
    BY <2>1, <2>2
<1>12. NoPreconditionFailure'
  BY DEF Inv, Create, NoPreconditionFailure
<1>13. QED
  BY <1>7, <1>8, <1>9, <1>10, <1>11, <1>12 DEF Inv

\* The application drops its reference to e; the last use hands e to its
\* deleter.
LEMMA DropInv ==
  ASSUME Inv, NEW e \in Entities, Drop(e)
  PROVE  Inv'
<1>1. phase[e] = "alive" /\ handles[e] = 1 /\ uses[e] \in Nat \ {0}
  BY DEF Inv, TypeOK, Drop
<1>2. IsFiniteSet(LiveDeps(e))
  BY LiveDepsFinite
<1>3. \A c \in Entities : Exists(c)' <=> Exists(c)
  BY <1>1 DEF Drop, Exists
<1>4. \A x \in Entities : LiveDeps(x)' = LiveDeps(x)
  BY <1>3 DEF LiveDeps, Dependents
<1>5. TypeOK'
  BY <1>1 DEF Inv, TypeOK, Drop
<1>6. \A x \in Entities : Balanced(x)'
  <2> SUFFICES ASSUME NEW x \in Entities PROVE Balanced(x)'
    OBVIOUS
  <2>1. CASE x = e
    BY <1>1, <1>2, <1>4, <2>1, FS_CardinalityType DEF Inv, TypeOK, Balanced, Drop
  <2>2. CASE x # e
    BY <1>4, <2>2 DEF Inv, TypeOK, Balanced, Drop
  <2>3. QED
    BY <2>1, <2>2
<1>7. uses[e] = 1 => \A c \in Entities : Exists(c) => e \notin Held(c)
  <2>1. uses[e] = 1 => Cardinality(LiveDeps(e)) = 0
    BY <1>1, <1>2, FS_CardinalityType DEF Inv, Balanced
  <2>2. QED
    BY <2>1, NoLiveDep
<1>8. \A x \in Entities : handles'[x] > 0 => phase'[x] = "alive"
  BY DEF Inv, TypeOK, Drop
<1>9. \A x \in Entities : uses'[x] > 0 <=> phase'[x] = "alive"
  BY <1>1 DEF Inv, TypeOK, Drop
<1>10. \A c \in Entities : Exists(c)' => \A h \in Held(c) : phase'[h] = "alive"
  <2> SUFFICES ASSUME NEW c \in Entities, Exists(c)', NEW h \in Held(c)
               PROVE  phase'[h] = "alive"
    OBVIOUS
  <2>1. Exists(c) /\ phase[h] = "alive" /\ h \in Entities
    BY <1>3, HeldFacts DEF Inv
  <2>2. h = e => uses[e] # 1
    BY <1>7, <2>1
  <2>3. QED
    BY <2>1, <2>2 DEF Inv, TypeOK, Drop
<1>11. NoPreconditionFailure'
  BY DEF Inv, Drop, NoPreconditionFailure
<1>12. QED
  BY <1>5, <1>6, <1>8, <1>9, <1>10, <1>11 DEF Inv

\* A deleter runs on e: delete_<kind> meets no existing dependent, and
\* either succeeds and drops what e holds, or throws before anything is
\* released.
LEMMA RunDeleterInv ==
  ASSUME Inv, NEW e \in Entities, RunDeleter(e)
  PROVE  Inv'
<1>1. phase[e] = "disposing" /\ handles[e] = 0 /\ uses[e] = 0
  BY DEF Inv, TypeOK, RunDeleter
<1>2. \A c \in Entities : Exists(c) => e \notin Held(c)
  <2>1. Cardinality(LiveDeps(e)) = 0
    BY <1>1, LiveDepsFinite, FS_CardinalityType DEF Inv, Balanced
  <2>2. QED
    BY <2>1, NoLiveDep
<1>3. DeleteOutcomes(e) \subseteq {"OK", "ERROR"}
  BY <1>2 DEF DeleteOutcomes, Dependents
<1>4. PICK rc \in DeleteOutcomes(e) :
        /\ result' = [result EXCEPT ![e] = rc]
        /\ IF rc = "OK"
             THEN /\ uses' = TopicRef(e, ReleaseParent(e), -1)
                  /\ phase' = Handover(e, uses')
             ELSE /\ phase' = [phase EXCEPT ![e] = "thrown"]
                  /\ UNCHANGED uses
  BY DEF RunDeleter
<1>5. NoPreconditionFailure'
  BY <1>3, <1>4 DEF Inv, TypeOK, NoPreconditionFailure
<1>6. handles' = handles
  BY DEF RunDeleter
<1>7. result' \in [Entities -> ReturnCodes \cup {"none"}]
  BY <1>3, <1>4 DEF Inv, TypeOK, ReturnCodes
<1>8. \A x \in Held(e) : x \in Entities /\ x # e /\ phase[x] = "alive"
                         /\ e \in LiveDeps(x)
  BY <1>1, HeldFacts DEF Inv, LiveDeps, Dependents, Exists
<1>9. CASE rc = "OK"
  <2>1. /\ uses' \in [Entities -> Int]
        /\ \A x \in Entities : uses'[x] = IF x \in Held(e) THEN uses[x] - 1 ELSE uses[x]
    BY <1>4, <1>9, ReleaseUses DEF Inv, TypeOK
  <2>2. phase' = Handover(e, uses')
    BY <1>4, <1>9
  <2>3. \A c \in Entities : Exists(c)' <=> Exists(c) /\ c # e
    BY <1>8, <2>2 DEF Handover, Exists
  <2>4. \A x \in Entities :
          LiveDeps(x)' = IF x \in Held(e) THEN LiveDeps(x) \ {e} ELSE LiveDeps(x)
    BY <2>3 DEF LiveDeps, Dependents
  <2>5. \A x \in Entities : Balanced(x)'
    <3> SUFFICES ASSUME NEW x \in Entities PROVE Balanced(x)'
      OBVIOUS
    <3>1. IsFiniteSet(LiveDeps(x))
      BY LiveDepsFinite
    <3>2. uses[x] = handles[x] + Cardinality(LiveDeps(x))
      BY DEF Inv, Balanced
    <3>3. CASE x \in Held(e)
      <4>1. Cardinality(LiveDeps(x)') = Cardinality(LiveDeps(x)) - 1
        BY <3>1, <3>3, <1>8, <2>4, FS_RemoveElement
      <4>2. Cardinality(LiveDeps(x)) \in Nat /\ handles[x] \in Nat
        BY <3>1, FS_CardinalityType DEF Inv, TypeOK
      <4>3. uses'[x] = uses[x] - 1
        BY <3>3, <2>1
      <4>4. QED
        BY <3>2, <4>1, <4>2, <4>3, <1>6 DEF Balanced
    <3>4. CASE x \notin Held(e)
      BY <3>2, <3>4, <2>1, <2>4, <1>6 DEF Balanced
    <3>5. QED
      BY <3>3, <3>4
  <2>6. \A x \in Entities : uses'[x] \in Nat /\ (uses'[x] > 0 <=> uses'[x] # 0)
    <3> SUFFICES ASSUME NEW x \in Entities PROVE uses'[x] \in Nat
      BY <2>1
    <3>1. Cardinality(LiveDeps(x)') \in Nat
      BY LiveDepsFinite, FS_CardinalityType
    <3>2. QED
      BY <2>5, <3>1, <1>6 DEF Inv, TypeOK, Balanced
  <2>7. TypeOK'
    <3>1. phase' \in [Entities -> {"none", "alive", "disposing", "deleted", "thrown"}]
      BY <2>2 DEF Inv, TypeOK, Handover
    <3>2. QED
      BY <1>6, <1>7, <2>1, <2>6, <3>1 DEF Inv, TypeOK
  <2>8. \A x \in Entities : handles'[x] > 0 => phase'[x] = "alive"
    <3> SUFFICES ASSUME NEW x \in Entities, handles[x] > 0 PROVE phase'[x] = "alive"
      BY <1>6
    <3>1. phase[x] = "alive" /\ x # e
      BY <1>1 DEF Inv
    <3>2. uses'[x] > 0
      <4>1. Balanced(x)'
        BY <2>5
      <4>2. IsFiniteSet(LiveDeps(x)')
        BY LiveDepsFinite
      <4>3. Cardinality(LiveDeps(x)') \in Nat
        BY <4>2, FS_CardinalityType
      <4>4. handles[x] \in Nat
        BY DEF Inv, TypeOK
      <4>5. QED
        BY <4>1, <4>3, <4>4, <1>6 DEF Balanced
    <3>3. QED
      BY <2>2, <3>1, <3>2 DEF Handover
  <2>9. \A x \in Entities : uses'[x] > 0 <=> phase'[x] = "alive"
    <3> SUFFICES ASSUME NEW x \in Entities PROVE uses'[x] > 0 <=> phase'[x] = "alive"
      OBVIOUS
    <3>1. CASE x = e
      BY <3>1, <1>1, <2>1, <2>2, HeldFacts DEF Handover
    <3>2. CASE x \in Held(e)
      BY <3>2, <1>8, <2>2, <2>6 DEF Handover
    <3>3. CASE x # e /\ x \notin Held(e)
      BY <3>3, <2>1, <2>2 DEF Inv, Handover
    <3>4. QED
      BY <3>1, <3>2, <3>3
  <2>10. \A c \in Entities : Exists(c)' => \A h \in Held(c) : phase'[h] = "alive"
    <3> SUFFICES ASSUME NEW c \in Entities, Exists(c)', NEW h \in Held(c)
                 PROVE  phase'[h] = "alive"
      OBVIOUS
    <3>1. Exists(c) /\ c # e /\ h \in Entities /\ h # e /\ phase[h] = "alive"
      BY <2>3, <1>2, HeldFacts DEF Inv
    <3>2. CASE h \in Held(e)
      <4>1. c \in LiveDeps(h)'
        BY <3>1, <2>3 DEF LiveDeps, Dependents
      <4>2. Cardinality(LiveDeps(h)') \in Nat /\ Cardinality(LiveDeps(h)') > 0
        <5>1. IsFiniteSet(LiveDeps(h)')
          BY <3>1, LiveDepsFinite
        <5>2. LiveDeps(h)' # {}
          BY <4>1
        <5>3. QED
          BY <5>1, <5>2, FS_EmptySet, FS_CardinalityType
      <4>3. uses'[h] > 0
        <5>1. Balanced(h)'
          BY <3>1, <2>5
        <5>2. handles[h] \in Nat
          BY <3>1 DEF Inv, TypeOK
        <5>3. QED
          BY <4>2, <5>1, <5>2, <1>6 DEF Balanced
      <4>4. QED
        BY <3>1, <3>2, <4>3, <2>2, <2>6 DEF Handover
    <3>3. CASE h \notin Held(e)
      BY <3>1, <3>3, <2>2 DEF Handover
    <3>4. QED
      BY <3>2, <3>3
  <2>11. QED
    BY <1>5, <2>5, <2>7, <2>8, <2>9, <2>10 DEF Inv
<1>10. CASE rc # "OK"
  <2>1. phase' = [phase EXCEPT ![e] = "thrown"] /\ uses' = uses
    BY <1>4, <1>10
  <2>2. \A c \in Entities : Exists(c)' <=> Exists(c)
    BY <1>1, <2>1 DEF Inv, TypeOK, Exists
  <2>3. \A x \in Entities : LiveDeps(x)' = LiveDeps(x)
    BY <2>2 DEF LiveDeps, Dependents
  <2>4. TypeOK'
    BY <1>6, <1>7, <2>1 DEF Inv, TypeOK
  <2>5. \A x \in Entities : Balanced(x)'
    BY <1>6, <2>1, <2>3 DEF Inv, Balanced
  <2>6. \A c \in Entities : Exists(c)' => \A h \in Held(c) : phase'[h] = "alive"
    BY <1>2, <2>1, <2>2, HeldFacts DEF Inv, TypeOK
  <2>7. QED
    BY <1>1, <1>5, <1>6, <2>1, <2>4, <2>5, <2>6 DEF Inv, TypeOK
<1>11. QED
  BY <1>9, <1>10

-----------------------------------------------------------------------------
(* The invariant is inductive.                                             *)

\* Before the application creates anything, nothing is referenced.
LEMMA InitInv ==
  Init => Inv
<1> SUFFICES ASSUME Init PROVE Inv
  OBVIOUS
<1>1. \A e \in Entities : LiveDeps(e) = {}
  BY DEF Init, LiveDeps, Dependents, Exists
<1>2. \A e \in Entities : Balanced(e)
  BY <1>1, FS_EmptySet DEF Init, Balanced
<1>3. QED
  BY <1>2 DEF Init, Inv, TypeOK, Exists, NoPreconditionFailure

\* Every step of the application and of the deleters keeps the invariant.
LEMMA StepInv ==
  Inv /\ [Next]_vars => Inv'
<1> SUFFICES ASSUME Inv, [Next]_vars PROVE Inv'
  OBVIOUS
<1>1. ASSUME NEW e \in Entities, Create(e) PROVE Inv'
  BY <1>1, CreateInv
<1>2. ASSUME NEW e \in Entities, Drop(e) PROVE Inv'
  BY <1>2, DropInv
<1>3. ASSUME NEW e \in Entities, RunDeleter(e) PROVE Inv'
  BY <1>3, RunDeleterInv
<1>4. CASE UNCHANGED vars
  BY <1>4 DEF Inv, vars, TypeOK, Balanced, LiveDeps, Exists, NoPreconditionFailure
<1>5. QED
  BY <1>1, <1>2, <1>3, <1>4
  DEF Next, DPDeleter, PubDeleter, DWDeleter, SubDeleter, DRDeleter, TopicDeleter

-----------------------------------------------------------------------------
(* The theorems.                                                           *)

\* The shared_ptr use count of every live entity is always its user
\* reference plus one per existing dependent: the parent references the
\* deleters copy in their constructors, and the topic references of
\* writers and readers, are each dropped exactly once, failed deletes
\* included.
THEOREM UsesBalancedInvariant ==
  Spec => []UsesBalanced
<1>1. Inv => UsesBalanced
  BY DEF Inv, UsesBalanced, Balanced, LiveDeps
<1>2. QED
  BY <1>1, InitInv, StepInv, PTL DEF Spec

\* No delete_<kind> call ever fails with PRECONDITION_NOT_MET, whatever
\* order the application drops its references in and whichever deletes
\* fail with ERROR: a deleter runs only once its entity has no existing
\* child, and a topic no existing writer or reader.
THEOREM NoPreconditionFailureInvariant ==
  Spec => []NoPreconditionFailure
<1>1. Inv => NoPreconditionFailure
  BY DEF Inv
<1>2. QED
  BY <1>1, InitInv, StepInv, PTL DEF Spec

\* The model's state stays well typed: use counts are natural numbers,
\* the application holds at most one handle per entity, and every
\* entity's phase and delete result is one the deleters produce.
THEOREM TypeOKInvariant ==
  Spec => []TypeOK
<1>1. Inv => TypeOK
  BY DEF Inv
<1>2. QED
  BY <1>1, InitInv, StepInv, PTL DEF Spec

====
