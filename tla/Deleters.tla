------------------------------ MODULE Deleters ------------------------------
(***************************************************************************)
(* The ISO C++ API's custom deleters                                       *)
(* (src/src/api/dcps/isocpp/code/org/opensplice/core/memory.cpp).          *)
(* Each DDS entity is held by a shared_ptr whose deleter runs when the     *)
(* last reference goes: it calls delete_<kind> on its factory (the         *)
(* participant factory, or the parent entity whose reference the deleter  *)
(* keeps: PubDeleter/SubDeleter/TopicDeleter keep dp_, DWDeleter keeps     *)
(* pub_, DRDeleter keeps sub_), then check_and_throw on the return code,   *)
(* then DDS::release. The deleter object, and with it the parent          *)
(* reference, is destroyed after the deleter returns; when check_and_throw *)
(* throws, the shared_ptr release is left by the exception and that never  *)
(* happens.                                                                *)
(*                                                                         *)
(* Users hold one reference per entity (the dds:: object the application  *)
(* creates) and drop it at any time; a child is created only through a    *)
(* live reference to its parent. A DataWriter or DataReader object is     *)
(* also created for a topic and keeps a reference to it until the writer  *)
(* or reader is deleted (the dds:: classes outside memory.cpp); this and   *)
(* shared_ptr's counting are the environment, not code of this file.      *)
(***************************************************************************)
EXTENDS Integers, FiniteSets

CONSTANTS
  Entities,   \* the DDS entities of the application
  Kind,       \* the entity's kind, which selects its deleter
  Parent,     \* the entity a child is created from (NoParent: a participant)
  NoParent,
  TopicOf,    \* the topic a DataWriter or DataReader is for (NoParent otherwise)
  MayFail     \* whether delete_<kind> can fail for another reason (ERROR)

ASSUME DeletersAssumption ==
  /\ IsFiniteSet(Entities)
  /\ NoParent \notin Entities
  /\ Parent \in [Entities -> Entities \cup {NoParent}]
  /\ MayFail \in BOOLEAN
  /\ Kind \in [Entities -> {"DP", "Pub", "Sub", "Topic", "DW", "DR"}]
  \* The factory each kind is created from (and deleted through).
  /\ \A e \in Entities :
       /\ Kind[e] = "DP" <=> Parent[e] = NoParent
       /\ Kind[e] \in {"Pub", "Sub", "Topic"} => Kind[Parent[e]] = "DP"
       /\ Kind[e] = "DW" => Kind[Parent[e]] = "Pub"
       /\ Kind[e] = "DR" => Kind[Parent[e]] = "Sub"
  \* Writers and readers use a topic of their own participant.
  /\ TopicOf \in [Entities -> Entities \cup {NoParent}]
  /\ \A e \in Entities :
       /\ Kind[e] \in {"DW", "DR"} <=> TopicOf[e] # NoParent
       /\ TopicOf[e] # NoParent =>
            Kind[TopicOf[e]] = "Topic" /\ Parent[TopicOf[e]] = Parent[Parent[e]]

\* The entities whose references e's deleter and e's dds:: object keep.
Held(e) == {Parent[e], TopicOf[e]} \ {NoParent}

\* The entities that hold a reference to e: its children, and the writers
\* and readers of a topic.
Dependents(e) == {c \in Entities : e \in Held(c)}

\* e and every entity that depends on it, directly or not (three levels).
Subtree(e) ==
  {e} \cup Dependents(e) \cup UNION {Dependents(c) : c \in Dependents(e)}

(* The ReturnCode_t of delete_<kind>: its reason to fail that matters here *)
(* is a contained entity, or a writer or reader of the topic, that still   *)
(* exists.                                                                 *)
ReturnCodes == {"OK", "PRECONDITION_NOT_MET", "ERROR"}

VARIABLES
  phase,     \* "none", "alive", "disposing", "deleted" or "thrown"
  handles,   \* the user's references to e
  uses,      \* the shared_ptr use count of e
  result     \* the last return code delete_<kind> gave for e (history)

vars == <<phase, handles, uses, result>>

\* The DDS entity exists: not yet deleted by a successful delete_<kind>.
Exists(e) == phase[e] \in {"alive", "disposing", "thrown"}

Init ==
  /\ phase = [e \in Entities |-> "none"]
  /\ handles = [e \in Entities |-> 0]
  /\ uses = [e \in Entities |-> 0]
  /\ result = [e \in Entities |-> "none"]

\* Mutant: the deleter does not copy the parent's shared_ptr.
HoldNoParent(e) == uses

(* The deleter of a new child copies the parent's shared_ptr (dp_(dp),    *)
(* pub_(pub), sub_(sub)): one more use of the parent.                      *)
HoldParent(e) ==
  IF Parent[e] = NoParent THEN uses
  ELSE [uses EXCEPT ![Parent[e]] = @ + 1]

(* A writer's or reader's dds:: object keeps (d = 1) or drops (d = -1) its *)
(* topic's reference.                                                      *)
TopicRef(e, u, d) ==
  IF TopicOf[e] = NoParent THEN u ELSE [u EXCEPT ![TopicOf[e]] = @ + d]

(* The application creates e, through its references to e's parent and,   *)
(* for a writer or reader, to its topic.                                   *)
Create(e) ==
  /\ phase[e] = "none"
  /\ \A h \in Held(e) : handles[h] > 0
  /\ phase' = [phase EXCEPT ![e] = "alive"]
  /\ handles' = [handles EXCEPT ![e] = 1]
  /\ uses' = [TopicRef(e, HoldParent(e), 1) EXCEPT ![e] = 1]
  /\ UNCHANGED result

(* Dropping a reference; the last one hands e to its deleter.              *)
Drop(e) ==
  /\ handles[e] > 0
  /\ handles' = [handles EXCEPT ![e] = @ - 1]
  /\ uses' = [uses EXCEPT ![e] = @ - 1]
  /\ phase' = IF uses[e] = 1 THEN [phase EXCEPT ![e] = "disposing"]
                             ELSE phase
  /\ UNCHANGED result

(* What delete_<kind> can return for e.                                    *)
DeleteOutcomes(e) ==
  IF \E c \in Dependents(e) : Exists(c) THEN {"PRECONDITION_NOT_MET"}
  ELSE IF MayFail THEN {"OK", "ERROR"} ELSE {"OK"}

\* Mutant: the deleter object is destroyed without dropping the parent.
ReleaseParentNot(e) == uses

\* Mutant: the parent reference is dropped twice (an explicit release on
\* top of the member's destruction).
ReleaseParentTwice(e) ==
  IF Parent[e] = NoParent THEN uses
  ELSE [uses EXCEPT ![Parent[e]] = @ - 2]

(* Destroying the deleter object drops its parent reference; the last one *)
(* hands the parent to its own deleter in the same thread.                 *)
ReleaseParent(e) ==
  IF Parent[e] = NoParent THEN uses
  ELSE [uses EXCEPT ![Parent[e]] = @ - 1]

(* shared_ptr: e is deleted; a parent or topic whose use count u has       *)
(* dropped to 0 goes to its deleter.                                       *)
Handover(e, u) ==
  [x \in Entities |->
     IF x = e THEN "deleted"
     ELSE IF x \in Held(e) /\ u[x] = 0 THEN "disposing"
     ELSE phase[x]]

\* Mutant: the parent reference is dropped on every exit path, the throw
\* included (a scope guard around the delete), while e still exists.
RunDeleterReleaseOnThrow(e) ==
  /\ phase[e] = "disposing"
  /\ \E rc \in DeleteOutcomes(e) :
       /\ result' = [result EXCEPT ![e] = rc]
       /\ uses' = ReleaseParent(e)
       /\ phase' = IF rc = "OK" THEN Handover(e, uses')
                  ELSE [Handover(e, uses') EXCEPT ![e] = "thrown"]
  /\ UNCHANGED handles

(* The body every deleter shares: delete_<kind>, check_and_throw,          *)
(* DDS::release, then the deleter object is destroyed. On a failed delete *)
(* check_and_throw throws before DDS::release, and the deleter object is  *)
(* never destroyed. A deleted writer's or reader's dds:: object drops its  *)
(* topic with it.                                                          *)
RunDeleter(e) ==
  /\ phase[e] = "disposing"
  /\ \E rc \in DeleteOutcomes(e) :
       /\ result' = [result EXCEPT ![e] = rc]
       /\ IF rc = "OK"
            THEN /\ uses' = TopicRef(e, ReleaseParent(e), -1)
                 /\ phase' = Handover(e, uses')
            ELSE /\ phase' = [phase EXCEPT ![e] = "thrown"]
                 /\ UNCHANGED uses
  /\ UNCHANGED handles

(* DPDeleter: DomainParticipantFactory::delete_participant.              *)
DPDeleter(e) == Kind[e] = "DP" /\ RunDeleter(e)

(* PubDeleter: dp_->delete_publisher.                                      *)
PubDeleter(e) == Kind[e] = "Pub" /\ RunDeleter(e)

(* DWDeleter: pub_->delete_datawriter.                                     *)
DWDeleter(e) == Kind[e] = "DW" /\ RunDeleter(e)

(* SubDeleter: dp_->delete_subscriber.                                     *)
SubDeleter(e) == Kind[e] = "Sub" /\ RunDeleter(e)

(* DRDeleter: sub_->delete_datareader.                                     *)
DRDeleter(e) == Kind[e] = "DR" /\ RunDeleter(e)

(* TopicDeleter: dp_->delete_topic.                                        *)
TopicDeleter(e) == Kind[e] = "Topic" /\ RunDeleter(e)

Next ==
  \E e \in Entities :
    \/ Create(e) \/ Drop(e)
    \/ DPDeleter(e) \/ PubDeleter(e) \/ DWDeleter(e)
    \/ SubDeleter(e) \/ DRDeleter(e) \/ TopicDeleter(e)

(* The thread that dropped the last reference runs the deleter to the     *)
(* end: it cannot stop forever in between. The application itself is not *)
(* obliged to create or drop anything.                                     *)
Spec == Init /\ [][Next]_vars /\ \A e \in Entities : WF_vars(RunDeleter(e))


-----------------------------------------------------------------------------
(* Properties                                                              *)

TypeOK ==
  /\ phase \in [Entities -> {"none", "alive", "disposing", "deleted", "thrown"}]
  /\ handles \in [Entities -> {0, 1}]
  /\ uses \in [Entities -> Nat]
  /\ result \in [Entities -> ReturnCodes \cup {"none"}]

(* The shared_ptr use count of a live entity is the user's reference plus *)
(* one per dependent that still exists (alive, being deleted, or stuck    *)
(* after a throw): the parent references the deleters copy, and the topic *)
(* references of writers and readers, are taken and dropped exactly once. *)
UsesBalanced ==
  \A e \in Entities :
    phase[e] = "alive" =>
      uses[e] = handles[e] + Cardinality({c \in Dependents(e) : Exists(c)})

(* No delete_<kind> call ever fails with PRECONDITION_NOT_MET: because     *)
(* each child's deleter holds its parent (and each writer and reader its  *)
(* topic), an entity's deleter runs only after every entity it contains,  *)
(* and every writer and reader of a topic, has been deleted; a delete that *)
(* throws keeps its parent held.                                           *)
NoPreconditionFailure ==
  \A e \in Entities : result[e] # "PRECONDITION_NOT_MET"

(* Once the application holds no reference to an entity nor to anything   *)
(* that depends on it, the deleters eventually delete it, unless a         *)
(* delete_<kind> in its subtree returned ERROR (that deleter throws and   *)
(* keeps its references for good).                                         *)
Reclaimed ==
  \A e \in Entities :
    (Exists(e) /\ \A d \in Subtree(e) : handles[d] = 0)
      ~> (phase[e] = "deleted" \/ \E d \in Subtree(e) : result[d] = "ERROR")

=============================================================================
