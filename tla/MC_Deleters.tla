---------------------------- MODULE MC_Deleters ----------------------------
(* One participant with a publisher and its writer, a subscriber and its  *)
(* reader, and a topic both are for: one entity of each deleter's kind.   *)
EXTENDS Deleters, TLC

CONSTANTS dp, pub, dw, sub, dr, topic

MC_Entities == {dp, pub, dw, sub, dr, topic}

MC_Parent == (dp :> NoParent) @@ (pub :> dp) @@ (sub :> dp) @@ (topic :> dp)
               @@ (dw :> pub) @@ (dr :> sub)

MC_Kind == (dp :> "DP") @@ (pub :> "Pub") @@ (sub :> "Sub") @@ (topic :> "Topic")
             @@ (dw :> "DW") @@ (dr :> "DR")

\* The writer and the reader are both for the participant's topic.
MC_TopicOf == [e \in MC_Entities |-> IF e \in {dw, dr} THEN topic ELSE NoParent]
=============================================================================
