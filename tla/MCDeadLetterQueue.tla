------------------------- MODULE MCDeadLetterQueue -------------------------
(* Instances of DeadLetterQueue for TLC.                                   *)
EXTENDS DeadLetterQueue, TLC

CONSTANTS w1, w2, m1, m2

UniqueIDs == (w1 :> "a") @@ (w2 :> "b")

OneID == w1 :> "a"

AllMessages == [w \in Workers |-> Messages]

\* w2 has no handler for any topic.
AllButW2 == [w \in Workers |-> IF w = w2 THEN {} ELSE Messages]
=============================================================================
