--------------------------- MODULE MCProcessBatch ---------------------------
(* Instances of ProcessBatch for TLC.                                      *)
EXTENDS ProcessBatch, TLC

CONSTANTS w1, w2, w3, m1, m2

UniqueIDs == (w1 :> "a") @@ (w2 :> "b")
ThreeIDs == (w1 :> "a") @@ (w2 :> "b") @@ (w3 :> "c")

\* A fleet during a rollout: one worker has no handler for the topic, or not
\* every key.
AllButW2 == [w \in Workers |-> IF w = w2 THEN {} ELSE Messages]
AllButW3 == [w \in Workers |-> IF w = w3 THEN {} ELSE Messages]

AllMessages == [w \in Workers |-> Messages]
=============================================================================
