------------------------------ MODULE MCInbox ------------------------------
(* Instances of Inbox for TLC.                                             *)
EXTENDS Inbox

CONSTANTS r1, r2, r3

\* r2 passes a nil tx, the others their transaction.
SomeInTx == [r \in Receivers |-> r # r2]
NoneInTx == [r \in Receivers |-> FALSE]
=============================================================================
