------------------------------ MODULE Lifecycle ------------------------------
(***************************************************************************)
(* What the library promises of a message, whatever workers, cleanup jobs  *)
(* and operators do: an abstract specification with no tables, no owners,  *)
(* no timestamps and no tasks.  ProcessBatch implements it.                *)
(*                                                                         *)
(*              Submit            Attempt           Complete               *)
(*      absent --------> queued ----------> working ----------> absent     *)
(*        ^                ^  ^--- Yield ------'|                          *)
(*        |                '---- Revive ---- dead <-- Bury -- (any)        *)
(*        '-------------------- Discard -----'                             *)
(***************************************************************************)
EXTENDS Naturals

CONSTANT Messages

VARIABLE life   \* message id -> its life

Lives == [phase     : {"absent", "queued", "working", "dead"},
          tries     : Nat,       \* attempts since it was last queued afresh
          budget    : Nat,       \* its max_retry
          succeeded : BOOLEAN,   \* one of those attempts succeeded
          processed : Nat,       \* archive rows per final_status
          failed    : Nat]

Life(phase, tries, budget, succeeded, processed, failed) ==
    [phase     |-> phase,
     tries     |-> tries,
     budget    |-> budget,
     succeeded |-> succeeded,
     processed |-> processed,
     failed    |-> failed]

Absent(processed, failed) == Life("absent", 0, 0, FALSE, processed, failed)

(* A life that goes on: nothing is archived.                               *)
Living(a, phase, tries, succeeded) ==
    Life(phase, tries, a.budget, succeeded, a.processed, a.failed)

Init == life = [m \in Messages |-> Absent(0, 0)]

(* Each step relates the life a of one message to its next life b.         *)

Submit(a, b) ==
    /\ a.phase = "absent"
    /\ b.budget \in Nat \ {0}
    /\ b = Life("queued", 0, b.budget, FALSE, a.processed, a.failed)

Attempt(a, b) ==
    /\ a.phase = "queued"
    /\ a.tries <= a.budget
    /\ b = Living(a, "working", a.tries + 1, a.succeeded)

Succeed(a, b) ==
    /\ a.phase = "working"
    /\ b = Living(a, "working", a.tries, TRUE)

Yield(a, b) ==
    /\ a.phase = "working"
    /\ a.tries <= a.budget
    /\ b = Living(a, "queued", a.tries, a.succeeded)

Complete(a, b) ==
    /\ a.phase = "working"
    /\ a.succeeded
    /\ b = Absent(a.processed + 1, a.failed)

Bury(a, b) ==
    /\ a.phase # "absent"
    /\ b = Living(a, "dead", a.tries, a.succeeded)

Revive(a, b) ==
    /\ a.phase = "dead"
    /\ b = Living(a, "queued", 0, FALSE)

Discard(a, b) ==
    /\ a.phase = "dead"
    /\ b = Absent(a.processed, a.failed + 1)

Step(a, b) ==
    \/ Submit(a, b)
    \/ Attempt(a, b)
    \/ Succeed(a, b)
    \/ Yield(a, b)
    \/ Complete(a, b)
    \/ Bury(a, b)
    \/ Revive(a, b)
    \/ Discard(a, b)

(* Messages live independently; a batch statement moves several at once.   *)
Next ==
    /\ life' \in [Messages -> Lives]
    /\ \A m \in Messages : life'[m] = life[m] \/ Step(life[m], life'[m])

Spec == Init /\ [][Next]_life
=============================================================================
