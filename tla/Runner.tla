------------------------------- MODULE Runner -------------------------------
(***************************************************************************)
(* The opt-in polling loop: Runner.Start, Runner.Stop and the goroutine    *)
(* running Runner.loop.  Loops and done channels are numbered by the Start *)
(* that makes them; 0 is nil.                                              *)
(*                                                                         *)
(* The new goroutine evaluates `defer close(r.done)` when it is first      *)
(* scheduled and without the mutex, so it captures whatever r.done then    *)
(* is.  Prompt says whether a caller may call Stop before that moment.     *)
(*                                                                         *)
(* StartAgain, StopUnchecked, NoWait and ExitOpen are faulty variants of   *)
(* the definition that follows each.                                       *)
(***************************************************************************)
EXTENDS Integers

CONSTANTS Callers,     \* goroutines that use the Runner
          Prompt,      \* TRUE: Stop may come before the loop's first step
          MaxStarts    \* bound: loops ever launched

ASSUME RunnerAssumption ==
    /\ Prompt \in BOOLEAN
    /\ MaxStarts \in Nat

VARIABLES cancel,    \* r.cancel: the loop whose context it cancels, or 0
          done,      \* r.done
          started,   \* loops launched so far
          loop,      \* loop -> its goroutine
          closed,    \* channels that are closed
          caller,    \* caller -> where it is in Stop
          panicked   \* a goroutine panicked: the process is gone

vars == <<cancel, done, started, loop, closed, caller, panicked>>

Loops == 1..MaxStarts

Goroutines == [pc   : {"none", "spawned", "check", "batch", "wait", "exit", "ended"},
               ctx  : BOOLEAN,            \* its context is done
               chan : {0} \cup Loops]     \* the channel its defer closes

Goroutine(pc, ctx, chan) == [pc |-> pc, ctx |-> ctx, chan |-> chan]

(* stop: the loop and the channel that Stop has taken from the Runner.     *)
StopCalls == [pc : {"idle", "cancel", "wait"}, stop : {0} \cup Loops]

TypeOK ==
    /\ cancel \in {0} \cup Loops
    /\ done \in {0} \cup Loops
    /\ started \in 0..MaxStarts
    /\ loop \in [Loops -> Goroutines]
    /\ closed \subseteq Loops
    /\ caller \in [Callers -> StopCalls]
    /\ \A c \in Callers : caller[c].pc # "idle" => caller[c].stop # 0
    /\ panicked \in BOOLEAN

Init ==
    /\ cancel = 0
    /\ done = 0
    /\ started = 0
    /\ loop = [l \in Loops |-> Goroutine("none", FALSE, 0)]
    /\ closed = {}
    /\ caller = [c \in Callers |-> [pc |-> "idle", stop |-> 0]]
    /\ panicked = FALSE

Alive(l) == loop[l].pc \notin {"none", "ended"}

Stopping(c) == caller[c].pc # "idle"

-----------------------------------------------------------------------------
(* Callers.                                                                *)

StartAgain == TRUE

NotRunning == cancel = 0

Start(c) ==
    /\ ~panicked
    /\ ~Stopping(c)
    /\ NotRunning
    /\ started < MaxStarts
    /\ started' = started + 1
    /\ cancel' = started + 1
    /\ done' = started + 1
    /\ loop' = [loop EXCEPT ![started + 1] = Goroutine("spawned", FALSE, 0)]
    /\ UNCHANGED <<closed, caller, panicked>>

StopUnchecked(c) ==
    /\ ~panicked
    /\ ~Stopping(c)
    /\ caller' = [caller EXCEPT ![c] = [pc |-> "cancel", stop |-> cancel]]
    /\ cancel' = 0
    /\ done' = 0
    /\ UNCHANGED <<started, loop, closed, panicked>>

(* The locked part of Stop; with a nil cancel it returns at once.          *)
StopTake(c) ==
    /\ ~panicked
    /\ ~Stopping(c)
    /\ cancel # 0
    /\ Prompt \/ loop[cancel].pc # "spawned"
    /\ caller' = [caller EXCEPT ![c] = [pc |-> "cancel", stop |-> cancel]]
    /\ cancel' = 0
    /\ done' = 0
    /\ UNCHANGED <<started, loop, closed, panicked>>

Cancelled(l) ==
    loop' = [loop EXCEPT ![l] = Goroutine(loop[l].pc, TRUE, loop[l].chan)]

NoWait(c) ==
    /\ ~panicked
    /\ caller[c].pc = "cancel"
    /\ Cancelled(caller[c].stop)
    /\ caller' = [caller EXCEPT ![c] = [pc |-> "idle", stop |-> 0]]
    /\ UNCHANGED <<cancel, done, started, closed, panicked>>

StopCancel(c) ==
    /\ ~panicked
    /\ caller[c].pc = "cancel"
    /\ Cancelled(caller[c].stop)
    /\ caller' = [caller EXCEPT ![c] = [pc |-> "wait", stop |-> caller[c].stop]]
    /\ UNCHANGED <<cancel, done, started, closed, panicked>>

StopReturn(c) ==
    /\ ~panicked
    /\ caller[c].pc = "wait"
    /\ caller[c].stop \in closed
    /\ caller' = [caller EXCEPT ![c] = [pc |-> "idle", stop |-> 0]]
    /\ UNCHANGED <<cancel, done, started, loop, closed, panicked>>

(* The context that was given to Start is done.                            *)
ParentDone(l) ==
    /\ ~panicked
    /\ Alive(l)
    /\ ~loop[l].ctx
    /\ Cancelled(l)
    /\ UNCHANGED <<cancel, done, started, closed, caller, panicked>>

-----------------------------------------------------------------------------
(* The loop.                                                               *)

Go(l, from, to) ==
    /\ ~panicked
    /\ loop[l].pc = from
    /\ loop' = [loop EXCEPT ![l] = Goroutine(to, loop[l].ctx, loop[l].chan)]
    /\ UNCHANGED <<cancel, done, started, closed, caller, panicked>>

(* defer close(r.done): the argument is evaluated here.                    *)
Enter(l) ==
    /\ ~panicked
    /\ loop[l].pc = "spawned"
    /\ loop' = [loop EXCEPT ![l] = Goroutine("check", loop[l].ctx, done)]
    /\ UNCHANGED <<cancel, done, started, closed, caller, panicked>>

Check(l) ==
    \/ loop[l].ctx /\ Go(l, "check", "exit")
    \/ ~loop[l].ctx /\ Go(l, "check", "batch")

(* ProcessBatch returns.  After a non-empty batch PollInterval may be 0.   *)
BatchReturns(l) == Go(l, "batch", "check") \/ Go(l, "batch", "wait")

Wait(l) ==
    \/ loop[l].ctx /\ Go(l, "wait", "exit")
    \/ Go(l, "wait", "check")

ExitOpen(l) == Go(l, "exit", "ended")

(* The deferred close: nil and closed channels panic.                      *)
Exit(l) ==
    /\ ~panicked
    /\ loop[l].pc = "exit"
    /\ IF loop[l].chan = 0 \/ loop[l].chan \in closed
       THEN /\ panicked' = TRUE
            /\ UNCHANGED closed
       ELSE /\ closed' = closed \cup {loop[l].chan}
            /\ UNCHANGED panicked
    /\ loop' = [loop EXCEPT ![l] = Goroutine("ended", loop[l].ctx, loop[l].chan)]
    /\ UNCHANGED <<cancel, done, started, caller>>

LoopStep(l) == Enter(l) \/ Check(l) \/ BatchReturns(l) \/ Wait(l) \/ Exit(l)

Next ==
    \/ \E c \in Callers : Start(c) \/ StopTake(c) \/ StopCancel(c) \/ StopReturn(c)
    \/ \E l \in Loops : ParentDone(l) \/ LoopStep(l)

Spec == Init /\ [][Next]_vars

(* Goroutines are scheduled and ProcessBatch returns, that is, handlers    *)
(* do; nobody has to call Start or Stop.  Waking by the timer for ever is  *)
(* harmless: a done context is seen at the top of the loop.                *)
Fairness ==
    /\ \A l \in Loops : WF_vars(LoopStep(l))
    /\ \A c \in Callers : WF_vars(StopCancel(c)) /\ WF_vars(StopReturn(c))

FairSpec == Spec /\ Fairness

-----------------------------------------------------------------------------
(* Properties.                                                             *)

(* No loop is ever forgotten: every goroutine of the Runner is the current *)
(* one or one that a Stop in progress is waiting for.  So when every Stop  *)
(* has returned at most one loop is left, and none unless it was started   *)
(* again; and a Runner used by one goroutine, which cannot call Start      *)
(* while it is in Stop, never runs two batches at once, as ProcessBatch    *)
(* assumes of a worker.                                                    *)
LoopsAccountedFor ==
    \A l \in Loops : Alive(l) =>
        cancel = l \/ \E c \in Callers : Stopping(c) /\ caller[c].stop = l

(* The deferred close of loop never closes a channel twice, because no     *)
(* calls of Start and Stop make two loops share one done.  It is stated    *)
(* for Prompt = FALSE.  With Prompt the loop may read r.done after Stop    *)
(* set it to nil, and closing nil panics too: a Stop then never returns,   *)
(* which is what StopReturns finds.                                        *)
NeverPanics == ~panicked

(* A Stop past its cancel never waits on a channel that nobody will close: *)
(* either <-done is ready, or the goroutine that owns this very channel is *)
(* still there and its context is done.                                    *)
NoStopStranded ==
    \A c \in Callers : caller[c].pc = "wait" =>
        LET l == caller[c].stop
        IN  l \in closed \/ (Alive(l) /\ loop[l].ctx /\ loop[l].chan = l)

(* Stop cancels the loop, waits for the batch in flight and returns.       *)
StopReturns == \A c \in Callers : Stopping(c) ~> ~Stopping(c)
=============================================================================
