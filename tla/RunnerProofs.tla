---------------------------- MODULE RunnerProofs ----------------------------
(***************************************************************************)
(* Proofs about Runner for any callers and any number of loops, under the  *)
(* assumption that nobody calls Stop before the new goroutine has run its  *)
(* first statement (Prompt is FALSE).  That no close panics, and that no   *)
(* Stop waits in vain, needs that each loop captured its own channel and   *)
(* that this channel is closed exactly when the loop has ended: RunnerInv. *)
(***************************************************************************)
EXTENDS Runner, TLAPS

LoopInv(l) ==
    /\ loop[l].pc = "none" <=> l > started
    /\ loop[l].pc = "spawned" => cancel = l
    /\ loop[l].pc \in {"check", "batch", "wait", "exit"} => loop[l].chan = l
    /\ l \in closed <=> loop[l].pc = "ended"
    /\ Alive(l) => cancel = l \/ \E c \in Callers : Stopping(c) /\ caller[c].stop = l

(* A Stop has taken a loop past its first statement, and has cancelled it  *)
(* before it waits.                                                        *)
CallInv(c) ==
    /\ Stopping(c) => loop[caller[c].stop].pc \notin {"none", "spawned"}
    /\ caller[c].pc = "wait" => loop[caller[c].stop].ctx

RunnerInv ==
    /\ done = cancel
    /\ cancel <= started
    /\ ~panicked
    /\ \A l \in Loops : LoopInv(l)
    /\ \A c \in Callers : CallInv(c)

Counters == {"none", "spawned", "check", "batch", "wait", "exit", "ended"}

(* What a step that replaces the goroutine of one loop leaves behind.      *)
LEMMA Replaced ==
    ASSUME TypeOK, NEW l \in Loops, NEW pc, NEW ctx, NEW chan,
           loop' = [loop EXCEPT ![l] = Goroutine(pc, ctx, chan)]
    PROVE  /\ loop'[l].pc = pc /\ loop'[l].chan = chan
           /\ \A k \in Loops \ {l} : loop'[k] = loop[k]
<1>1. /\ Goroutine(pc, ctx, chan).pc = pc
      /\ Goroutine(pc, ctx, chan).chan = chan
  BY DEF Goroutine
<1> QED
  BY <1>1 DEF TypeOK

(* A context that is done before such a step is done after it, when the    *)
(* step gives the loop its own context or a cancelled one.                 *)
LEMMA CtxKept ==
    ASSUME TypeOK, NEW l \in Loops, NEW pc, NEW chan, NEW ctx \in {TRUE, loop[l].ctx},
           loop' = [loop EXCEPT ![l] = Goroutine(pc, ctx, chan)]
    PROVE  (ctx \/ loop[l].ctx) => loop'[l].ctx
<1>1. loop'[l] = Goroutine(pc, ctx, chan)
  BY DEF TypeOK
<1>2. \A x : Goroutine(pc, x, chan).ctx = x
  BY DEF Goroutine
<1>3. loop'[l].ctx = ctx
  BY <1>1, <1>2, Zenon
<1> QED
  BY <1>3, Zenon

(* Such a step keeps the goroutines in their type.                         *)
LEMMA ReplacedType ==
    ASSUME TypeOK, NEW l \in Loops, NEW pc \in Counters, NEW ctx \in BOOLEAN,
           NEW chan \in {0} \cup Loops,
           loop' = [loop EXCEPT ![l] = Goroutine(pc, ctx, chan)]
    PROVE  loop' \in [Loops -> Goroutines]
<1>1. Goroutine(pc, ctx, chan) \in Goroutines
  BY Zenon DEF Goroutine, Goroutines, Counters
<1> QED
  BY <1>1 DEF TypeOK

(* The fields of a goroutine have their types.                             *)
LEMMA Fields ==
    ASSUME TypeOK, NEW l \in Loops
    PROVE  loop[l].pc \in Counters /\ loop[l].ctx \in BOOLEAN /\ loop[l].chan \in {0} \cup Loops
  BY DEF TypeOK, Goroutines, Counters

(* The steps of a loop other than its first and its last.                  *)
LEMMA LoopGoes ==
    ASSUME NEW l \in Loops, Check(l) \/ BatchReturns(l) \/ Wait(l)
    PROVE  \E from \in {"check", "batch", "wait"}, to \in {"check", "batch", "wait", "exit"} :
              Go(l, from, to)
  BY DEF Check, BatchReturns, Wait

(* Every step of the callers and of the loops keeps the types.             *)
LEMMA TypeStep ==
    ASSUME TypeOK, [Next]_vars PROVE TypeOK'
<1>1. ASSUME NEW c \in Callers, Start(c) PROVE TypeOK'
  <2>1. started + 1 \in Loops /\ started + 1 \in 0..MaxStarts
    BY <1>1, RunnerAssumption DEF Start, TypeOK, Loops
  <2>2. loop' \in [Loops -> Goroutines]
    BY <1>1, <2>1, ReplacedType DEF Start, Counters
  <2> QED
    BY <1>1, <2>1, <2>2 DEF Start, TypeOK
<1>2. ASSUME NEW c \in Callers, StopTake(c) PROVE TypeOK'
  BY <1>2 DEF StopTake, StopCalls, TypeOK
<1>3. ASSUME NEW c \in Callers, StopCancel(c) PROVE TypeOK'
  <2>1. caller[c].stop \in Loops
    BY <1>3 DEF StopCancel, StopCalls, TypeOK
  <2>2. loop' \in [Loops -> Goroutines]
    BY <1>3, <2>1, ReplacedType, Fields DEF StopCancel, Cancelled
  <2> QED
    BY <1>3, <2>1, <2>2 DEF StopCancel, StopCalls, TypeOK, Loops
<1>4. ASSUME NEW c \in Callers, StopReturn(c) PROVE TypeOK'
  BY <1>4 DEF StopReturn, StopCalls, TypeOK
<1>5. ASSUME NEW l \in Loops, ParentDone(l) PROVE TypeOK'
  <2>1. loop' \in [Loops -> Goroutines]
    BY <1>5, ReplacedType, Fields DEF ParentDone, Cancelled
  <2> QED
    BY <1>5, <2>1 DEF ParentDone, TypeOK
<1>6. ASSUME NEW l \in Loops, Enter(l) PROVE TypeOK'
  <2>1. done \in {0} \cup Loops /\ "check" \in Counters
    BY DEF TypeOK, Counters
  <2>2. loop' \in [Loops -> Goroutines]
    BY <1>6, <2>1, ReplacedType, Fields DEF Enter
  <2> QED
    BY <1>6, <2>2 DEF Enter, TypeOK
<1>7. ASSUME NEW l \in Loops, Check(l) \/ BatchReturns(l) \/ Wait(l) PROVE TypeOK'
  <2>1. PICK from \in {"check", "batch", "wait"}, to \in {"check", "batch", "wait", "exit"} :
            Go(l, from, to)
    BY <1>7, LoopGoes
  <2>2. to \in Counters
    BY DEF Counters
  <2>3. loop' \in [Loops -> Goroutines]
    BY <2>1, <2>2, ReplacedType, Fields DEF Go
  <2> QED
    BY <2>1, <2>3 DEF Go, TypeOK
<1>8. ASSUME NEW l \in Loops, Exit(l) PROVE TypeOK'
  <2>1. loop' \in [Loops -> Goroutines]
    BY <1>8, ReplacedType, Fields DEF Exit, Counters
  <2>2. panicked' \in BOOLEAN
    BY <1>8 DEF Exit, TypeOK
  <2>3. closed' \subseteq Loops
    BY <1>8, Fields DEF Exit, TypeOK
  <2> QED
    BY <1>8, <2>1, <2>2, <2>3 DEF Exit, TypeOK
<1>9. CASE UNCHANGED vars
  BY <1>9 DEF vars, TypeOK
<1> QED
  BY <1>1, <1>2, <1>3, <1>4, <1>5, <1>6, <1>7, <1>8, <1>9 DEF Next, LoopStep

(* Every state of the model is well typed: each call of Start and Stop and *)
(* each step of a loop keeps channels, goroutines and calls in their types.*)
THEOREM TypeCorrect == Spec => []TypeOK
<1>1. Init => TypeOK
  <2>1. Goroutine("none", FALSE, 0) \in Goroutines
    BY Zenon DEF Goroutine, Goroutines
  <2>2. [pc |-> "idle", stop |-> 0] \in StopCalls
    BY DEF StopCalls
  <2>3. Init => loop \in [Loops -> Goroutines]
    BY <2>1 DEF Init
  <2>4. Init => /\ caller \in [Callers -> StopCalls]
                /\ \A c \in Callers : caller[c].pc # "idle" => caller[c].stop # 0
    BY <2>2 DEF Init
  <2>5. Init => started \in 0..MaxStarts
    BY RunnerAssumption DEF Init
  <2> QED
    BY <2>3, <2>4, <2>5 DEF Init, TypeOK
<1> QED
  BY <1>1, TypeStep, PTL DEF Spec

-----------------------------------------------------------------------------

(* A Stop in progress has taken a loop.                                    *)
LEMMA Taken ==
    ASSUME TypeOK, NEW c \in Callers, Stopping(c)
    PROVE  caller[c].stop \in Loops
  BY DEF TypeOK, StopCalls, Stopping

(* A step that leaves a call of Stop alone, and under it no loop goes back *)
(* to its first statement or loses its cancellation, keeps CallInv.        *)
LEMMA CallKept ==
    ASSUME TypeOK, RunnerInv, NEW c \in Callers, caller'[c] = caller[c],
           \A l \in Loops : /\ loop[l].pc \notin {"none", "spawned"} =>
                                 loop'[l].pc \notin {"none", "spawned"}
                            /\ loop[l].ctx => loop'[l].ctx
    PROVE  CallInv(c)'
<1>1. CallInv(c)
  BY DEF RunnerInv
<1>2. CASE Stopping(c)
  BY <1>1, <1>2, Taken DEF CallInv, Stopping
<1>3. CASE ~Stopping(c)
  BY <1>3 DEF CallInv, Stopping
<1> QED
  BY <1>2, <1>3

(* A step that changes neither the Runner's fields nor the calls of Stop,  *)
(* and moves one loop between live states, keeps the invariant.            *)
LEMMA LiveStep ==
    ASSUME TypeOK, RunnerInv, NEW l \in Loops,
           loop[l].pc \in Counters \ {"none", "ended"},
           loop'[l].pc \in Counters \ {"none", "ended"},
           loop'[l].pc = "spawned" => loop[l].pc = "spawned",
           loop'[l].pc # "spawned" => loop'[l].chan = l,
           loop[l].ctx => loop'[l].ctx,
           \A k \in Loops \ {l} : loop'[k] = loop[k],
           UNCHANGED <<cancel, done, started, closed, caller, panicked>>
    PROVE  RunnerInv'
<1>1. ASSUME NEW k \in Loops PROVE LoopInv(k)'
  <2>1. LoopInv(k) /\ LoopInv(l)
    BY DEF RunnerInv
  <2>2. CASE k = l
    BY <2>1, <2>2 DEF LoopInv, Alive, Stopping, Counters
  <2>3. CASE k # l
    BY <2>1, <2>3 DEF LoopInv, Alive, Stopping
  <2> QED
    BY <2>2, <2>3
<1>2. ASSUME NEW c \in Callers PROVE CallInv(c)'
  BY CallKept DEF Counters
<1> QED
  BY <1>1, <1>2 DEF RunnerInv

(* Every step keeps the invariant when Stop never overtakes the goroutine. *)
LEMMA InvStep ==
    ASSUME Prompt = FALSE, TypeOK, TypeOK', RunnerInv, [Next]_vars
    PROVE  RunnerInv'
<1>1. ASSUME NEW c \in Callers, Start(c) PROVE RunnerInv'
  <2>1. started + 1 \in Loops /\ started \in Nat
    BY <1>1, RunnerAssumption DEF Start, TypeOK, Loops
  <2>2. /\ loop'[started + 1].pc = "spawned"
        /\ \A k \in Loops \ {started + 1} : loop'[k] = loop[k]
    BY <1>1, <2>1, Replaced DEF Start
  <2>3. ASSUME NEW k \in Loops PROVE LoopInv(k)'
    <3>1. LoopInv(k) /\ LoopInv(started + 1) /\ k \in Nat
      BY <2>1, RunnerAssumption DEF Loops, RunnerInv
    <3>2. CASE k = started + 1
      <4>1. loop[k].pc = "none" /\ k \notin closed
        BY <2>1, <3>1, <3>2 DEF LoopInv
      <4>2. loop'[k].pc = "spawned"
        BY <2>2, <3>2
      <4>3. cancel' = k /\ closed' = closed /\ started' = k
        BY <1>1, <3>2 DEF Start
      <4>4. ~(k > started')
        BY <3>1, <4>3
      <4> QED
        BY <4>1, <4>2, <4>3, <4>4 DEF LoopInv
    <3>3. CASE k # started + 1
      <4>1. k # 0 /\ loop'[k] = loop[k] /\ cancel = 0
        BY <1>1, <2>2, <3>3 DEF Loops, Start, NotRunning
      <4>2. k > started' <=> k > started
        BY <1>1, <2>1, <3>1, <3>3 DEF Start
      <4>3. UNCHANGED <<closed, caller>>
        BY <1>1 DEF Start
      <4> QED
        BY <3>1, <4>1, <4>2, <4>3 DEF LoopInv, Alive, Stopping
    <3> QED
      BY <3>2, <3>3
  <2>4. ASSUME NEW d \in Callers PROVE CallInv(d)'
    <3>1. loop[started + 1].pc = "none"
      BY <2>1 DEF RunnerInv, LoopInv
    <3>2. ASSUME NEW k \in Loops, Stopping(d), caller[d].stop = k
          PROVE  loop'[k] = loop[k]
      BY <2>2, <3>1, <3>2 DEF RunnerInv, CallInv
    <3>3. caller' = caller /\ CallInv(d)
      BY <1>1 DEF Start, RunnerInv
    <3> QED
      BY <3>2, <3>3, Taken DEF CallInv, Stopping
  <2>5. cancel' <= started'
    BY <1>1, <2>1 DEF Start
  <2> QED
    BY <1>1, <2>3, <2>4, <2>5 DEF Start, RunnerInv
<1>2. ASSUME NEW c \in Callers, StopTake(c) PROVE RunnerInv'
  <2>1. /\ caller'[c] = [pc |-> "cancel", stop |-> cancel]
        /\ \A d \in Callers \ {c} : caller'[d] = caller[d]
    BY <1>2 DEF StopTake, TypeOK
  <2>2. cancel \in Loops
    BY <1>2 DEF StopTake, TypeOK
  <2>3. loop[cancel].pc # "spawned"
    BY <1>2 DEF StopTake
  <2>4. ASSUME NEW k \in Loops PROVE LoopInv(k)'
    <3>1. LoopInv(k)
      BY DEF RunnerInv
    <3> QED
      BY <1>2, <2>1, <2>2, <2>3, <3>1 DEF StopTake, LoopInv, Alive, Stopping
  <2>5. ASSUME NEW d \in Callers PROVE CallInv(d)'
    <3>1. CASE d = c
      <4>1. loop[cancel].pc # "none"
        BY <2>2, RunnerAssumption DEF RunnerInv, LoopInv, TypeOK, Loops
      <4> QED
        BY <1>2, <2>1, <2>3, <3>1, <4>1 DEF StopTake, CallInv, Stopping
    <3>2. CASE d # c
      BY <1>2, <2>1, <3>2, CallKept DEF StopTake
    <3> QED
      BY <3>1, <3>2
  <2>6. cancel' <= started'
    BY <1>2, RunnerAssumption DEF StopTake, TypeOK
  <2> QED
    BY <1>2, <2>4, <2>5, <2>6 DEF StopTake, RunnerInv
<1>3. ASSUME NEW c \in Callers, StopCancel(c) PROVE RunnerInv'
  <2> DEFINE l == caller[c].stop
  <2>1. l \in Loops
    BY <1>3 DEF StopCancel, StopCalls, TypeOK
  <2>2. /\ loop'[l].pc = loop[l].pc /\ loop'[l].chan = loop[l].chan
        /\ \A k \in Loops \ {l} : loop'[k] = loop[k]
    BY <1>3, <2>1, Replaced DEF StopCancel, Cancelled
  <2>3. loop'[l].ctx
    BY <1>3, <2>1, CtxKept DEF StopCancel, Cancelled
  <2>4. /\ caller'[c] = [pc |-> "wait", stop |-> l]
        /\ \A d \in Callers \ {c} : caller'[d] = caller[d]
    BY <1>3 DEF StopCancel, TypeOK
  <2>5. ASSUME NEW k \in Loops PROVE LoopInv(k)'
    <3>1. LoopInv(k)
      BY DEF RunnerInv
    <3>2. loop'[k].pc = loop[k].pc /\ loop'[k].chan = loop[k].chan
      BY <2>2
    <3>3. ASSUME NEW d \in Callers, Stopping(d)
          PROVE  Stopping(d)' /\ caller'[d].stop = caller[d].stop
      BY <2>4, <3>3 DEF Stopping
    <3> QED
      BY <1>3, <3>1, <3>2, <3>3 DEF StopCancel, LoopInv, Alive
  <2>6. ASSUME NEW d \in Callers PROVE CallInv(d)'
    <3>1. CASE d = c
      <4>1. loop[l].pc \notin {"none", "spawned"}
        BY <1>3 DEF StopCancel, RunnerInv, CallInv, Stopping
      <4> QED
        BY <2>2, <2>3, <2>4, <3>1, <4>1 DEF CallInv
    <3>2. CASE d # c
      <4>1. \A k \in Loops : /\ loop'[k].pc = loop[k].pc
                             /\ loop[k].ctx => loop'[k].ctx
        BY <2>2, <2>3
      <4> QED
        BY <2>4, <3>2, <4>1, CallKept
    <3> QED
      BY <3>1, <3>2
  <2> QED
    BY <1>3, <2>5, <2>6 DEF StopCancel, RunnerInv
<1>4. ASSUME NEW c \in Callers, StopReturn(c) PROVE RunnerInv'
  <2>1. \A d \in Callers \ {c} : caller'[d] = caller[d]
    BY <1>4 DEF StopReturn, TypeOK
  <2>2. ASSUME NEW k \in Loops PROVE LoopInv(k)'
    <3>1. LoopInv(k)
      BY DEF RunnerInv
    <3> QED
      BY <1>4, <2>1, <3>1 DEF StopReturn, LoopInv, Alive, Stopping
  <2>3. ASSUME NEW d \in Callers PROVE CallInv(d)'
    <3>1. CASE d = c
      BY <1>4, <3>1 DEF StopReturn, CallInv, Stopping, TypeOK
    <3>2. CASE d # c
      BY <1>4, <2>1, <3>2, CallKept DEF StopReturn
    <3> QED
      BY <3>1, <3>2
  <2> QED
    BY <1>4, <2>2, <2>3 DEF StopReturn, RunnerInv
<1>5. ASSUME NEW l \in Loops, ParentDone(l) PROVE RunnerInv'
  <2>1. /\ loop'[l].pc = loop[l].pc /\ loop'[l].chan = loop[l].chan
        /\ \A k \in Loops \ {l} : loop'[k] = loop[k]
    BY <1>5, Replaced DEF ParentDone, Cancelled
  <2>2. LoopInv(l)
    BY DEF RunnerInv
  <2>3. loop[l].ctx => loop'[l].ctx
    BY <1>5 DEF ParentDone
  <2> QED
    BY <1>5, <2>1, <2>2, <2>3, Fields, LiveStep DEF ParentDone, Alive, LoopInv, Counters
<1>6. ASSUME NEW l \in Loops, Enter(l) PROVE RunnerInv'
  <2>1. loop[l].ctx => loop'[l].ctx
    BY <1>6, CtxKept DEF Enter
  <2>2. /\ loop'[l].pc = "check" /\ loop'[l].chan = done
        /\ \A k \in Loops \ {l} : loop'[k] = loop[k]
    BY <1>6, Replaced DEF Enter
  <2>3. done = l
    BY <1>6 DEF Enter, LoopInv, RunnerInv
  <2> QED
    BY <1>6, <2>1, <2>2, <2>3, LiveStep DEF Enter, Counters
<1>7. ASSUME NEW l \in Loops, Check(l) \/ BatchReturns(l) \/ Wait(l) PROVE RunnerInv'
  <2>1. PICK from \in {"check", "batch", "wait"}, to \in {"check", "batch", "wait", "exit"} :
            Go(l, from, to)
    BY <1>7, LoopGoes
  <2>2. to \in Counters
    BY DEF Counters
  <2>3. /\ loop'[l].pc = to /\ loop'[l].chan = loop[l].chan
        /\ \A k \in Loops \ {l} : loop'[k] = loop[k]
    BY <2>1, Replaced DEF Go
  <2>4. loop[l].ctx => loop'[l].ctx
    BY <2>1, CtxKept DEF Go
  <2>5. loop[l].chan = l
    BY <2>1 DEF Go, LoopInv, RunnerInv
  <2> QED
    BY <2>1, <2>2, <2>3, <2>4, <2>5, LiveStep DEF Go, Counters
<1>8. ASSUME NEW l \in Loops, Exit(l) PROVE RunnerInv'
  <2>1. loop[l].chan = l /\ l \notin closed /\ l # 0
    BY <1>8 DEF Exit, LoopInv, Loops, RunnerInv
  <2>2. ~panicked' /\ closed' = closed \cup {l}
    BY <1>8, <2>1 DEF Exit
  <2>3. /\ loop'[l].pc = "ended"
        /\ \A k \in Loops \ {l} : loop'[k] = loop[k]
    BY <1>8, Replaced DEF Exit
  <2>4. ASSUME NEW k \in Loops PROVE LoopInv(k)'
    <3>1. LoopInv(k)
      BY DEF RunnerInv
    <3> QED
      BY <1>8, <2>2, <2>3, <3>1 DEF Exit, LoopInv, Alive, Stopping
  <2>5. loop[l].ctx => loop'[l].ctx
    BY <1>8, CtxKept DEF Exit
  <2>6. ASSUME NEW d \in Callers PROVE CallInv(d)'
    <3>1. caller'[d] = caller[d]
      BY <1>8 DEF Exit
    <3> QED
      BY <2>3, <2>5, <3>1, CallKept
  <2> QED
    BY <1>8, <2>2, <2>4, <2>6 DEF Exit, RunnerInv
<1>9. CASE UNCHANGED vars
  BY <1>9 DEF vars, LoopInv, CallInv, Alive, Stopping, RunnerInv
<1> QED
  BY <1>1, <1>2, <1>3, <1>4, <1>5, <1>6, <1>7, <1>8, <1>9 DEF Next, LoopStep

(* RunnerInv holds in every state, provided that no Stop comes before the  *)
(* loop's first statement.                                                 *)
THEOREM RunnerInvariant ==
    ASSUME Prompt = FALSE
    PROVE  Spec => [](TypeOK /\ RunnerInv)
<1>1. Init => RunnerInv
  <2> SUFFICES ASSUME Init PROVE RunnerInv
    OBVIOUS
  <2>1. ASSUME NEW k \in Loops PROVE LoopInv(k)
    <3>1. loop[k].pc = "none" /\ k > 0
      BY DEF Init, Goroutine, Loops
    <3> QED
      BY <3>1 DEF Init, LoopInv, Alive
  <2>2. ASSUME NEW c \in Callers PROVE CallInv(c)
    BY DEF Init, CallInv, Stopping
  <2> QED
    BY <2>1, <2>2 DEF Init, RunnerInv
<1>2. TypeOK /\ TypeOK' /\ RunnerInv /\ [Next]_vars => RunnerInv'
  BY InvStep
<1> QED
  BY <1>1, <1>2, TypeCorrect, PTL DEF Spec

(* The Runner never loses track of a loop: however Start and Stop of any   *)
(* number of goroutines interleave with the loops, every live loop is the  *)
(* current one or one that a Stop waits for.                               *)
THEOREM LoopsSafe ==
    ASSUME Prompt = FALSE
    PROVE  Spec => []LoopsAccountedFor
<1>1. RunnerInv => LoopsAccountedFor
  BY DEF RunnerInv, LoopInv, LoopsAccountedFor
<1> QED
  BY <1>1, RunnerInvariant, PTL

(* The deferred close finds its own channel, and finds it open, in every   *)
(* interleaving of Start, Stop and the loops in which Stop comes after the *)
(* first step of the loop (so that the channel is never nil).              *)
THEOREM CloseNeverPanics ==
    ASSUME Prompt = FALSE
    PROVE  Spec => []NeverPanics
<1>1. RunnerInv => NeverPanics
  BY DEF RunnerInv, NeverPanics
<1> QED
  BY <1>1, RunnerInvariant, PTL

(* Stop cannot deadlock: once it has cancelled the loop, its channel is    *)
(* closed or the cancelled goroutine that will close it is still there.    *)
(* With the fairness of StopReturns, which TLC checks, Stop returns.       *)
THEOREM StopIsAnswered ==
    ASSUME Prompt = FALSE
    PROVE  Spec => []NoStopStranded
<1>1. TypeOK /\ RunnerInv => NoStopStranded
  <2> SUFFICES ASSUME TypeOK, RunnerInv, NEW c \in Callers, caller[c].pc = "wait",
                      caller[c].stop \notin closed
               PROVE  LET l == caller[c].stop
                      IN  Alive(l) /\ loop[l].ctx /\ loop[l].chan = l
    BY DEF NoStopStranded
  <2> DEFINE l == caller[c].stop
  <2>1. l \in Loops
    BY Taken DEF Stopping
  <2>2. loop[l].pc \notin {"none", "spawned", "ended"} /\ loop[l].ctx
    BY <2>1 DEF RunnerInv, LoopInv, CallInv, Stopping
  <2>3. loop[l].chan = l
    BY <2>1, <2>2, Fields DEF RunnerInv, LoopInv, Counters
  <2> QED
    BY <2>2, <2>3 DEF Alive
<1> QED
  BY <1>1, RunnerInvariant, PTL
=============================================================================
