------------------------- MODULE EloopThreadProofs -------------------------
(***************************************************************************)
(* Proofs about EloopThread, for any threads and functors.                 *)
(*                                                                         *)
(* What the threads do to the eloop are steps of EventLoop, so all that is *)
(* proved of a loop holds of the one in an eloop_thread (LoopInThread).    *)
(*                                                                         *)
(* DtorOrder needs to know why the destructor can find loop_ null or the   *)
(* eloop dead: thread_func has not begun, or the loop has returned, and it *)
(* returns only after a quit(), from inside or by the destructor itself.   *)
(***************************************************************************)
EXTENDS EloopThread, EventLoopProofs

USE StarterAssumption, FlagAssumption

\* Somebody has a reason to expect the loop to end.
Ending == self_quit \/ starter \in {"dtor_wakeup", "dtor_join", "gone", "crashed"}

JoinInv ==
    /\ starter = "constructed" => tf = "none"
    /\ starter \in {"ready", "dtor_quit", "dtor_store"} => tf \in {"loop", "return", "done"}
    /\ tf \in {"init", "loop", "return"} => alive
    /\ tf = "none" => ~self_quit /\ pc = "constructed"
    /\ quit_ \/ pc = "exited" \/ tf \in {"return", "done"} => Ending
    /\ DtorOrder

ThreadInv == ThreadTypeOK /\ JoinInv

\* Every step of the threads is a step of the loop, or leaves it alone.
LEMMA ThreadStepIsLoopStep == [ThreadNext]_allVars => [Next]_vars
<1> SUFFICES ASSUME [ThreadNext]_allVars PROVE [Next]_vars
  OBVIOUS
<1>1. CASE start_loop \/ start_loop_wait \/ spurious_wakeup \/ dtor
  BY <1>1 DEF start_loop, start_loop_wait, spurious_wakeup, dtor
<1>2. CASE DtorStep
  BY <1>2 DEF DtorStep, dtor_quit, dtor_store, dtor_wakeup, dtor_join, Next, Call
<1>3. CASE ThreadFuncStep
  BY <1>3 DEF ThreadFuncStep, publish, RunLoop, retract, return, Next
<1>4. ASSUME NEW w \in BOOLEAN, Poll(w) PROVE [Next]_vars
  BY <1>4 DEF Poll, Next
<1>5. ASSUME NEW t \in Threads, UserCall(t) \/ EndUserCall(t) PROVE [Next]_vars
  BY <1>5 DEF UserCall, EndUserCall, Next, Call
<1>6. CASE UNCHANGED allVars
  BY <1>6 DEF allVars
<1> QED
  BY <1>1, <1>2, <1>3, <1>4, <1>5, <1>6 DEF ThreadNext

\* The initial state satisfies the invariant.
LEMMA ThreadInitInv == ThreadInit => ThreadInv
<1> SUFFICES ASSUME ThreadInit PROVE ThreadInv
  OBVIOUS
<1>1. TypeOK
  BY InitIInv DEF ThreadInit, IInv
<1>2. loop_ = (tf = "loop")
  BY Zenon DEF ThreadInit
<1> QED
  BY <1>1, <1>2 DEF ThreadInit, Init, ThreadInv, ThreadTypeOK, JoinInv, DtorOrder, Ending, StarterPC

\* Every step preserves the invariant.
LEMMA ThreadStep == ThreadInv /\ [ThreadNext]_allVars => ThreadInv'
<1> SUFFICES ASSUME ThreadInv, [ThreadNext]_allVars PROVE ThreadInv'
  OBVIOUS
<1>0. TypeOK /\ TypeOK'
  BY ThreadStepIsLoopStep, TypeStep DEF ThreadInv, ThreadTypeOK
<1> USE DEF ThreadInv, ThreadTypeOK, JoinInv, DtorOrder, Ending, StarterPC
<1>1. CASE start_loop
  BY <1>0, <1>1 DEF start_loop, thread_start, vars, loopVars
<1>2. CASE start_loop_wait
  BY <1>0, <1>2 DEF start_loop_wait, vars, loopVars
<1>3. CASE dtor
  BY <1>0, <1>3 DEF dtor, vars, loopVars
<1>4. CASE dtor_quit \/ spurious_wakeup
  BY <1>0, <1>4 DEF dtor_quit, spurious_wakeup, vars, loopVars
<1>5. CASE dtor_store \/ dtor_wakeup
  BY <1>0, <1>5 DEF dtor_store, dtor_wakeup, quit, wakeup, vars, loopVars
<1>6. CASE dtor_join
  BY <1>0, <1>6 DEF dtor_join, vars, loopVars
<1>7. CASE publish
  BY <1>0, <1>7 DEF publish, notify_one, vars, loopVars
<1>8. CASE RunLoop
  BY <1>0, <1>8 DEF RunLoop, threadVars, Run, loop, while, handle_read, swap_functors,
                    run_functor, end_functors
<1>9. CASE retract
  BY <1>0, <1>9 DEF retract, vars, loopVars
<1>10. CASE return
  BY <1>0, <1>10 DEF return, vars, loopVars
<1>11. ASSUME NEW w \in BOOLEAN, Poll(w) PROVE ThreadInv'
  BY <1>0, <1>11 DEF Poll, threadVars, poll
<1>12. ASSUME NEW t \in Threads, UserCall(t) PROVE ThreadInv'
  <2>1. UNCHANGED <<loop_, tf, alive, starter>>
    BY <1>12 DEF UserCall
  <2>2. CASE (\E f \in Functors : queue_in_loop(t, f)) /\ UNCHANGED self_quit
    BY <1>0, <2>1, <2>2 DEF queue_in_loop
  <2>3. CASE t = Owner /\ quit(t) /\ self_quit' = TRUE
    <3>1. pc' = pc /\ tf # "none"
      BY <1>12, <2>3 DEF UserCall, quit
    <3> QED
      BY <1>0, <2>1, <2>3, <3>1
  <2> QED
    BY <1>12, <2>2, <2>3 DEF UserCall
<1>13. ASSUME NEW t \in Threads, EndUserCall(t) PROVE ThreadInv'
  BY <1>0, <1>13 DEF EndUserCall, threadVars, wakeup
<1>14. CASE UNCHANGED allVars
  BY <1>0, <1>14 DEF allVars, threadVars, vars, loopVars
<1> QED
  BY <1>1, <1>2, <1>3, <1>4, <1>5, <1>6, <1>7, <1>8, <1>9, <1>10, <1>11, <1>12, <1>13, <1>14
     DEF ThreadNext, DtorStep, ThreadFuncStep

----------------------------------------------------------------------------
(* The theorems.                                                           *)

\* The eloop inside of an eloop_thread behaves as an eloop: every behaviour of
\* the composition is one of EventLoop.
THEOREM LoopInThread == ThreadSpec => Spec
<1>1. ThreadInit => Init
  BY DEF ThreadInit
<1> QED
  BY <1>1, ThreadStepIsLoopStep, PTL DEF ThreadSpec, Spec

\* The loop that ~eloop_thread quits, and that workers give functors to, never
\* blocks in poll on a quit() or a functor that nobody will wake it for.
THEOREM ThreadLoopWakes == ThreadSpec => [](QuitNotMissed /\ NoLostWakeup)
  BY LoopInThread, QuitNeverMissed, WakeupNeverLost, PTL

\* The variables keep their types, and loop_ is set exactly while thread_func is
\* between its two critical sections.
THEOREM ThreadTypeCorrect == ThreadSpec => []ThreadTypeOK
<1>1. ThreadInv => ThreadTypeOK
  BY DEF ThreadInv
<1> QED
  BY ThreadInitInv, ThreadStep, <1>1, PTL DEF ThreadSpec

\* Unless the loop was quit from inside, ~eloop_thread stores quit_ in an eloop that
\* is still there, and does not return before thread_func, which uses the object's
\* members, has returned.
THEOREM DtorJoinsThread == ThreadSpec => []DtorOrder
<1>1. ThreadInv => DtorOrder
  BY DEF ThreadInv, JoinInv
<1> QED
  BY ThreadInitInv, ThreadStep, <1>1, PTL DEF ThreadSpec

\* The functors that other threads give an eloop_thread's loop form one FIFO, and
\* each is executed once, whatever the start and the destructor of the thread
\* interleave with.
THEOREM ThreadQueueRefined == ThreadSpec => ImplementsFunctorQueue /\ []ExecutedOnce
  BY LoopInThread, QueueRefined, FunctorsExecutedOnce, PTL
=============================================================================
