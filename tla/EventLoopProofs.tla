-------------------------- MODULE EventLoopProofs --------------------------
(***************************************************************************)
(* Proofs about EventLoop, for any number of threads and functors.         *)
(*                                                                         *)
(* NoLostWakeup is not inductive: what happens in poll is decided before   *)
(* the owner gets there.  WakeupInv says the same of every place but       *)
(* "handle", where the owner may consume the eventfd because the swap that *)
(* must follow takes the whole queue.                                      *)
(***************************************************************************)
EXTENDS EventLoop, SequenceTheorems, TLAPS

\* Some queued functor is owed a wakeup.
Owed == ~(Elements(pending_functors_) \subseteq InitFunctors)

WakeupInv == pc # "handle" /\ Owed => WakeupComing

IInv == TypeOK /\ WakeupInv /\ QuitNotMissed

USE OwnerAssumption, InitAssumption

\* What Append does to a sequence's elements.
LEMMA AppendElements ==
    ASSUME NEW S, NEW s \in Seq(S), NEW e \in S
    PROVE  /\ Append(s, e) \in Seq(S)
           /\ Elements(Append(s, e)) = Elements(s) \cup {e}
<1>1. Append(s, e) \in Seq(S)
  OBVIOUS
<1>2. /\ DOMAIN Append(s, e) = 1 .. Len(s) + 1
      /\ DOMAIN s = 1 .. Len(s)
      /\ Len(s) \in Nat
      /\ \A i \in 1 .. Len(s) : Append(s, e)[i] = s[i]
      /\ Append(s, e)[Len(s) + 1] = e
  OBVIOUS
<1>3. 1 .. Len(s) + 1 = (1 .. Len(s)) \cup {Len(s) + 1}
  BY <1>2
<1> QED
  BY <1>1, <1>2, <1>3 DEF Elements

\* The empty queue owes nothing.
LEMMA EmptyElements == Elements(<<>>) = {}
  BY DEF Elements

\* The initial state satisfies the inductive invariant.
LEMMA InitIInv == Init => IInv
<1> SUFFICES ASSUME Init PROVE IInv
  OBVIOUS
<1>1. TypeOK
  <2>1. <<>> \in Seq(Functors)
    OBVIOUS
  <2>2. calling_pending_functors_ <=> pc \in {"swapped", "functor"}
    BY Zenon DEF Init
  <2> QED
    BY <2>1, <2>2 DEF Init, TypeOK, PC
<1>2. WakeupInv
  BY EmptyElements DEF Init, WakeupInv, Owed
<1>3. QuitNotMissed
  BY DEF Init, QuitNotMissed
<1> QED
  BY <1>1, <1>2, <1>3 DEF IInv

\* Every step preserves the type invariant.
LEMMA TypeStep == TypeOK /\ [Next]_vars => TypeOK'
<1> SUFFICES ASSUME TypeOK, [Next]_vars PROVE TypeOK'
  OBVIOUS
<1> USE DEF TypeOK, PC
<1>1. ASSUME NEW t \in Threads, quit(t) PROVE TypeOK'
  BY <1>1 DEF quit
<1>2. ASSUME NEW t \in Threads, wakeup(t) PROVE TypeOK'
  BY <1>2 DEF wakeup
<1>3. ASSUME NEW t \in Threads, NEW f \in Functors, queue_in_loop(t, f) PROVE TypeOK'
  BY <1>3 DEF queue_in_loop
<1>4. CASE loop
  BY <1>4 DEF loop
<1>5. CASE while
  BY <1>5 DEF while
<1>6. CASE handle_read
  BY <1>6 DEF handle_read
<1>7. CASE swap_functors
  BY <1>7 DEF swap_functors
<1>8. CASE run_functor
  BY <1>8, HeadTailProperties DEF run_functor
<1>9. CASE end_functors
  BY <1>9 DEF end_functors
<1>10. ASSUME NEW w \in BOOLEAN, poll(w) PROVE TypeOK'
  BY <1>10 DEF poll
<1>11. CASE UNCHANGED vars
  BY <1>11 DEF vars, loopVars
<1> QED
  BY <1>1, <1>2, <1>3, <1>4, <1>5, <1>6, <1>7, <1>8, <1>9, <1>10, <1>11 DEF Next, Call, Run

\* Every step preserves WakeupInv.
LEMMA WakeupStep == TypeOK /\ WakeupInv /\ [Next]_vars => WakeupInv'
<1> SUFFICES ASSUME TypeOK, WakeupInv, [Next]_vars PROVE WakeupInv'
  OBVIOUS
<1> USE DEF WakeupInv, WakeupComing, Owed
<1>1. ASSUME NEW t \in Threads, quit(t) PROVE WakeupInv'
  <2>1. \A u \in Threads : caller[u] = "wakeup" => u # t
    BY <1>1 DEF quit, CanCall
  <2> QED
    BY <1>1, <2>1 DEF quit, TypeOK
<1>2. ASSUME NEW t \in Threads, wakeup(t) PROVE WakeupInv'
  BY <1>2 DEF wakeup
<1>3. ASSUME NEW t \in Threads, NEW f \in Functors, queue_in_loop(t, f) PROVE WakeupInv'
  <2>1. CASE NeedsWakeup(t)
    BY <1>3, <2>1 DEF queue_in_loop, TypeOK
  <2>2. CASE ~NeedsWakeup(t)
    <3>1. t = Owner /\ pc \in {"constructed", "handle"}
      BY <1>3, <2>2 DEF NeedsWakeup, queue_in_loop, CanCall, is_in_loop_thread, TypeOK
    <3>2. CASE pc = "handle"
      BY <1>3, <3>2 DEF queue_in_loop
    <3>3. CASE pc = "constructed"
      <4>1. f \in InitFunctors
        BY <1>3, <3>1, <3>3 DEF queue_in_loop, is_in_loop_thread
      <4>2. Owed' => Owed
        BY <1>3, <4>1, AppendElements DEF queue_in_loop, TypeOK
      <4>3. \A u \in Threads : caller[u] = "wakeup" => u # t
        BY <1>3 DEF queue_in_loop, CanCall
      <4> QED
        BY <1>3, <3>3, <4>2, <4>3 DEF queue_in_loop, TypeOK
    <3> QED
      BY <3>1, <3>2, <3>3
  <2> QED
    BY <2>1, <2>2
<1>4. CASE loop
  BY <1>4 DEF loop
<1>5. CASE while
  BY <1>5 DEF while
<1>6. CASE handle_read
  BY <1>6 DEF handle_read
<1>7. CASE swap_functors
  <2>1. pending_functors_' = <<>>
    BY <1>7 DEF swap_functors, TypeOK
  <2> QED
    BY <2>1, EmptyElements
<1>8. CASE run_functor
  BY <1>8 DEF run_functor
<1>9. CASE end_functors
  BY <1>9 DEF end_functors
<1>10. ASSUME NEW w \in BOOLEAN, poll(w) PROVE WakeupInv'
  BY <1>10 DEF poll
<1>11. CASE UNCHANGED vars
  BY <1>11 DEF vars, loopVars
<1> QED
  BY <1>1, <1>2, <1>3, <1>4, <1>5, <1>6, <1>7, <1>8, <1>9, <1>10, <1>11 DEF Next, Call, Run

\* Every step preserves QuitNotMissed.
LEMMA QuitStep == TypeOK /\ QuitNotMissed /\ [Next]_vars => QuitNotMissed'
<1> SUFFICES ASSUME TypeOK, QuitNotMissed, [Next]_vars PROVE QuitNotMissed'
  OBVIOUS
<1> USE DEF QuitNotMissed, WakeupComing
<1>1. ASSUME NEW t \in Threads, quit(t) PROVE QuitNotMissed'
  BY <1>1 DEF quit, CanCall, TypeOK, is_in_loop_thread
<1>2. ASSUME NEW t \in Threads, wakeup(t) PROVE QuitNotMissed'
  BY <1>2 DEF wakeup
<1>3. ASSUME NEW t \in Threads, NEW f \in Functors, queue_in_loop(t, f) PROVE QuitNotMissed'
  <2>1. \A u \in Threads : caller[u] = "wakeup" => u # t
    BY <1>3 DEF queue_in_loop, CanCall
  <2> QED
    BY <1>3, <2>1 DEF queue_in_loop, TypeOK
<1>4. CASE loop
  BY <1>4 DEF loop
<1>5. CASE while
  BY <1>5 DEF while
<1>6. CASE handle_read
  BY <1>6 DEF handle_read
<1>7. CASE swap_functors
  BY <1>7 DEF swap_functors
<1>8. CASE run_functor
  BY <1>8 DEF run_functor
<1>9. CASE end_functors
  BY <1>9 DEF end_functors
<1>10. ASSUME NEW w \in BOOLEAN, poll(w) PROVE QuitNotMissed'
  BY <1>10 DEF poll
<1>11. CASE UNCHANGED vars
  BY <1>11 DEF vars, loopVars
<1> QED
  BY <1>1, <1>2, <1>3, <1>4, <1>5, <1>6, <1>7, <1>8, <1>9, <1>10, <1>11 DEF Next, Call, Run

\* The inductive invariant holds in every reachable state.
THEOREM InductiveInvariant == Spec => []IInv
<1>1. IInv /\ [Next]_vars => IInv'
  BY TypeStep, WakeupStep, QuitStep DEF IInv
<1> QED
  BY InitIInv, <1>1, PTL DEF Spec

\* The variables keep their types, and calling_pending_functors_ is up exactly
\* while do_pending_functors runs.
THEOREM TypeCorrect == Spec => []TypeOK
<1>1. IInv => TypeOK
  BY DEF IInv
<1> QED
  BY InductiveInvariant, <1>1, PTL

\* The owner of an eloop is never blocked in poll on a functor that nobody
\* will wake it for.
THEOREM WakeupNeverLost == Spec => []NoLostWakeup
<1>1. IInv => NoLostWakeup
  BY DEF IInv, WakeupInv, Owed, NoLostWakeup
<1> QED
  BY InductiveInvariant, <1>1, PTL

\* Appending to the second of two concatenated sequences.
LEMMA ConcatAppend ==
    ASSUME NEW S, NEW s \in Seq(S), NEW r \in Seq(S), NEW e \in S
    PROVE  s \o Append(r, e) = Append(s \o r, e)
  OBVIOUS

\* Taking the head of the first of two concatenated sequences.
LEMMA ConcatHeadTail ==
    ASSUME NEW S, NEW s \in Seq(S), NEW r \in Seq(S), s # <<>>
    PROVE  /\ s \o r # <<>>
           /\ Head(s \o r) = Head(s)
           /\ Tail(s \o r) = Tail(s) \o r
  OBVIOUS

\* Batching and swapping implement the abstract queue: seen from outside,
\* the functors of one eloop form a single FIFO.
THEOREM QueueRefined == Spec => ImplementsFunctorQueue
<1> DEFINE q == functors \o pending_functors_
<1>1. Init => Queue!Init
  BY DEF Init, Queue!Init
<1>2. TypeOK /\ [Next]_vars => [Queue!Next]_<<functors \o pending_functors_, executed>>
  <2> SUFFICES ASSUME TypeOK, [Next]_vars
               PROVE  Queue!Next \/ UNCHANGED <<q, executed>>
    OBVIOUS
  <2>1. ASSUME NEW t \in Threads, quit(t) PROVE UNCHANGED <<q, executed>>
    BY <2>1 DEF quit
  <2>2. ASSUME NEW t \in Threads, wakeup(t) PROVE UNCHANGED <<q, executed>>
    BY <2>2 DEF wakeup
  <2>3. ASSUME NEW t \in Threads, NEW f \in Functors, queue_in_loop(t, f)
        PROVE  Queue!Submit(f)
    <3>1. q' = Append(q, f)
      BY <2>3, ConcatAppend DEF queue_in_loop, TypeOK
    <3> QED
      BY <2>3, <3>1 DEF queue_in_loop, Queue!Submit
  <2>4. CASE loop
    BY <2>4 DEF loop
  <2>5. CASE while
    BY <2>5 DEF while
  <2>6. CASE handle_read
    BY <2>6 DEF handle_read
  <2>7. CASE swap_functors
    <3>1. functors = <<>>
      BY <2>7 DEF swap_functors, TypeOK
    <3>2. q = pending_functors_ /\ q' = pending_functors_
      BY <2>7, <3>1 DEF swap_functors, TypeOK
    <3> QED
      BY <2>7, <3>2 DEF swap_functors
  <2>8. CASE run_functor
    <3>1. q # <<>> /\ Head(q) = Head(functors) /\ Tail(q) = Tail(functors) \o pending_functors_
      BY <2>8, ConcatHeadTail DEF run_functor, TypeOK
    <3> QED
      BY <2>8, <3>1 DEF run_functor, Queue!Next, Queue!Execute
  <2>9. CASE end_functors
    BY <2>9 DEF end_functors
  <2>10. ASSUME NEW w \in BOOLEAN, poll(w) PROVE UNCHANGED <<q, executed>>
    BY <2>10 DEF poll
  <2>11. CASE UNCHANGED vars
    BY <2>11 DEF vars, loopVars
  <2> QED
    BY <2>1, <2>2, <2>3, <2>4, <2>5, <2>6, <2>7, <2>8, <2>9, <2>10, <2>11
       DEF Next, Call, Run, Queue!Next
<1> QED
  BY TypeCorrect, <1>1, <1>2, PTL DEF Spec, ImplementsFunctorQueue, Queue!Spec

\* The owner of an eloop is never blocked in poll after a quit().
THEOREM QuitNeverMissed == Spec => []QuitNotMissed
<1>1. IInv => QuitNotMissed
  BY DEF IInv
<1> QED
  BY InductiveInvariant, <1>1, PTL

----------------------------------------------------------------------------
(* Each functor once.                                                      *)

\* The functors of one eloop in the order of the calls: the executed ones, what is
\* left of the batch, the queue.
HandedOver == executed \o (functors \o pending_functors_)

\* Each functor that was handed over is at one place of them, and is there until
\* it is executed; nothing else is.
HeldOnce ==
    /\ \A i, j \in 1 .. Len(HandedOver) : HandedOver[i] = HandedOver[j] => i = j
    /\ Elements(HandedOver) = issued

\* No functor is executed twice, or executed and still waiting.
ExecutedOnce ==
    /\ \A i, j \in 1 .. Len(executed) : executed[i] = executed[j] => i = j
    /\ Elements(executed) \cap (Elements(functors) \cup Elements(pending_functors_)) = {}
    /\ issued = Elements(executed) \cup Elements(functors) \cup Elements(pending_functors_)

\* A new element at the end of a sequence without repetitions makes none.
LEMMA AppendOnce ==
    ASSUME NEW S, NEW s \in Seq(S), NEW e \in S, e \notin Elements(s),
           \A i, j \in 1 .. Len(s) : s[i] = s[j] => i = j
    PROVE  \A i, j \in 1 .. Len(Append(s, e)) : Append(s, e)[i] = Append(s, e)[j] => i = j
<1>1. /\ Len(s) \in Nat /\ DOMAIN s = 1 .. Len(s)
      /\ Len(Append(s, e)) = Len(s) + 1
      /\ \A i \in 1 .. Len(s) : Append(s, e)[i] = s[i]
      /\ Append(s, e)[Len(s) + 1] = e
  OBVIOUS
<1>2. \A i \in 1 .. Len(Append(s, e)) : i \in 1 .. Len(s) \/ i = Len(s) + 1
  BY <1>1
<1>3. \A i \in 1 .. Len(s) : s[i] # e
  BY <1>1 DEF Elements
<1> QED
  BY <1>1, <1>2, <1>3

\* The elements of two concatenated sequences.
LEMMA ConcatElements ==
    ASSUME NEW S, NEW s \in Seq(S), NEW r \in Seq(S)
    PROVE  /\ s \o r \in Seq(S)
           /\ Len(s) \in Nat /\ Len(r) \in Nat /\ Len(s \o r) = Len(s) + Len(r)
           /\ \A i \in 1 .. Len(s) : (s \o r)[i] = s[i]
           /\ \A i \in 1 .. Len(r) : (s \o r)[Len(s) + i] = r[i]
           /\ Elements(s \o r) = Elements(s) \cup Elements(r)
<1>1. /\ s \o r \in Seq(S)
      /\ Len(s) \in Nat /\ Len(r) \in Nat /\ Len(s \o r) = Len(s) + Len(r)
      /\ DOMAIN s = 1 .. Len(s) /\ DOMAIN r = 1 .. Len(r)
      /\ DOMAIN (s \o r) = 1 .. Len(s) + Len(r)
  OBVIOUS
<1>2. \A i \in 1 .. Len(s) : (s \o r)[i] = s[i] /\ i \in 1 .. Len(s) + Len(r)
  BY <1>1
<1>3. \A i \in 1 .. Len(r) : (s \o r)[Len(s) + i] = r[i] /\ Len(s) + i \in 1 .. Len(s) + Len(r)
  BY <1>1
<1>4. \A i \in 1 .. Len(s) + Len(r) :
         i \in 1 .. Len(s) \/ (i - Len(s) \in 1 .. Len(r) /\ i = Len(s) + (i - Len(s)))
  BY <1>1
<1>5. Elements(s \o r) \subseteq Elements(s) \cup Elements(r)
  <2> SUFFICES ASSUME NEW i \in 1 .. Len(s) + Len(r)
               PROVE  (s \o r)[i] \in Elements(s) \cup Elements(r)
    BY <1>1 DEF Elements
  <2>1. CASE i \in 1 .. Len(s)
    BY <1>1, <1>2, <2>1 DEF Elements
  <2>2. CASE i - Len(s) \in 1 .. Len(r) /\ i = Len(s) + (i - Len(s))
    <3>1. (s \o r)[i] = r[i - Len(s)]
      BY <1>3, <2>2
    <3> QED
      BY <1>1, <2>2, <3>1 DEF Elements
  <2> QED
    BY <1>4, <2>1, <2>2
<1>6. Elements(s) \cup Elements(r) \subseteq Elements(s \o r)
  BY <1>1, <1>2, <1>3 DEF Elements
<1> QED
  BY <1>1, <1>2, <1>3, <1>5, <1>6

\* The first element of the second sequence goes to the end of the first.
LEMMA ConcatShift ==
    ASSUME NEW S, NEW s \in Seq(S), NEW r \in Seq(S), r # <<>>
    PROVE  Append(s, Head(r)) \o Tail(r) = s \o r
  OBVIOUS

\* Every step preserves it.
LEMMA HeldOnceStep == TypeOK /\ HeldOnce /\ [Next]_vars => HeldOnce'
<1> SUFFICES ASSUME TypeOK, HeldOnce, [Next]_vars PROVE HeldOnce'
  OBVIOUS
<1>0. /\ executed \in Seq(Functors) /\ functors \in Seq(Functors)
      /\ pending_functors_ \in Seq(Functors)
      /\ functors \o pending_functors_ \in Seq(Functors)
      /\ HandedOver \in Seq(Functors)
  BY ConcatElements DEF TypeOK, HandedOver
<1>1. ASSUME HandedOver' = HandedOver, issued' = issued PROVE HeldOnce'
  BY <1>1 DEF HeldOnce
<1>2. ASSUME UNCHANGED <<executed, functors, pending_functors_, issued>> PROVE HeldOnce'
  BY <1>1, <1>2 DEF HandedOver
<1>3. ASSUME NEW t \in Threads, NEW f \in Functors, queue_in_loop(t, f) PROVE HeldOnce'
  <2>1. functors \o Append(pending_functors_, f) = Append(functors \o pending_functors_, f)
    BY <1>0, ConcatAppend
  <2>2. HandedOver' = Append(HandedOver, f)
    <3>1. executed \o Append(functors \o pending_functors_, f) = Append(HandedOver, f)
      BY <1>0, ConcatAppend DEF HandedOver
    <3>2. HandedOver' = executed \o (functors \o Append(pending_functors_, f))
      BY <1>3 DEF queue_in_loop, HandedOver
    <3> QED
      BY <2>1, <3>1, <3>2
  <2>3. f \notin issued /\ issued' = issued \cup {f}
    BY <1>3 DEF queue_in_loop
  <2>4. Elements(Append(HandedOver, f)) = Elements(HandedOver) \cup {f}
    BY <1>0, AppendElements
  <2>5. f \notin Elements(HandedOver)
    BY <2>3 DEF HeldOnce
  <2>6. \A i, j \in 1 .. Len(HandedOver) : HandedOver[i] = HandedOver[j] => i = j
    BY DEF HeldOnce
  <2>7. \A i, j \in 1 .. Len(Append(HandedOver, f)) :
           Append(HandedOver, f)[i] = Append(HandedOver, f)[j] => i = j
    BY <1>0, <2>5, <2>6, AppendOnce
  <2> QED
    BY <2>2, <2>3, <2>4, <2>7 DEF HeldOnce
<1>4. CASE swap_functors
  <2>1. functors = <<>>
    BY <1>4 DEF swap_functors, TypeOK
  <2>2. /\ functors \o pending_functors_ = pending_functors_
        /\ pending_functors_ \o functors = pending_functors_
    BY <1>0, <2>1
  <2>3. HandedOver' = HandedOver
    BY <1>4, <2>2 DEF swap_functors, HandedOver
  <2> QED
    BY <1>1, <1>4, <2>3 DEF swap_functors
<1>5. CASE run_functor
  <2>1. /\ functors \o pending_functors_ # <<>>
        /\ Head(functors \o pending_functors_) = Head(functors)
        /\ Tail(functors \o pending_functors_) = Tail(functors) \o pending_functors_
    BY <1>0, <1>5, ConcatHeadTail DEF run_functor
  <2>2. Append(executed, Head(functors)) \o (Tail(functors) \o pending_functors_) = HandedOver
    BY <1>0, <2>1, ConcatShift DEF HandedOver
  <2>3. HandedOver' = HandedOver
    BY <1>5, <2>2 DEF run_functor, HandedOver
  <2> QED
    BY <1>1, <1>5, <2>3 DEF run_functor
<1>6. ASSUME NEW t \in Threads, quit(t) \/ wakeup(t) PROVE HeldOnce'
  BY <1>2, <1>6 DEF quit, wakeup
<1>7. CASE loop \/ while \/ handle_read \/ end_functors
  BY <1>2, <1>7 DEF loop, while, handle_read, end_functors
<1>8. ASSUME NEW w \in BOOLEAN, poll(w) PROVE HeldOnce'
  BY <1>2, <1>8 DEF poll
<1>9. CASE UNCHANGED vars
  BY <1>2, <1>9 DEF vars, loopVars
<1> QED
  BY <1>3, <1>4, <1>5, <1>6, <1>7, <1>8, <1>9 DEF Next, Call, Run

\* What HeldOnce says of the parts.
LEMMA HeldOnceParts == TypeOK /\ HeldOnce => ExecutedOnce
<1> SUFFICES ASSUME TypeOK, HeldOnce PROVE ExecutedOnce
  OBVIOUS
<1> DEFINE q == functors \o pending_functors_
<1>1. /\ executed \in Seq(Functors) /\ q \in Seq(Functors)
      /\ Elements(q) = Elements(functors) \cup Elements(pending_functors_)
  BY ConcatElements DEF TypeOK
<1>2. HandedOver = executed \o q
  BY DEF HandedOver
<1> HIDE DEF q
<1>3. /\ Len(executed) \in Nat /\ Len(q) \in Nat
      /\ Len(HandedOver) = Len(executed) + Len(q)
      /\ \A i \in 1 .. Len(executed) : HandedOver[i] = executed[i]
      /\ \A i \in 1 .. Len(q) : HandedOver[Len(executed) + i] = q[i]
      /\ Elements(HandedOver) = Elements(executed) \cup Elements(q)
  BY <1>1, <1>2, ConcatElements
<1>4. /\ \A i \in 1 .. Len(executed) : i \in 1 .. Len(HandedOver)
      /\ \A i \in 1 .. Len(q) : Len(executed) + i \in 1 .. Len(HandedOver)
      /\ \A i \in 1 .. Len(executed), j \in 1 .. Len(q) : i # Len(executed) + j
  BY <1>3
<1>5. \A i, j \in 1 .. Len(executed) : executed[i] = executed[j] => i = j
  BY <1>3, <1>4 DEF HeldOnce
<1>6. Elements(executed) \cap Elements(q) = {}
  <2> SUFFICES ASSUME NEW i \in 1 .. Len(executed), NEW j \in 1 .. Len(q), executed[i] = q[j]
               PROVE  FALSE
    BY <1>1 DEF Elements
  <2>1. HandedOver[i] = HandedOver[Len(executed) + j]
    BY <1>3
  <2> QED
    BY <1>4, <2>1 DEF HeldOnce
<1> QED
  BY <1>1, <1>3, <1>5, <1>6 DEF ExecutedOnce, HeldOnce

\* Swapping the queue out while other threads append to it loses and repeats
\* nothing: a functor that was handed to queue_in_loop is in the queue, in the batch
\* or executed, at one of them, and executed once.
THEOREM FunctorsExecutedOnce == Spec => []ExecutedOnce
<1>1. Init => HeldOnce
  <2> SUFFICES ASSUME Init PROVE HeldOnce
    OBVIOUS
  <2>1. HandedOver = <<>>
    BY DEF Init, HandedOver
  <2>2. Len(HandedOver) = 0 /\ Elements(HandedOver) = {}
    BY <2>1, EmptyElements
  <2> QED
    BY <2>2 DEF Init, HeldOnce
<1>2. Spec => []HeldOnce
  BY TypeCorrect, <1>1, HeldOnceStep, PTL DEF Spec
<1> QED
  BY TypeCorrect, <1>2, HeldOnceParts, PTL
=============================================================================
