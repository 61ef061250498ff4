----------------------------- MODULE TPoolProofs -----------------------------
(***************************************************************************)
(* Proofs about TPool, for any finite set of workers, any tasks and any of *)
(* them throwing, and any workers lost to the init callback.               *)
(*                                                                         *)
(* NoSleepingOnWork counts: a step moves one worker from one set At(p) to  *)
(* another, so its proof is about what such a move does to the cardinality *)
(* of At("lock"). WorkersLeft counts too: the workers that are gone and    *)
(* the tasks that took them along.                                         *)
(***************************************************************************)
EXTENDS TPool, SequenceTheorems, FiniteSetTheorems, TLAPS

IInv == TypeOK /\ NoSleepingOnWork /\ StopWakesAll

USE TaskAssumption, WorkersAssumption

\* What Append does to a sequence's elements.
LEMMA AppendElements ==
    ASSUME NEW S, NEW s \in Seq(S), NEW e \in S
    PROVE  /\ Append(s, e) \in Seq(S)
           /\ Len(Append(s, e)) = Len(s) + 1
           /\ Elements(Append(s, e)) = Elements(s) \cup {e}
<1>1. /\ Append(s, e) \in Seq(S)
      /\ Len(Append(s, e)) = Len(s) + 1
      /\ Len(s) \in Nat
  OBVIOUS
<1>2. /\ DOMAIN Append(s, e) = 1 .. Len(s) + 1
      /\ DOMAIN s = 1 .. Len(s)
      /\ \A i \in 1 .. Len(s) : Append(s, e)[i] = s[i]
      /\ Append(s, e)[Len(s) + 1] = e
  OBVIOUS
<1>3. 1 .. Len(s) + 1 = (1 .. Len(s)) \cup {Len(s) + 1}
  BY <1>1
<1> QED
  BY <1>1, <1>2, <1>3 DEF Elements

\* Taking the first element of a sequence takes it from its elements, unless it
\* comes again.
LEMMA TailElements ==
    ASSUME NEW S, NEW s \in Seq(S), s # <<>>
    PROVE  /\ Head(s) \in S
           /\ Tail(s) \in Seq(S)
           /\ Len(s) \in Nat /\ Len(Tail(s)) = Len(s) - 1
           /\ Elements(s) = {Head(s)} \cup Elements(Tail(s))
<1>1. /\ Head(s) \in S /\ Head(s) = s[1]
      /\ Tail(s) \in Seq(S)
      /\ Len(s) \in Nat \ {0} /\ Len(Tail(s)) = Len(s) - 1
      /\ \A i \in 1 .. Len(Tail(s)) : Tail(s)[i] = s[i + 1]
  BY HeadTailProperties, EmptySeq
<1>2. DOMAIN s = 1 .. Len(s) /\ DOMAIN Tail(s) = 1 .. Len(s) - 1
  BY <1>1
<1>3. \A i \in 1 .. Len(s) : i = 1 \/ (i - 1 \in 1 .. Len(s) - 1 /\ i = (i - 1) + 1)
  BY <1>1
<1>4. \A i \in 1 .. Len(s) - 1 : i + 1 \in 1 .. Len(s)
  BY <1>1
<1>5. 1 \in 1 .. Len(s)
  BY <1>1
<1>6. Elements(s) \subseteq {Head(s)} \cup Elements(Tail(s))
  <2> SUFFICES ASSUME NEW i \in 1 .. Len(s), s[i] # Head(s) PROVE s[i] \in Elements(Tail(s))
    BY <1>2 DEF Elements
  <2>1. i - 1 \in 1 .. Len(s) - 1 /\ Tail(s)[i - 1] = s[i]
    BY <1>1, <1>3
  <2> QED
    BY <1>2, <2>1 DEF Elements
<1>7. {Head(s)} \cup Elements(Tail(s)) \subseteq Elements(s)
  BY <1>1, <1>2, <1>4, <1>5 DEF Elements
<1> QED
  BY <1>1, <1>6, <1>7

\* The workers at one place are finitely many.
LEMMA AtFinite ==
    ASSUME NEW p
    PROVE  /\ IsFiniteSet(At(p)) /\ Cardinality(At(p)) \in Nat
           /\ Cardinality(At(p))' \in Nat
<1>1. At(p) \in SUBSET Workers /\ At(p)' \in SUBSET Workers
  BY DEF At
<1> QED
  BY <1>1, FS_Subset, FS_CardinalityType

\* One worker goes from p to q.
LEMMA MoveOne ==
    ASSUME TypeOK, NEW w \in Workers, NEW p, NEW q, p # q,
           worker[w] = p, worker' = [worker EXCEPT ![w] = q]
    PROVE  /\ At(q)' = At(q) \cup {w}
           /\ Cardinality(At(q))' = Cardinality(At(q)) + 1
           /\ At(p)' = At(p) \ {w}
           /\ Cardinality(At(p))' = Cardinality(At(p)) - 1
<1>1. \A u \in Workers : worker'[u] = IF u = w THEN q ELSE worker[u]
  BY DEF TypeOK
<1>2. At(q)' = At(q) \cup {w} /\ w \notin At(q)
  BY <1>1 DEF At
<1>3. At(p)' = At(p) \ {w} /\ w \in At(p)
  BY <1>1 DEF At
<1>4. Cardinality(At(q))' = Cardinality(At(q)) + 1
  BY <1>2, AtFinite, FS_AddElement
<1>5. Cardinality(At(p))' = Cardinality(At(p)) - 1
  BY <1>3, AtFinite, FS_RemoveElement
<1> QED
  BY <1>2, <1>3, <1>4, <1>5

\* The initial state satisfies the inductive invariant.
LEMMA InitIInv == Init => IInv
<1> SUFFICES ASSUME Init PROVE IInv
  OBVIOUS
<1>1. Elements(queue_) = {} /\ queue_ \in Seq(Tasks)
  BY DEF Init, Elements
<1>2. TypeOK
  BY <1>1 DEF Init, TypeOK, At
<1>3. NoSleepingOnWork /\ StopWakesAll
  BY DEF Init, NoSleepingOnWork, StopWakesAll, At
<1> QED
  BY <1>2, <1>3 DEF IInv

\* Every step preserves the type invariant.
LEMMA TypeStep == TypeOK /\ [Next]_vars => TypeOK'
<1> SUFFICES ASSUME TypeOK, [Next]_vars PROVE TypeOK'
  OBVIOUS
<1>1. CASE start
  BY <1>1 DEF start, TypeOK, At, Elements
<1>2. CASE stop
  BY <1>2 DEF stop, notify_all, TypeOK, At, Elements
<1>3. CASE dtor
  BY <1>3 DEF dtor, notify_all, TypeOK, Elements
<1>4. CASE join
  BY <1>4 DEF join, TypeOK, Elements
<1>5. ASSUME NEW t \in Tasks, add(t) PROVE TypeOK'
  <2>1. worker' \in [Workers -> {"none", "init", "lock", "waiting", "task", "exited"}]
        /\ (\A w \in Workers : worker'[w] = worker[w] \/ (worker[w] = "waiting" /\ worker'[w] = "lock"))
    BY <1>5 DEF add, notify_one, TypeOK, At
  <2>2. queue_' \in Seq(Tasks) /\ added' = executed' \cup Elements(queue_)'
    BY <1>5, AppendElements DEF add, TypeOK
  <2>3. user' = "constructed" => At("none")' = Workers
    BY <1>5, <2>1 DEF add, TypeOK, At
  <2>4. \A w \in Workers : task'[w] # Idle <=> worker'[w] = "task"
    BY <1>5, <2>1 DEF add, TypeOK
  <2> QED
    BY <1>5, <2>1, <2>2, <2>3, <2>4 DEF add, TypeOK
<1>6. ASSUME NEW w \in Workers, run_wait(w) PROVE TypeOK'
  BY <1>6 DEF run_wait, TypeOK, At, Elements
<1>7. ASSUME NEW w \in Workers, run_take(w) PROVE TypeOK'
  <2>1. /\ Head(queue_) \in Tasks /\ queue_' \in Seq(Tasks)
        /\ added' = executed' \cup Elements(queue_)'
    BY <1>7, TailElements DEF run_take, TypeOK
  <2> QED
    BY <1>7, <2>1 DEF run_take, TypeOK, At
<1>8. ASSUME NEW w \in Workers, run_task(w) PROVE TypeOK'
  BY <1>8 DEF run_task, TypeOK, At, Elements
<1>9. ASSUME NEW w \in Workers, spurious_wakeup(w) PROVE TypeOK'
  BY <1>9 DEF spurious_wakeup, TypeOK, At, Elements
<1>10. ASSUME NEW w \in Workers, run_init(w) PROVE TypeOK'
  BY <1>10 DEF run_init, TypeOK, At, Elements
<1>11. CASE UNCHANGED vars
  BY <1>11 DEF vars, TypeOK, At, Elements
<1> QED
  BY <1>1, <1>2, <1>3, <1>4, <1>5, <1>6, <1>7, <1>8, <1>9, <1>10, <1>11 DEF Next, run

\* Every step preserves the two safety properties.
LEMMA SafetyStep == IInv /\ [Next]_vars => (NoSleepingOnWork /\ StopWakesAll)'
<1> SUFFICES ASSUME TypeOK, NoSleepingOnWork, StopWakesAll, [Next]_vars
             PROVE  (NoSleepingOnWork /\ StopWakesAll)'
  BY DEF IInv
<1>0. Len(queue_) \in Nat /\ \A p : Cardinality(At(p)) \in Nat
  BY AtFinite DEF TypeOK
<1> USE DEF NoSleepingOnWork, StopWakesAll
<1>1. CASE start
  BY <1>1 DEF start, At
<1>2. CASE stop \/ dtor
  BY <1>2 DEF stop, dtor, notify_all, At
<1>3. CASE join
  BY <1>3 DEF join, At
<1>4. ASSUME NEW t \in Tasks, add(t) PROVE (NoSleepingOnWork /\ StopWakesAll)'
  <2>1. CASE At("waiting") = {}
    BY <1>4, <2>1 DEF add, notify_one, At
  <2>2. CASE At("waiting") # {}
    <3>1. PICK w \in At("waiting") : worker' = [worker EXCEPT ![w] = "lock"]
      BY <1>4, <2>2 DEF add, notify_one
    <3>2. w \in Workers /\ worker[w] = "waiting"
      BY DEF At
    <3>3. Cardinality(At("lock"))' = Cardinality(At("lock")) + 1
      BY <3>1, <3>2, MoveOne
    <3>4. Len(queue_)' = Len(queue_) + 1
      BY <1>4, AppendElements DEF add, TypeOK
    <3>5. ~(user # "constructed" /\ ~running_)
      BY <2>2
    <3> QED
      BY <1>0, <1>4, <2>2, <3>3, <3>4, <3>5 DEF add
  <2> QED
    BY <2>1, <2>2
<1>5. ASSUME NEW w \in Workers, run_wait(w) PROVE (NoSleepingOnWork /\ StopWakesAll)'
  <2>1. Len(queue_)' = 0
    BY <1>5 DEF run_wait
  <2>2. Cardinality(At("lock"))' \in Nat
    BY AtFinite
  <2>3. ~running_ => At("waiting")' \subseteq At("waiting")
    BY <1>5 DEF run_wait, TypeOK, At
  <2> QED
    BY <1>5, <2>1, <2>2, <2>3 DEF run_wait
<1>6. ASSUME NEW w \in Workers, run_take(w) PROVE (NoSleepingOnWork /\ StopWakesAll)'
  <2>1. At("waiting")' = At("waiting")
    BY <1>6 DEF run_take, TypeOK, At
  <2>2. Cardinality(At("lock"))' = Cardinality(At("lock")) - 1
    BY <1>6, MoveOne DEF run_take
  <2>3. Len(queue_)' = Len(queue_) - 1
    BY <1>6, TailElements DEF run_take, TypeOK
  <2> QED
    BY <1>0, <1>6, <2>1, <2>2, <2>3 DEF run_take
<1>7. ASSUME NEW w \in Workers, run_task(w) PROVE (NoSleepingOnWork /\ StopWakesAll)'
  <2>1. At("waiting")' = At("waiting")
    BY <1>7 DEF run_task, TypeOK, At
  <2>2. CASE task[w] \in Throwing
    <3>1. At("lock")' = At("lock")
      BY <1>7, <2>2 DEF run_task, TypeOK, At
    <3> QED
      BY <1>7, <2>1, <3>1 DEF run_task
  <2>3. CASE task[w] \notin Throwing
    <3>1. Cardinality(At("lock"))' = Cardinality(At("lock")) + 1
      BY <1>7, <2>3, MoveOne DEF run_task
    <3> QED
      BY <1>0, <1>7, <2>1, <3>1 DEF run_task
  <2> QED
    BY <2>2, <2>3
<1>8. ASSUME NEW w \in Workers, spurious_wakeup(w) PROVE (NoSleepingOnWork /\ StopWakesAll)'
  <2>1. /\ At("waiting")' = At("waiting") \ {w}
        /\ Cardinality(At("lock"))' = Cardinality(At("lock")) + 1
    BY <1>8, MoveOne DEF spurious_wakeup
  <2> QED
    BY <1>0, <1>8, <2>1 DEF spurious_wakeup
<1>9. ASSUME NEW w \in Workers, run_init(w) PROVE (NoSleepingOnWork /\ StopWakesAll)'
  <2>1. At("waiting")' = At("waiting")
    BY <1>9 DEF run_init, TypeOK, At
  <2>2. CASE w \in InitThrows
    <3>1. At("lock")' = At("lock")
      BY <1>9, <2>2 DEF run_init, TypeOK, At
    <3> QED
      BY <1>9, <2>1, <3>1 DEF run_init
  <2>3. CASE w \notin InitThrows
    <3>1. Cardinality(At("lock"))' = Cardinality(At("lock")) + 1
      BY <1>9, <2>3, MoveOne DEF run_init
    <3> QED
      BY <1>0, <1>9, <2>1, <3>1 DEF run_init
  <2> QED
    BY <2>2, <2>3
<1>10. CASE UNCHANGED vars
  BY <1>10 DEF vars, At
<1> QED
  BY <1>1, <1>2, <1>3, <1>4, <1>5, <1>6, <1>7, <1>8, <1>9, <1>10 DEF Next, run

----------------------------------------------------------------------------
(* The theorems.                                                           *)

\* The inductive invariant holds in every reachable state.
THEOREM InductiveInvariant == Spec => []IInv
<1>1. IInv /\ [Next]_vars => IInv'
  BY TypeStep, SafetyStep DEF IInv
<1> QED
  BY InitIInv, <1>1, PTL DEF Spec

\* The variables keep their types: among other things every task that was given
\* to add is in the queue or was taken by a worker, none is lost.
THEOREM TypeCorrect == Spec => []TypeOK
<1>1. IInv => TypeOK
  BY DEF IInv
<1> QED
  BY InductiveInvariant, <1>1, PTL

\* The one notification of add is enough, for any number of workers and tasks:
\* while a worker sleeps, every queued task has a worker on its way to the lock.
THEOREM OneNotificationEnough == Spec => []NoSleepingOnWork
<1>1. IInv => NoSleepingOnWork
  BY DEF IInv
<1> QED
  BY InductiveInvariant, <1>1, PTL

\* After stop no worker sleeps or falls asleep again.
THEOREM StopLeavesNobodyAsleep == Spec => []StopWakesAll
<1>1. IInv => StopWakesAll
  BY DEF IInv
<1> QED
  BY InductiveInvariant, <1>1, PTL

----------------------------------------------------------------------------
(* Each task once, and what the tasks that throw cost.                     *)

\* Every task is taken once: it is in the queue once and was not taken before, and
\* what a worker executes, no other worker does.
EachOnce ==
    /\ \A i, j \in 1 .. Len(queue_) : queue_[i] = queue_[j] => i = j
    /\ \A i \in 1 .. Len(queue_) : queue_[i] \notin executed
    /\ \A w \in Workers : task[w] # Idle => task[w] \in executed
    /\ \A v, w \in Workers : task[v] # Idle /\ task[v] = task[w] => v = w

\* The tasks that have ended with an exception.
Thrown == {t \in executed : t \in Throwing /\ \A w \in Workers : task[w] # t}

\* The workers that are gone although their t_init_callback_ did not throw.
Gone == At("exited") \ InitThrows

\* A pool that was not stopped has lost at most one of them to each task that threw;
\* the others never come as far as the lock.
LostInv ==
    /\ IsFiniteSet(executed)
    /\ \A w \in InitThrows : worker[w] \in {"none", "init", "exited"}
    /\ running_ => /\ user = "started" /\ At("none") = {}
                   /\ Cardinality(Gone) <= Cardinality(Thrown)

\* Until as many tasks have thrown as there are workers that t_init_callback_ left
\* to the pool, a pool that was not stopped has one that works.
WorkersLeft ==
    running_ /\ Cardinality(executed \cap Throwing) < Cardinality(Workers \ InitThrows)
      => HasWorker

\* A task joins the queue once, leaves it once, and goes to one worker.
LEMMA EachOnceStep == TypeOK /\ EachOnce /\ [Next]_vars => EachOnce'
<1> SUFFICES ASSUME TypeOK, EachOnce, [Next]_vars PROVE EachOnce'
  OBVIOUS
<1>0. Len(queue_) \in Nat /\ DOMAIN queue_ = 1 .. Len(queue_)
  BY DEF TypeOK
<1>1. ASSUME UNCHANGED <<queue_, task, executed>> PROVE EachOnce'
  BY <1>1 DEF EachOnce
<1>2. ASSUME NEW t \in Tasks, add(t) PROVE EachOnce'
  <2>1. /\ Len(queue_') = Len(queue_) + 1
        /\ \A i \in 1 .. Len(queue_) : queue_'[i] = queue_[i]
        /\ queue_'[Len(queue_) + 1] = t
    BY <1>2 DEF add, TypeOK
  <2>2. t \notin executed /\ \A i \in 1 .. Len(queue_) : queue_[i] # t
    BY <1>0, <1>2 DEF add, TypeOK, Elements
  <2>3. \A i \in 1 .. Len(queue_') : i \in 1 .. Len(queue_) \/ i = Len(queue_) + 1
    BY <1>0, <2>1
  <2>4. task' = task /\ executed' = executed
    BY <1>2 DEF add
  <2> QED
    BY <2>1, <2>2, <2>3, <2>4 DEF EachOnce
<1>3. ASSUME NEW w \in Workers, run_take(w) PROVE EachOnce'
  <2>1. /\ Len(queue_') = Len(queue_) - 1
        /\ \A i \in 1 .. Len(queue_') : queue_'[i] = queue_[i + 1]
        /\ Head(queue_) = queue_[1] /\ Len(queue_) # 0
    BY <1>3, HeadTailProperties, EmptySeq DEF run_take, TypeOK
  <2>2. \A i \in 1 .. Len(queue_') : i \in Nat /\ i + 1 \in 1 .. Len(queue_) /\ i + 1 # 1
    BY <1>0, <2>1
  <2>3. 1 \in 1 .. Len(queue_)
    BY <1>0, <2>1
  <2>4. Head(queue_) \notin executed
    BY <2>1, <2>3 DEF EachOnce
  <2>5. executed' = executed \cup {Head(queue_)}
    BY <1>3 DEF run_take
  <2>6. \A v \in Workers : task'[v] = IF v = w THEN Head(queue_) ELSE task[v]
    BY <1>3 DEF run_take, TypeOK
  <2>7. \A i, j \in 1 .. Len(queue_') : queue_'[i] = queue_'[j] => i = j
    <3> SUFFICES ASSUME NEW i \in 1 .. Len(queue_'), NEW j \in 1 .. Len(queue_'),
                        queue_'[i] = queue_'[j]
                 PROVE  i = j
      OBVIOUS
    <3>1. queue_[i + 1] = queue_[j + 1]
      BY <2>1
    <3>2. i + 1 = j + 1
      BY <2>2, <3>1 DEF EachOnce
    <3> QED
      BY <2>2, <3>2
  <2>8. \A i \in 1 .. Len(queue_') : queue_'[i] \notin executed'
    <3> SUFFICES ASSUME NEW i \in 1 .. Len(queue_') PROVE queue_'[i] \notin executed'
      OBVIOUS
    <3>1. queue_'[i] = queue_[i + 1] /\ i + 1 \in 1 .. Len(queue_) /\ i + 1 # 1
      BY <2>1, <2>2
    <3>2. queue_[i + 1] # queue_[1] /\ queue_[i + 1] \notin executed
      BY <2>3, <3>1 DEF EachOnce
    <3> QED
      BY <2>1, <2>5, <3>1, <3>2
  <2>9. \A v \in Workers : task'[v] # Idle => task'[v] \in executed'
    BY <2>5, <2>6 DEF EachOnce
  <2>10. \A u, v \in Workers : task'[u] # Idle /\ task'[u] = task'[v] => u = v
    BY <2>4, <2>6 DEF EachOnce
  <2> QED
    BY <2>7, <2>8, <2>9, <2>10 DEF EachOnce
<1>4. ASSUME NEW w \in Workers, run_task(w) PROVE EachOnce'
  <2>1. \A v \in Workers : task'[v] = IF v = w THEN Idle ELSE task[v]
    BY <1>4 DEF run_task, TypeOK
  <2>2. queue_' = queue_ /\ executed' = executed
    BY <1>4 DEF run_task
  <2> QED
    BY <2>1, <2>2 DEF EachOnce
<1>5. CASE start \/ stop \/ dtor \/ join
  BY <1>1, <1>5 DEF start, stop, dtor, join
<1>6. ASSUME NEW w \in Workers, run_init(w) \/ run_wait(w) \/ spurious_wakeup(w) PROVE EachOnce'
  BY <1>1, <1>6 DEF run_init, run_wait, spurious_wakeup
<1>7. CASE UNCHANGED vars
  BY <1>1, <1>7 DEF vars
<1> QED
  BY <1>2, <1>3, <1>4, <1>5, <1>6, <1>7 DEF Next, run

\* The tasks that threw are finitely many as long as those that were taken are.
LEMMA ThrownFinite ==
    ASSUME IsFiniteSet(executed)
    PROVE  /\ IsFiniteSet(Thrown) /\ Cardinality(Thrown) \in Nat
           /\ IsFiniteSet(executed \cap Throwing)
           /\ Cardinality(executed \cap Throwing) \in Nat
           /\ Cardinality(Thrown) <= Cardinality(executed \cap Throwing)
<1>1. executed \cap Throwing \in SUBSET executed /\ Thrown \in SUBSET (executed \cap Throwing)
  BY DEF Thrown
<1>2. IsFiniteSet(executed \cap Throwing)
  BY <1>1, FS_Subset
<1> QED
  BY <1>1, <1>2, FS_Subset, FS_CardinalityType

\* The lost workers are finitely many.
LEMMA GoneFinite == IsFiniteSet(Gone) /\ Cardinality(Gone) \in Nat
<1>1. Gone \in SUBSET Workers
  BY DEF Gone, At
<1> QED
  BY <1>1, FS_Subset, FS_CardinalityType

\* A worker leaves a pool that was not stopped only in t_init_callback_ or with a
\* task that throws, and that task counts from then on.
LEMMA LostStep == TypeOK /\ EachOnce /\ LostInv /\ [Next]_vars => LostInv'
<1> SUFFICES ASSUME TypeOK, EachOnce, LostInv, [Next]_vars PROVE LostInv'
  OBVIOUS
<1>0. /\ IsFiniteSet(Gone) /\ Cardinality(Gone) \in Nat /\ Cardinality(Thrown) \in Nat
      /\ IsFiniteSet(executed) /\ IsFiniteSet(Thrown)
  BY GoneFinite, ThrownFinite DEF LostInv
<1>1. CASE start
  <2>1. At("none")' = {} /\ Gone' = {} /\ executed' = executed /\ task' = task
    BY <1>1 DEF start, At, Gone
  <2>2. Thrown' = Thrown
    BY <2>1 DEF Thrown
  <2>3. Cardinality(Gone)' = 0
    BY <2>1, FS_EmptySet
  <2>4. user' = "started"
    BY <1>1 DEF start
  <2> QED
    BY <1>0, <1>1, <2>1, <2>2, <2>3, <2>4 DEF LostInv, start
<1>2. CASE stop \/ dtor
  BY <1>2 DEF stop, dtor, notify_all, LostInv
<1>3. ASSUME UNCHANGED <<running_, executed>>, running_ => user' = user,
             At("none")' = At("none"), Gone' = Gone, Thrown' = Thrown,
             \A w \in InitThrows : worker'[w] = worker[w] \/ worker'[w] = "exited"
      PROVE  LostInv'
  BY <1>3 DEF LostInv
<1>4. CASE join
  <2>1. Thrown' = Thrown /\ At("none")' = At("none") /\ Gone' = Gone
        /\ \A v \in InitThrows : worker'[v] = worker[v] \/ worker'[v] = "exited"
    BY <1>4 DEF join, Thrown, At, Gone, LostInv
  <2>2. ~running_
    BY <1>4 DEF join, LostInv
  <2> QED
    BY <1>3, <1>4, <2>1, <2>2 DEF join
<1>5. ASSUME NEW t \in Tasks, add(t) PROVE LostInv'
  <2>1. At("none")' = At("none") /\ Gone' = Gone
        /\ \A v \in InitThrows : worker'[v] = worker[v] \/ worker'[v] = "exited"
    BY <1>5 DEF add, notify_one, TypeOK, At, Gone, LostInv
  <2>2. Thrown' = Thrown
    BY <1>5 DEF add, Thrown
  <2> QED
    BY <1>3, <1>5, <2>1, <2>2 DEF add
<1>6. ASSUME NEW w \in Workers, run_wait(w) PROVE LostInv'
  <2>1. CASE running_
    <3>1. At("none")' = At("none") /\ Gone' = Gone
        /\ \A v \in InitThrows : worker'[v] = worker[v] \/ worker'[v] = "exited"
      BY <1>6, <2>1 DEF run_wait, TypeOK, At, Gone, LostInv
    <3>2. Thrown' = Thrown
      BY <1>6 DEF run_wait, Thrown
    <3> QED
      BY <1>3, <1>6, <3>1, <3>2 DEF run_wait
  <2>2. CASE ~running_
    BY <1>0, <1>6, <2>2 DEF run_wait, LostInv
  <2> QED
    BY <2>1, <2>2
<1>7. ASSUME NEW w \in Workers, run_take(w) PROVE LostInv'
  <2>1. At("none")' = At("none") /\ Gone' = Gone
        /\ \A v \in InitThrows : worker'[v] = worker[v] \/ worker'[v] = "exited"
    BY <1>7 DEF run_take, TypeOK, At, Gone, LostInv
  <2>2. /\ executed' = executed \cup {Head(queue_)}
        /\ running_' = running_ /\ user' = user
    BY <1>7 DEF run_take
  <2>3. Head(queue_) \in Tasks /\ Head(queue_) = queue_[1] /\ 1 \in 1 .. Len(queue_)
    <3>1. Head(queue_) \in Tasks /\ Head(queue_) = queue_[1] /\ Len(queue_) \in Nat \ {0}
      BY <1>7, HeadTailProperties, EmptySeq DEF run_take, TypeOK
    <3> QED
      BY <3>1
  <2>4. Head(queue_) \notin executed
    BY <2>3 DEF EachOnce
  <2>5. \A v \in Workers : task'[v] = IF v = w THEN Head(queue_) ELSE task[v]
    BY <1>7 DEF run_take, TypeOK
  <2>6. task[w] = Idle /\ Idle \notin executed
    BY <1>7 DEF run_take, TypeOK
  <2>7. Thrown' = Thrown
    BY <2>2, <2>4, <2>5, <2>6 DEF Thrown
  <2>8. IsFiniteSet(executed')
    BY <1>0, <2>2, FS_AddElement
  <2> QED
    BY <2>1, <2>2, <2>7, <2>8 DEF LostInv
<1>8. ASSUME NEW w \in Workers, run_task(w) PROVE LostInv'
  <2>1. /\ executed' = executed /\ running_' = running_ /\ user' = user
        /\ At("none")' = At("none")
        /\ \A v \in InitThrows : worker'[v] = worker[v] \/ worker'[v] = "exited"
    BY <1>8 DEF run_task, TypeOK, At, LostInv
  <2>2. \A v \in Workers : task'[v] = IF v = w THEN Idle ELSE task[v]
    BY <1>8 DEF run_task, TypeOK
  <2>3. task[w] # Idle /\ task[w] \in executed /\ Idle \notin executed
    BY <1>8 DEF run_task, TypeOK, EachOnce
  <2>4. \A v \in Workers : v # w => task[v] # task[w]
    BY <2>3 DEF EachOnce
  <2>5. CASE task[w] \in Throwing
    <3>1. Thrown' = Thrown \cup {task[w]} /\ task[w] \notin Thrown
      BY <2>1, <2>2, <2>3, <2>4, <2>5 DEF Thrown
    <3>2. Cardinality(Thrown') = Cardinality(Thrown) + 1
      BY <1>0, <3>1, FS_AddElement
    <3>3. w \notin InitThrows
      BY <1>8 DEF run_task, LostInv
    <3>4. Gone' = Gone \cup {w} /\ w \notin Gone
      BY <1>8, <2>5, <3>3 DEF run_task, TypeOK, Gone, At
    <3>5. Cardinality(Gone') = Cardinality(Gone) + 1
      BY <1>0, <3>4, FS_AddElement
    <3> QED
      BY <1>0, <2>1, <3>2, <3>5 DEF LostInv
  <2>6. CASE task[w] \notin Throwing
    <3>1. Gone' = Gone
      BY <1>8, <2>6 DEF run_task, TypeOK, At, Gone
    <3>2. Thrown' = Thrown
      BY <2>1, <2>2, <2>3, <2>6 DEF Thrown
    <3> QED
      BY <1>3, <2>1, <3>1, <3>2
  <2> QED
    BY <2>5, <2>6
<1>9. ASSUME NEW w \in Workers, spurious_wakeup(w) PROVE LostInv'
  <2>1. At("none")' = At("none") /\ Gone' = Gone
        /\ \A v \in InitThrows : worker'[v] = worker[v] \/ worker'[v] = "exited"
    BY <1>9 DEF spurious_wakeup, TypeOK, At, Gone, LostInv
  <2>2. Thrown' = Thrown
    BY <1>9 DEF spurious_wakeup, Thrown
  <2> QED
    BY <1>3, <1>9, <2>1, <2>2 DEF spurious_wakeup
<1>10. ASSUME NEW w \in Workers, run_init(w) PROVE LostInv'
  <2>1. At("none")' = At("none") /\ Gone' = Gone
        /\ \A v \in InitThrows : worker'[v] = worker[v] \/ worker'[v] = "exited"
    BY <1>10 DEF run_init, TypeOK, At, Gone
  <2>2. Thrown' = Thrown
    BY <1>10 DEF run_init, Thrown
  <2> QED
    BY <1>3, <1>10, <2>1, <2>2 DEF run_init
<1>11. CASE UNCHANGED vars
  <2>1. At("none")' = At("none") /\ Gone' = Gone /\ Thrown' = Thrown
    BY <1>11 DEF vars, Thrown, At, Gone
  <2> QED
    BY <1>3, <1>11, <2>1 DEF vars
<1> QED
  BY <1>1, <1>2, <1>4, <1>5, <1>6, <1>7, <1>8, <1>9, <1>10, <1>11 DEF Next, run

\* Nothing was taken or thrown at first.
LEMMA InitOnce == Init => EachOnce /\ LostInv
<1> SUFFICES ASSUME Init PROVE EachOnce /\ LostInv
  OBVIOUS
<1>1. Len(queue_) = 0
  BY DEF Init
<1>2. IsFiniteSet(executed)
  BY FS_EmptySet DEF Init
<1> QED
  BY <1>1, <1>2 DEF Init, EachOnce, LostInv

\* A pool without a worker has lost them all.
LEMMA LostAll == TypeOK /\ LostInv => WorkersLeft
<1> SUFFICES ASSUME TypeOK, LostInv, running_, ~HasWorker
             PROVE  ~(Cardinality(executed \cap Throwing) < Cardinality(Workers \ InitThrows))
  BY DEF WorkersLeft
<1>1. Gone = Workers \ InitThrows
  BY DEF LostInv, HasWorker, At, Gone
<1>2. Cardinality(Workers \ InitThrows) \in Nat
  BY <1>1, GoneFinite
<1>3. Cardinality(Workers \ InitThrows) <= Cardinality(Thrown)
  BY <1>1 DEF LostInv
<1>4. /\ Cardinality(Thrown) \in Nat /\ Cardinality(executed \cap Throwing) \in Nat
      /\ Cardinality(Thrown) <= Cardinality(executed \cap Throwing)
  BY ThrownFinite DEF LostInv
<1> QED
  BY <1>2, <1>3, <1>4

\* A task that was given to add is taken by one worker, once, whatever the workers
\* interleave: it is not in the queue any more when a worker has it in hand.
THEOREM TasksTakenOnce == Spec => []EachOnce
<1>1. Init => EachOnce
  BY InitOnce
<1> QED
  BY TypeCorrect, <1>1, EachOnceStep, PTL DEF Spec

\* run()'s handler stands outside of its loop, so a t_init_callback_ or a task that
\* throws costs the pool one worker, and no more: a pool that was not stopped
\* executes nothing any more only when as many tasks have thrown as workers came
\* through t_init_callback_.
THEOREM ThrowsCostOneWorker == Spec => []WorkersLeft
<1>1. Spec => []LostInv
  <2>1. Init => LostInv
    BY InitOnce
  <2> QED
    BY TypeCorrect, TasksTakenOnce, <2>1, LostStep, PTL DEF Spec
<1> QED
  BY TypeCorrect, <1>1, LostAll, PTL
=============================================================================
