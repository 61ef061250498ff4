------------------------------- MODULE TPool -------------------------------
(***************************************************************************)
(* tpool (src/thread/tpool.cpp): a fixed set of worker threads that take   *)
(* tasks from one deque under mutex_ and sleep on cond_ when it is empty.  *)
(* A critical section is one step; cond_.wait is the step into "waiting",  *)
(* which notify_one, notify_all or a spurious wakeup ends, and a woken     *)
(* worker has to come through the lock again.                              *)
(*                                                                         *)
(* Every task has an identity and is added once; t_init_callback_, which a *)
(* worker calls first, and the bodies of the tasks are the user's, and may *)
(* add tasks or throw.                                                     *)
(***************************************************************************)
EXTENDS Naturals, Sequences, FiniteSets

CONSTANTS Workers,    \* the threads start() creates, tsize_ of them
          Tasks,
          Throwing,   \* the tasks that end with an exception
          InitThrows, \* the workers in which t_init_callback_ throws
          Idle        \* what a worker has in hand when it executes nothing

ASSUME TaskAssumption == Throwing \subseteq Tasks /\ Idle \notin Tasks
ASSUME WorkersAssumption == IsFiniteSet(Workers) /\ InitThrows \subseteq Workers

VARIABLES running_,
          queue_,
          worker,    \* worker[w]: where w is in run()
          task,      \* task[w]: the task w executes
          user,      \* the life of the pool: "constructed", "started", "joining", "gone"
          added,     \* history: the tasks given to add
          executed   \* history: the tasks workers have taken

vars == <<running_, queue_, worker, task, user, added, executed>>

At(p) == {w \in Workers : worker[w] = p}
Elements(s) == {s[i] : i \in DOMAIN s}

\* The values each variable may have; a worker holds a task exactly while it
\* executes it, workers exist from start on, and every task that was added is
\* in the queue or was taken.
TypeOK ==
    /\ running_ \in BOOLEAN
    /\ queue_ \in Seq(Tasks)
    /\ worker \in [Workers -> {"none", "init", "lock", "waiting", "task", "exited"}]
    /\ task \in [Workers -> Tasks \cup {Idle}]
    /\ \A w \in Workers : task[w] # Idle <=> worker[w] = "task"
    /\ user \in {"constructed", "started", "joining", "gone"}
    /\ user = "constructed" => At("none") = Workers
    /\ added \subseteq Tasks
    /\ executed \subseteq Tasks
    /\ added = executed \cup Elements(queue_)

Init ==
    /\ running_ = FALSE
    /\ queue_ = <<>>
    /\ worker = [w \in Workers |-> "none"]
    /\ task = [w \in Workers |-> Idle]
    /\ user = "constructed"
    /\ added = {}
    /\ executed = {}

----------------------------------------------------------------------------
(* The threads that use the pool.                                          *)

\* start: the flag is set before the threads exist.  A pool of no threads calls
\* t_init_callback_ here, in the thread of its user: nothing of the pool changes.
start ==
    /\ user = "constructed"
    /\ user' = "started"
    /\ running_' = TRUE
    /\ worker' = [w \in Workers |-> "init"]
    /\ UNCHANGED <<queue_, task, added, executed>>

\* Mutant: the new task wakes nobody.
notify_one_Not == UNCHANGED worker

\* cond_.notify_one(): one of the waiting workers, if there is any.
notify_one ==
    IF At("waiting") = {}
      THEN UNCHANGED worker
      ELSE \E w \in At("waiting") : worker' = [worker EXCEPT ![w] = "lock"]

\* add, before or after start and stop; once the destructor is at work, only
\* callbacks and tasks that are still being executed can call it.
add(t) ==
    /\ user # "gone"
    /\ user = "joining" => At("init") \cup At("task") # {}
    /\ t \notin added
    /\ added' = added \cup {t}
    /\ queue_' = Append(queue_, t)
    /\ notify_one
    /\ UNCHANGED <<running_, task, user, executed>>

\* Mutant: stop wakes one worker only.
notify_all_One ==
    IF At("waiting") = {}
      THEN worker
      ELSE [worker EXCEPT ![CHOOSE w \in At("waiting") : TRUE] = "lock"]

\* cond_.notify_all().
notify_all == [w \in Workers |-> IF worker[w] = "waiting" THEN "lock" ELSE worker[w]]

stop ==
    /\ user \in {"constructed", "started"}
    /\ running_' = FALSE
    /\ worker' = notify_all
    /\ UNCHANGED <<queue_, task, user, added, executed>>

\* ~tpool: stop() ...
dtor ==
    /\ user \in {"constructed", "started"}
    /\ user' = "joining"
    /\ running_' = FALSE
    /\ worker' = notify_all
    /\ UNCHANGED <<queue_, task, added, executed>>

\* ... and the joins, which return when every worker has left run().
join ==
    /\ user = "joining"
    /\ \A w \in Workers : worker[w] \in {"none", "exited"}
    /\ user' = "gone"
    /\ UNCHANGED <<running_, queue_, worker, task, added, executed>>

----------------------------------------------------------------------------
(* The workers.                                                            *)

\* t_init_callback_ returns, if there is one, or throws: it is called inside of
\* run()'s try, so the worker is gone before its first task.
run_init(w) ==
    /\ worker[w] = "init"
    /\ worker' = [worker EXCEPT ![w] = IF w \in InitThrows THEN "exited" ELSE "lock"]
    /\ UNCHANGED <<running_, queue_, task, user, added, executed>>

\* Mutant: the flag is not tested again after a wakeup.
run_wait_NoTest(w) ==
    /\ worker[w] = "lock" /\ queue_ = <<>>
    /\ worker' = [worker EXCEPT ![w] = "waiting"]
    /\ UNCHANGED <<running_, queue_, task, user, added, executed>>

\* The queue is empty: run() returns when the pool was stopped, and waits
\* otherwise.
run_wait(w) ==
    /\ worker[w] = "lock" /\ queue_ = <<>>
    /\ worker' = [worker EXCEPT ![w] = IF running_ THEN "waiting" ELSE "exited"]
    /\ UNCHANGED <<running_, queue_, task, user, added, executed>>

\* The queue is not empty, whatever running_ says: take the first task.
run_take(w) ==
    /\ worker[w] = "lock" /\ queue_ # <<>>
    /\ worker' = [worker EXCEPT ![w] = "task"]
    /\ task' = [task EXCEPT ![w] = Head(queue_)]
    /\ queue_' = Tail(queue_)
    /\ executed' = executed \cup {Head(queue_)}
    /\ UNCHANGED <<running_, user, added>>

\* task() returns, or throws: the handler is outside of the loop, so run()
\* returns after it.
run_task(w) ==
    /\ worker[w] = "task"
    /\ worker' = [worker EXCEPT ![w] = IF task[w] \in Throwing THEN "exited" ELSE "lock"]
    /\ task' = [task EXCEPT ![w] = Idle]
    /\ UNCHANGED <<running_, queue_, user, added, executed>>

\* cond_.wait may return without a notification.
spurious_wakeup(w) ==
    /\ worker[w] = "waiting"
    /\ worker' = [worker EXCEPT ![w] = "lock"]
    /\ UNCHANGED <<running_, queue_, task, user, added, executed>>

----------------------------------------------------------------------------
run(w) == run_init(w) \/ run_wait(w) \/ run_take(w) \/ run_task(w)

Next ==
    \/ start \/ stop \/ dtor \/ join
    \/ \E t \in Tasks : add(t)
    \/ \E w \in Workers : run(w) \/ spurious_wakeup(w)

Spec == Init /\ [][Next]_vars

\* A worker that is not waiting runs, through the mutex too; callbacks and tasks
\* end.  Nothing is assumed of spurious wakeups.
FairSpec == Spec /\ WF_vars(join) /\ \A w \in Workers : WF_vars(run(w))

----------------------------------------------------------------------------
(* Properties.                                                             *)

\* One notification per task is enough: while any worker sleeps, as many
\* workers as there are queued tasks are on their way through the lock, so no
\* task waits for a worker that only another add would wake.
NoSleepingOnWork == At("waiting") # {} => Len(queue_) <= Cardinality(At("lock"))

\* After stop no worker sleeps, nor falls asleep again (stop's comment: a thread
\* that is not woken would be leaked).
StopWakesAll == user # "constructed" /\ ~running_ => At("waiting") = {}

\* ~tpool returns, with any tasks left in the queue and any of them throwing.
DtorReturns == user = "joining" ~> user = "gone"

\* A task that is in the queue while the pool has a worker (one that does not end
\* in its t_init_callback_) is executed, also when the pool is stopped or destroyed
\* first, unless tasks that throw have taken the workers along: all of them in a
\* running pool; in one that was stopped the others may have returned already.
HasWorker == \E w \in Workers \ InitThrows : worker[w] \notin {"none", "exited"}
WorkersLost ==
    /\ executed \cap Throwing # {}
    /\ running_ => Cardinality(executed \cap Throwing) >= Cardinality(Workers \ InitThrows)
TasksRun ==
    \A t \in Tasks : (t \in Elements(queue_) /\ HasWorker) ~> (t \in executed \/ WorkersLost)

\* The same with exceptions: run()'s handler is there so that a task that throws
\* does not affect the others.
ThrowContained ==
    \A t \in Tasks : (t \in Elements(queue_) /\ HasWorker) ~> t \in executed
=============================================================================
