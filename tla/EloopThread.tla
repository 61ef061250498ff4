---------------------------- MODULE EloopThread ----------------------------
(***************************************************************************)
(* eloop_thread (src/net/eloop_thread.cpp) around one EventLoop: a user    *)
(* thread, Starter, constructs it, calls start_loop(), uses the eloop it   *)
(* gets and destroys the eloop_thread; the thread it starts, Owner, runs   *)
(* thread_func(), where the eloop is a local variable.  thread::start,     *)
(* join and the detach in ~thread (src/thread/thread.cpp) are the steps of *)
(* Starter that use them.  Critical sections of mutex_ are single steps;   *)
(* condition_.wait is the step into "waiting", which notify_one or a       *)
(* spurious wakeup ends.                                                   *)
(*                                                                         *)
(* The destructor reads loop_ twice without mutex_ and calls quit() on     *)
(* what it read.  In between thread_func may have set loop_ to null, or    *)
(* returned and destroyed its eloop: a null pointer ends the process       *)
(* ("crashed"); a call on the dead eloop is undefined, which here is a     *)
(* crash or a call without effect.                                         *)
(***************************************************************************)
EXTENDS EventLoop

CONSTANTS Starter,     \* the thread that owns the eloop_thread
          DtorWaits    \* does the user destroy the eloop_thread only after
                       \* the loop has executed a functor?

ASSUME StarterAssumption == Starter \in Threads \ {Owner}
ASSUME FlagAssumption == DtorWaits \in BOOLEAN

VARIABLES loop_,    \* eloop_thread::loop_ is not null
          tf,       \* where the thread is in thread_func
          alive,    \* the eloop exists
          starter,  \* where Starter is
          self_quit \* history: code that runs in the loop has called its quit()

threadVars == <<loop_, tf, alive, starter, self_quit>>
allVars == <<vars, threadVars>>

StarterPC == {"constructed", "starting", "waiting", "ready", "dtor_quit", "dtor_store",
              "dtor_wakeup", "dtor_join", "gone", "crashed"}

\* The values each variable may have; loop_ is set between the two critical
\* sections of thread_func.
ThreadTypeOK ==
    /\ TypeOK
    /\ loop_ = (tf = "loop")
    /\ tf \in {"none", "init", "loop", "return", "done"}
    /\ alive \in BOOLEAN
    /\ starter \in StarterPC
    /\ self_quit \in BOOLEAN

ThreadInit ==
    /\ Init
    /\ loop_ = FALSE
    /\ tf = "none"
    /\ alive = FALSE
    /\ starter = "constructed"
    /\ self_quit = FALSE

----------------------------------------------------------------------------
(* Starter.                                                                *)

\* thread::start: the thread runs thread_func, which constructs its eloop.
thread_start == tf' = "init" /\ alive' = TRUE

\* start_loop up to its wait.
start_loop ==
    /\ starter = "constructed"
    /\ starter' = "starting"
    /\ thread_start
    /\ UNCHANGED <<vars, loop_, self_quit>>

\* start_loop's test of loop_ under mutex_: return, or wait.
start_loop_wait ==
    /\ starter = "starting"
    /\ starter' = IF loop_ THEN "ready" ELSE "waiting"
    /\ UNCHANGED <<vars, loop_, tf, alive, self_quit>>

\* condition_.wait may return without a notification.
spurious_wakeup ==
    /\ starter = "waiting"
    /\ starter' = "starting"
    /\ UNCHANGED <<vars, loop_, tf, alive, self_quit>>

\* ~eloop_thread up to its test of loop_, which no lock protects.  Without a
\* loop the destructor of thread_ detaches the thread, if there is one, and the
\* object is gone.
dtor ==
    /\ \/ starter = "constructed"
       \/ starter = "ready" /\ (DtorWaits => executed # <<>>)
    /\ caller[Starter] = "idle"
    /\ starter' = IF loop_ THEN "dtor_quit" ELSE "gone"
    /\ UNCHANGED <<vars, loop_, tf, alive, self_quit>>

\* loop_->quit(): loop_ is read again, and the pointer is not what was tested if
\* thread_func has set it to null meanwhile.
dtor_quit ==
    /\ starter = "dtor_quit"
    /\ starter' = IF loop_ THEN "dtor_store" ELSE "crashed"
    /\ UNCHANGED <<vars, loop_, tf, alive, self_quit>>

\* quit() of the eloop the pointer led to, up to its call of wakeup().
dtor_store ==
    /\ starter = "dtor_store"
    /\ \/ alive /\ quit(Starter) /\ starter' = "dtor_wakeup"
       \/ ~alive /\ UNCHANGED vars /\ starter' \in {"dtor_join", "crashed"}
    /\ UNCHANGED <<loop_, tf, alive, self_quit>>

\* The wakeup(): the loop may have seen the flag, returned and been destroyed.
dtor_wakeup ==
    /\ starter = "dtor_wakeup"
    /\ \/ wakeup(Starter) /\ starter' = "dtor_join"
       \/ ~alive /\ UNCHANGED vars /\ starter' = "crashed"
    /\ UNCHANGED <<loop_, tf, alive, self_quit>>

\* Mutant: the destructor does not wait for the thread.
dtor_join_Skipped ==
    /\ starter = "dtor_join"
    /\ starter' = "gone"
    /\ UNCHANGED <<vars, loop_, tf, alive, self_quit>>

\* thread_.join() returns, and with it the destructor.
dtor_join ==
    /\ starter = "dtor_join"
    /\ tf = "done"
    /\ starter' = "gone"
    /\ UNCHANGED <<vars, loop_, tf, alive, self_quit>>

----------------------------------------------------------------------------
(* Owner.                                                                  *)

\* Mutant: start_loop is not woken.
notify_one_Not == UNCHANGED starter

\* condition_.notify_one().
notify_one == starter' = IF starter = "waiting" THEN "starting" ELSE starter

\* thread_func's first critical section, after init_callback_.
publish ==
    /\ tf = "init"
    /\ caller[Owner] = "idle"
    /\ loop_' = TRUE
    /\ tf' = "loop"
    /\ notify_one
    /\ UNCHANGED <<vars, alive, self_quit>>

\* loop.loop(), which calls nothing of thread_func's.
RunLoop ==
    /\ tf = "loop"
    /\ Run
    /\ UNCHANGED threadVars

Poll(w) ==
    /\ tf = "loop"
    /\ poll(w)
    /\ UNCHANGED threadVars

\* The second critical section.
retract ==
    /\ tf = "loop"
    /\ pc = "exited"
    /\ loop_' = FALSE
    /\ tf' = "return"
    /\ UNCHANGED <<vars, alive, starter, self_quit>>

\* thread_func returns: the lock is released first, then ~eloop runs.
return ==
    /\ tf = "return"
    /\ alive' = FALSE
    /\ tf' = "done"
    /\ UNCHANGED <<vars, loop_, starter, self_quit>>

----------------------------------------------------------------------------
\* User code calls into the eloop: the owner in init_callback_, channel
\* callbacks and functors, the others as long as they may use what start_loop
\* returned.
UserCall(t) ==
    /\ IF t = Owner THEN tf = "init" \/ (tf = "loop" /\ pc # "constructed")
                    ELSE starter = "ready"
    /\ \/ (\E f \in Functors : queue_in_loop(t, f)) /\ UNCHANGED self_quit
       \/ t = Owner /\ quit(t) /\ self_quit' = TRUE
    /\ UNCHANGED <<loop_, tf, alive, starter>>

EndUserCall(t) ==
    /\ t = Starter => starter = "ready"
    /\ wakeup(t)
    /\ UNCHANGED threadVars

DtorStep == dtor_quit \/ dtor_store \/ dtor_wakeup \/ dtor_join

ThreadFuncStep == publish \/ RunLoop \/ retract \/ return

ThreadNext ==
    \/ start_loop
    \/ start_loop_wait \/ spurious_wakeup
    \/ dtor
    \/ DtorStep
    \/ ThreadFuncStep
    \/ \E w \in BOOLEAN : Poll(w)
    \/ \E t \in Threads : UserCall(t) \/ EndUserCall(t)

ThreadSpec == ThreadInit /\ [][ThreadNext]_allVars

\* Every thread that can run does, and condition_ may never wake up by itself;
\* whether and when the user starts the loop or destroys the object is up to the
\* user.
ThreadFairness ==
    /\ WF_allVars(start_loop_wait)
    /\ WF_allVars(DtorStep)
    /\ WF_allVars(ThreadFuncStep)
    /\ WF_allVars(wakeup_fd_ /\ \E w \in BOOLEAN : Poll(w))
    /\ \A t \in Threads : WF_allVars(EndUserCall(t))

ThreadFairSpec == ThreadSpec /\ ThreadFairness

----------------------------------------------------------------------------
(* Properties.                                                             *)

\* Unless the loop was quit from inside, the destructor comes in time and stays long
\* enough: until it has stored quit_ the loop it tested for is still there, although
\* it reads loop_ without mutex_, and it returns only after thread_func, which uses
\* loop_ and mutex_ of the object.
DtorOrder ==
    ~self_quit => /\ starter \in {"dtor_quit", "dtor_store"} => loop_ /\ alive
                  /\ starter = "gone" => tf \in {"none", "done"}

\* start_loop returns, unless the loop is quit from inside: then loop_ may be
\* null again before start_loop, which was notified, has seen it.
StartLoopReturns == starter = "starting" ~> (starter = "ready" \/ self_quit)

\* The destructor does not wait for ever: the loop sees its quit() and the thread
\* ends.  (It may have crashed on a loop that was gone: see the steps above.)
DtorReturns == starter = "dtor_quit" ~> starter \in {"gone", "crashed"}
=============================================================================
