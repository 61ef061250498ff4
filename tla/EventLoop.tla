----------------------------- MODULE EventLoop -----------------------------
(***************************************************************************)
(* One eloop (src/net/eloop.cpp): the thread that runs loop(), and the     *)
(* threads that hand it functors with queue_in_loop or ask it to quit.     *)
(*                                                                         *)
(* The loop blocks in epoll_wait; a call that wants its attention writes   *)
(* the eventfd wakeup_fd_, whose channel wakeup_ch_ is always registered   *)
(* for reading.  A call is two steps, as in the code: the shared state is  *)
(* changed first (under mutex_, or an atomic store), wakeup() comes later, *)
(* and the loop may do anything in between.                                *)
(*                                                                         *)
(* Abstractions: wakeup_fd_ keeps only "counter > 0", which is all that    *)
(* level-triggered epoll and an eventfd read of the whole counter tell     *)
(* apart; other channels are the nondeterministic calls their callbacks    *)
(* make; calling_pending_functors_ is read by the loop thread alone (the   *)
(* test in queue_in_loop short-circuits), so its store and the swap are    *)
(* one step.  looping_ is written and never read: it is pc between loop()  *)
(* and its return.  Every functor has an identity and is handed over once. *)
(***************************************************************************)
EXTENDS Naturals, Sequences

CONSTANTS Threads,       \* the threads that call into the loop
          Owner,         \* the one that created it and runs loop()
          Functors,      \* the functors, one identity per call
          InitFunctors   \* those the owner may queue before it calls loop()

ASSUME OwnerAssumption == Owner \in Threads
ASSUME InitAssumption == InitFunctors \subseteq Functors

VARIABLES
    pc,                         \* where the owner is in loop()
    quit_,
    calling_pending_functors_,
    pending_functors_,
    functors,                   \* do_pending_functors' batch: what is left of it
    wakeup_fd_,                 \* the eventfd is readable
    woken,                      \* wakeup_ch_ in active_chs_, not handled yet
    caller,                     \* caller[t] = "wakeup": t still has to call wakeup()
    issued,                     \* history: the functors handed to queue_in_loop
    executed                    \* history: the queued functors executed, in order

loopVars == <<pc, quit_, calling_pending_functors_, pending_functors_,
              functors, wakeup_fd_, woken>>
vars == <<loopVars, caller, issued, executed>>

PC == {"constructed", "while", "poll", "handle", "swapped", "functor", "exited"}

\* The values each variable may have; the flag that queue_in_loop tests is up
\* exactly while the owner is in do_pending_functors, and only there does it
\* hold a batch.
TypeOK ==
    /\ pc \in PC
    /\ quit_ \in BOOLEAN
    /\ calling_pending_functors_ \in BOOLEAN
    /\ calling_pending_functors_ <=> pc \in {"swapped", "functor"}
    /\ pending_functors_ \in Seq(Functors)
    /\ functors \in Seq(Functors)
    /\ functors # <<>> => pc \in {"swapped", "functor"}
    /\ wakeup_fd_ \in BOOLEAN
    /\ woken \in BOOLEAN
    /\ caller \in [Threads -> {"idle", "wakeup"}]
    /\ issued \subseteq Functors
    /\ executed \in Seq(Functors)

Init ==
    /\ pc = "constructed"
    /\ quit_ = FALSE
    /\ calling_pending_functors_ = FALSE
    /\ pending_functors_ = <<>>
    /\ functors = <<>>
    /\ wakeup_fd_ = FALSE
    /\ woken = FALSE
    /\ caller = [t \in Threads |-> "idle"]
    /\ issued = {}
    /\ executed = <<>>

----------------------------------------------------------------------------
(* The calls.                                                              *)

is_in_loop_thread(t) == t = Owner

\* The owner runs user code, which may call into its own loop, before loop()
\* and inside channel callbacks and functors; the others run all the time.
CanCall(t) ==
    /\ caller[t] = "idle"
    /\ is_in_loop_thread(t) => pc \in {"constructed", "handle", "functor"}

\* Mutant: the loop's own thread never wakes itself up.
NeedsWakeup_OnlyOthers(t) == ~is_in_loop_thread(t)

\* The condition under which queue_in_loop wakes the loop up.
NeedsWakeup(t) == ~is_in_loop_thread(t) \/ calling_pending_functors_

\* queue_in_loop up to the call of wakeup().  run_in_loop is this call in
\* another thread and a plain call of the functor, which touches nothing of
\* the loop, in the owner.
queue_in_loop(t, f) ==
    /\ CanCall(t)
    /\ f \notin issued
    /\ is_in_loop_thread(t) /\ pc = "constructed" => f \in InitFunctors
    /\ pending_functors_' = Append(pending_functors_, f)
    /\ issued' = issued \cup {f}
    /\ caller' = [caller EXCEPT ![t] = IF NeedsWakeup(t) THEN "wakeup" ELSE "idle"]
    /\ UNCHANGED <<pc, quit_, calling_pending_functors_, functors, wakeup_fd_,
                   woken, executed>>

\* Mutant: quit only stores the flag.
quit_NoWakeup(t) ==
    /\ CanCall(t)
    /\ quit_' = TRUE
    /\ UNCHANGED <<pc, calling_pending_functors_, pending_functors_, functors,
                   wakeup_fd_, woken, caller, issued, executed>>

\* quit up to the call of wakeup().
quit(t) ==
    /\ CanCall(t)
    /\ quit_' = TRUE
    /\ caller' = [caller EXCEPT ![t] = IF is_in_loop_thread(t) THEN "idle" ELSE "wakeup"]
    /\ UNCHANGED <<pc, calling_pending_functors_, pending_functors_, functors,
                   wakeup_fd_, woken, issued, executed>>

\* Mutant: the write to the eventfd fails.
wakeup_WriteFails(t) ==
    /\ caller[t] = "wakeup"
    /\ caller' = [caller EXCEPT ![t] = "idle"]
    /\ UNCHANGED <<pc, quit_, calling_pending_functors_, pending_functors_,
                   functors, wakeup_fd_, woken, issued, executed>>

\* wakeup: one write of the eventfd.
wakeup(t) ==
    /\ caller[t] = "wakeup"
    /\ wakeup_fd_' = TRUE
    /\ caller' = [caller EXCEPT ![t] = "idle"]
    /\ UNCHANGED <<pc, quit_, calling_pending_functors_, pending_functors_,
                   functors, woken, issued, executed>>

----------------------------------------------------------------------------
(* The owner inside loop().  It continues only when it is not in the       *)
(* middle of a call of its own.                                            *)

\* Mutant: loop() starts by draining the eventfd.
loop_DrainsWakeup ==
    /\ pc = "constructed"
    /\ caller[Owner] = "idle"
    /\ pc' = "while"
    /\ quit_' = FALSE
    /\ wakeup_fd_' = FALSE
    /\ UNCHANGED <<calling_pending_functors_, pending_functors_, functors, woken,
                   caller, issued, executed>>

loop ==
    /\ pc = "constructed"
    /\ caller[Owner] = "idle"
    /\ pc' = "while"
    /\ quit_' = FALSE
    /\ UNCHANGED <<calling_pending_functors_, pending_functors_, functors,
                   wakeup_fd_, woken, caller, issued, executed>>

\* while (!quit_.load()) ..., and the return of loop().
while ==
    /\ pc = "while"
    /\ pc' = IF quit_ THEN "exited" ELSE "poll"
    /\ UNCHANGED <<quit_, calling_pending_functors_, pending_functors_, functors,
                   wakeup_fd_, woken, caller, issued, executed>>

\* poll returns, with wakeup_ch_ among the active channels (w) or not.  It
\* returns without it when another channel is ready or the time is up, and
\* also when the ready list is full of other channels.
poll(w) ==
    /\ pc = "poll"
    /\ w => wakeup_fd_
    /\ woken' = w
    /\ pc' = "handle"
    /\ UNCHANGED <<quit_, calling_pending_functors_, pending_functors_, functors,
                   wakeup_fd_, caller, issued, executed>>

\* wakeup_ch_'s callback, at its place among the active channels.
handle_read ==
    /\ pc = "handle"
    /\ woken
    /\ wakeup_fd_' = FALSE
    /\ woken' = FALSE
    /\ UNCHANGED <<pc, quit_, calling_pending_functors_, pending_functors_,
                   functors, caller, issued, executed>>

\* Mutant: the queue is copied, not swapped out.
swap_functors_Copies ==
    /\ pc = "handle"
    /\ ~woken
    /\ pc' = "swapped"
    /\ calling_pending_functors_' = TRUE
    /\ functors' = pending_functors_
    /\ UNCHANGED <<quit_, pending_functors_, wakeup_fd_, woken, caller, issued,
                   executed>>

\* All active channels are handled; do_pending_functors takes the queue.
swap_functors ==
    /\ pc = "handle"
    /\ ~woken
    /\ pc' = "swapped"
    /\ calling_pending_functors_' = TRUE
    /\ functors' = pending_functors_
    /\ pending_functors_' = functors
    /\ UNCHANGED <<quit_, wakeup_fd_, woken, caller, issued, executed>>

\* The next functor of the batch starts; until the next step of loop() the
\* owner is in its body.
run_functor ==
    /\ pc \in {"swapped", "functor"}
    /\ caller[Owner] = "idle"
    /\ functors # <<>>
    /\ pc' = "functor"
    /\ executed' = Append(executed, Head(functors))
    /\ functors' = Tail(functors)
    /\ UNCHANGED <<quit_, calling_pending_functors_, pending_functors_,
                   wakeup_fd_, woken, caller, issued>>

end_functors ==
    /\ pc \in {"swapped", "functor"}
    /\ caller[Owner] = "idle"
    /\ functors = <<>>
    /\ pc' = "while"
    /\ calling_pending_functors_' = FALSE
    /\ UNCHANGED <<quit_, pending_functors_, functors, wakeup_fd_, woken, caller,
                   issued, executed>>

----------------------------------------------------------------------------
Call(t) == quit(t) \/ wakeup(t) \/ \E f \in Functors : queue_in_loop(t, f)

Run == loop \/ while \/ handle_read \/ swap_functors \/ run_functor \/ end_functors

Next == (\E t \in Threads : Call(t)) \/ Run \/ \E w \in BOOLEAN : poll(w)

Spec == Init /\ [][Next]_vars

\* A started call finishes, the owner keeps running, and epoll_wait returns
\* when the eventfd is readable.  Nothing is assumed of the poll time-out or
\* of other channels: what the loop owes its callers must not wait for them.
Fairness ==
    /\ \A t \in Threads : WF_vars(wakeup(t))
    /\ WF_vars(Run)
    /\ WF_vars(wakeup_fd_ /\ \E w \in BOOLEAN : poll(w))

FairSpec == Spec /\ Fairness

----------------------------------------------------------------------------
(* Properties.                                                             *)

Elements(s) == {s[i] : i \in DOMAIN s}

\* The loop will return from poll by itself: the eventfd is readable, or a
\* caller is about to make it so.
WakeupComing == wakeup_fd_ \/ \E t \in Threads : caller[t] = "wakeup"

\* The owner is never blocked in poll on a functor that nobody will wake it
\* for (queue_in_loop's wakeup condition and the swap after handle_read are
\* both needed).  Functors the owner queued before loop() are exempt: nobody
\* writes the eventfd for them, and they wait for the first event or time-out.
NoLostWakeup ==
    pc = "poll" /\ ~(Elements(pending_functors_) \subseteq InitFunctors)
        => WakeupComing

\* The owner is never blocked in poll after a quit() it has not been woken
\* for, whichever thread called it and however it interleaved with the test
\* in loop().
QuitNotMissed == pc = "poll" /\ quit_ => WakeupComing

\* Batching and swapping keep the promise of the abstract queue: functors are
\* executed once, in the order of the calls.
Queue == INSTANCE FunctorQueue WITH queue <- functors \o pending_functors_,
                                    done <- executed
ImplementsFunctorQueue == Queue!Spec

\* What queue_in_loop was given is executed, or loop() returns; it never takes
\* the poll time-out to get there.
EveryFunctorRuns ==
    \A f \in Functors \ InitFunctors :
        f \in issued ~> (f \in Elements(executed) \/ pc = "exited")

\* Once loop() is running, quit() makes it return.
QuitStopsLoop == (quit_ /\ pc # "constructed") ~> pc = "exited"
=============================================================================
