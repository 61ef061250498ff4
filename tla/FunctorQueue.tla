---------------------------- MODULE FunctorQueue ----------------------------
(***************************************************************************)
(* What eloop::queue_in_loop promises its callers: the functors handed to  *)
(* one eloop are executed by one consumer, each at most once, in the order *)
(* in which they were handed over.  EventLoop implements this with a       *)
(* mutex-protected vector that is swapped out in batches; TcpConn and      *)
(* TcpServer use one such queue per loop.                                  *)
(***************************************************************************)
EXTENDS Sequences

CONSTANT Functors   \* the functors, one identity per call

VARIABLES queue,    \* handed over, not executed yet
          done      \* executed, in the order of execution

Init ==
    /\ queue = <<>>
    /\ done = <<>>

Submit(f) ==
    /\ queue' = Append(queue, f)
    /\ done' = done

Execute ==
    /\ queue # <<>>
    /\ done' = Append(done, Head(queue))
    /\ queue' = Tail(queue)

Next == (\E f \in Functors : Submit(f)) \/ Execute

Spec == Init /\ [][Next]_<<queue, done>>
=============================================================================
