---------------------------- MODULE MCEventLoop ----------------------------
(* EventLoop with an owner, two other threads and three functors, one of   *)
(* which the owner may queue before loop().                                *)
EXTENDS EventLoop

CONSTANTS owner, t1, t2, f1, f2, f3

MCThreads == {owner, t1, t2}
MCFunctors == {f1, f2, f3}
MCInitFunctors == {f3}
=============================================================================
