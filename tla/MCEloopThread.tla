--------------------------- MODULE MCEloopThread ---------------------------
(* EloopThread with the starter as the only user and two functors, one of  *)
(* which init_callback_ may queue.                                         *)
EXTENDS EloopThread

CONSTANTS owner, user, f1, f2

MCThreads == {owner, user}
MCFunctors == {f1, f2}
MCInitFunctors == {f2}
=============================================================================
