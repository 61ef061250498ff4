------------------------------ MODULE MCTPool ------------------------------
(* TPool with two or four workers, one of which may be lost to the init    *)
(* callback, and up to four tasks.                                         *)
EXTENDS TPool

CONSTANTS w1, w2, w3, w4, t1, t2, t3, t4, idle

MCTwoWorkers == {w1, w2}
MCFourWorkers == {w1, w2, w3, w4}
MCThreeTasks == {t1, t2, t3}
MCFourTasks == {t1, t2, t3, t4}
MCThrow == {t1, t2}
MCThrowThree == {t1, t2, t3}
MCInitThrows == {w4}
=============================================================================
