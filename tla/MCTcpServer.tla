---------------------------- MODULE MCTcpServer ----------------------------
(* TcpServer with two connections and a pool of no or two I/O loops.       *)
EXTENDS TcpServer

CONSTANTS base, l1, l2, c1, c2

MCIoLoops == <<l1, l2>>
MCPoolSizes == {0, 2}
MCConns == {c1, c2}
MCKept == {c1}
MCShut == {c1}
=============================================================================
