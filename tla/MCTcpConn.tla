----------------------------- MODULE MCTcpConn ------------------------------
(* TcpConn with one worker or two and two messages, of one byte and of two, *)
(* and a high-water mark of two bytes.                                      *)
EXTENDS TcpConn, TLC

CONSTANTS t1, t2, m1, m2, garbage

MCWorkers == {t1, t2}
MCOneWorker == {t1}
MCMessages == {m1, m2}
MCLength == (m1 :> 1) @@ (m2 :> 2)
=============================================================================
