----------------------------- MODULE MCLogging -----------------------------
(***************************************************************************)
(* Logging for TLC: integers of 8 bits, signed and unsigned, so that the   *)
(* longest numeral has 4 characters, and texts around every boundary of a  *)
(* buffer of 24 bytes.  The second thread logs the prefix only.            *)
(***************************************************************************)
EXTENDS Logging

CONSTANTS t1, t2

MCThreads == {t1, t2}
MCSingle == {Number(n) : n \in -128 .. 255}
MCItems == {Text(len) : len \in {0, 1, 15, 16, 18, 19, 20}} \cup {Number(-128), Number(7), Double(3)}
MCMessages ==
    [t \in MCThreads |->
       IF t = t1 THEN {<<a>> : a \in MCSingle} \cup {<<a, b>> : a \in MCItems, b \in MCItems}
                 ELSE {<<>>}]
=============================================================================
