------------------------------ MODULE MCPoller ------------------------------
(***************************************************************************)
(* Poller for TLC: one fd that becomes readable, one that also hangs up.   *)
(***************************************************************************)
EXTENDS Poller

CONSTANTS f1, f2

MCFds == {f1, f2}
MCConditions == [fd \in MCFds |-> IF fd = f1 THEN {"IN"} ELSE {"IN", "HUP"}]
=============================================================================
