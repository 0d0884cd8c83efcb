------------------------------ MODULE MCPoller ------------------------------
(***************************************************************************)
(* Poller on small switches.                                               *)
(***************************************************************************)
EXTENDS Poller

\* Two commands whose deadlines drift apart and together again.
Two == {"version", "slow"}
TwoPosition == [c \in Two |-> IF c = "version" THEN 0 ELSE 1]
TwoInterval == [c \in Two |-> IF c = "version" THEN 2 ELSE 3]
=============================================================================
