------------------------------ MODULE Throttle ------------------------------
(***************************************************************************)
(* reloadInterval: how often the listener looks at the files it was given. *)
(*                                                                         *)
(* Neither the password nor the certificate is checked on a timer: a       *)
(* request or a handshake looks, if the last look is an interval old.  All *)
(* that matters is how long ago something was, so the models keep ages and *)
(* not dates; ages beyond Ancient are not told apart.                      *)
(***************************************************************************)
EXTENDS Integers

CONSTANTS
  ReloadInterval,   \* between two looks at a file
  MaxDelay          \* what a request or a handshake takes to be decided

\* A request is decided well within the 30 seconds of an interval: it waits for
\* two locks and the read of one small file.
ASSUME ThrottleAssumption ==
  /\ MaxDelay \in Nat \ {0}
  /\ ReloadInterval \in Nat
  /\ 2 * MaxDelay < ReloadInterval

Ancient == ReloadInterval + MaxDelay
Ages == 0 .. Ancient
Lags == 0 .. MaxDelay

Older(age) == IF age < Ancient THEN age + 1 ELSE age

\* now.Sub(last) >= reloadInterval, for a clock that was read `lag' ago.
LongAgo(age, lag) == age - lag >= ReloadInterval
=============================================================================
