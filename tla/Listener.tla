------------------------------ MODULE Listener ------------------------------
(***************************************************************************)
(* The listener of /metrics: TLS and authentication, each of them if it is *)
(* configured.  A handshake is over before its connection carries a        *)
(* request, the two share no state, and both look at their files only when *)
(* something arrives; what they have in common is the clock.               *)
(***************************************************************************)
EXTENDS BasicAuth, Certificate

CONSTANT Configurations    \* sets of "tls" and "basic": what may be configured

ASSUME ConfigurationsAssumption == Configurations \subseteq SUBSET {"tls", "basic"}

VARIABLE configured

vars == <<authVars, certVars, configured>>

TypeOK == AuthTypeOK /\ CertTypeOK /\ configured \in Configurations

Init == AuthInit /\ CertInit /\ configured \in Configurations

HasAuth == "basic" \in configured
HasTLS == "tls" \in configured

\* A probe, or any request when no authentication is configured, is served
\* without a look at its credentials, and leaves no trace.
Authenticate == HasAuth /\ AuthStep /\ UNCHANGED <<certVars, configured>>

Shake == HasTLS /\ CertStep /\ UNCHANGED <<authVars, configured>>

Tick ==
  /\ IF HasAuth THEN AuthTick ELSE UNCHANGED authVars
  /\ IF HasTLS THEN CertTick ELSE UNCHANGED certVars
  /\ UNCHANGED configured

Next == Authenticate \/ Shake \/ Tick

Spec == Init /\ [][Next]_vars

-----------------------------------------------------------------------------
(* Fairness: goroutines run, time passes, a renewal or rotation that was   *)
(* begun is finished, and Prometheus keeps scraping.  Nothing is assumed   *)
(* of other clients, and nothing of when a secret changes.                 *)

OfAuth(action) == HasAuth /\ action /\ UNCHANGED <<certVars, configured>>
OfTLS(action) == HasTLS /\ action /\ UNCHANGED <<authVars, configured>>

Fairness ==
  /\ WF_vars(Tick)
  /\ WF_vars(OfAuth(Publish))
  /\ WF_vars(OfAuth(Arrive(Scraper)))
  /\ \A r \in Requests : WF_vars(OfAuth(Decide(r)))
  /\ WF_vars(OfTLS(RenewCert)) /\ WF_vars(OfTLS(RenewKey))
  /\ \A h \in Handshakes : WF_vars(OfTLS(Begin(h))) /\ WF_vars(OfTLS(Proceed(h)))

FairSpec == Spec /\ Fairness
=============================================================================
