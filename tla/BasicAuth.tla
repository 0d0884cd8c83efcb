----------------------------- MODULE BasicAuth -----------------------------
(***************************************************************************)
(* Authentication of scrapes (listen.basicAuth over secret.Credential):    *)
(* requests that are decided concurrently, against a password that is      *)
(* rotated in its file while the process runs.                             *)
(*                                                                         *)
(* A password is the number of the rotation that made it; Wrong stands for *)
(* every other pair of user and password.  The file is replaced at once,   *)
(* or in place, when it cannot be used in between.                         *)
(***************************************************************************)
EXTENDS Throttle

CONSTANTS
  Requests,       \* connections on which requests arrive, one at a time
  Scraper,        \* the one of them that always sends the latest password
  MaxRotations    \* the bound on rotations, for TLC

ASSUME BasicAuthAssumption == Scraper \in Requests /\ MaxRotations \in Nat

Wrong == -1
Unusable == -2    \* missing, unreadable or empty

VARIABLES
  secret,     \* the latest password
  file,       \* what reading the file gives
  password,   \* Credential.password
  reloaded,   \* how long ago basicAuth.reloaded is
  request     \* of every connection: the request on it and how far it is

authVars == <<secret, file, password, reloaded, request>>

Passwords == 0 .. MaxRotations

\* elapsed is since the request arrived, lag since it read the clock.
RequestStates ==
  [at      : {"idle", "mismatched", "timed", "claimed", "read", "adopted"},
   sent    : Passwords \cup {Wrong},
   found   : Passwords,
   elapsed : Lags,
   lag     : Lags,
   answer  : {"none", "allowed", "refused"}]

Idle(answer) ==
  [at |-> "idle", sent |-> Wrong, found |-> 0, elapsed |-> 0, lag |-> 0, answer |-> answer]

AuthTypeOK ==
  /\ secret \in Passwords
  /\ file \in Passwords \cup {Unusable}
  /\ password \in Passwords
  /\ reloaded \in Ages
  /\ request \in [Requests -> RequestStates]

\* NewFileCredential has read the file, and newBasicAuth takes that for a reload.
AuthInit ==
  /\ secret = 0
  /\ file = 0
  /\ password = 0
  /\ reloaded = 0
  /\ request = [r \in Requests |-> Idle("none")]

At(r, place) == request[r].at = place
Undecided(r) == ~At(r, "idle")

\* Between a claimed reload and the end of it.
Reloading(r) == At(r, "claimed") \/ At(r, "read")

Answer(r, answer) == request' = [request EXCEPT ![r] = Idle(answer)]
Goto(r, place) == request' = [request EXCEPT ![r].at = place]

-----------------------------------------------------------------------------
(* The secret                                                              *)

Rotate ==
  /\ secret < MaxRotations
  /\ secret' = secret + 1
  /\ UNCHANGED <<file, password, reloaded, request>>

Truncate ==
  /\ file # secret /\ file # Unusable
  /\ file' = Unusable
  /\ UNCHANGED <<secret, password, reloaded, request>>

Publish ==
  /\ file # secret
  /\ file' = secret
  /\ UNCHANGED <<secret, password, reloaded, request>>

-----------------------------------------------------------------------------
(* A request                                                               *)

MaySend(r) == IF r = Scraper THEN {secret} ELSE {Wrong} \cup 0 .. secret

\* A request to a path that is not exempt: the password in memory decides at
\* once if it is the one.
Arrive(r) ==
  /\ At(r, "idle")
  /\ \E sent \in MaySend(r) :
        IF sent = password
        THEN Answer(r, "allowed")
        ELSE request' = [request EXCEPT ![r] = [Idle("none") EXCEPT !.at = "mismatched", !.sent = sent]]
  /\ UNCHANGED <<secret, file, password, reloaded>>

\* due reads the clock before it takes the lock.
ReadClock(r) ==
  /\ At(r, "mismatched")
  /\ Goto(r, "timed")
  /\ UNCHANGED <<secret, file, password, reloaded>>

\* Not the code: the reload is not claimed.
Unclaimed(r) == reloaded

\* Whoever may reload takes the interval for itself, from when it read the clock.
Claimed(r) == request[r].lag

\* Not the code: a refusal starts the interval again.
Restarted(r) == request[r].lag

\* A refusal leaves the interval as it is.
Kept(r) == reloaded

due(r) ==
  /\ At(r, "timed")
  /\ IF LongAgo(reloaded, request[r].lag)
     THEN Goto(r, "claimed") /\ reloaded' = Claimed(r)
     ELSE Answer(r, "refused") /\ reloaded' = Kept(r)
  /\ UNCHANGED <<secret, file, password>>

\* Not the code: whatever the file holds is a password.
AnyContent == TRUE

\* read: the file is there and not empty.
Readable == file # Unusable

\* Reload reads the file without a lock; a failure keeps the password.
ReadFile(r) ==
  /\ At(r, "claimed")
  /\ IF Readable
     THEN request' = [request EXCEPT ![r].at = "read", ![r].found = file]
     ELSE Answer(r, "refused")
  /\ UNCHANGED <<secret, file, password, reloaded>>

\* The end of Reload, under the lock: an unchanged password refuses the request.
Adopt(r) ==
  /\ At(r, "read")
  /\ IF request[r].found = password
     THEN Answer(r, "refused") /\ UNCHANGED password
     ELSE Goto(r, "adopted") /\ password' = request[r].found
  /\ UNCHANGED <<secret, file, reloaded>>

\* The same request is checked against the password in memory again.
Recheck(r) ==
  /\ At(r, "adopted")
  /\ Answer(r, IF request[r].sent = password THEN "allowed" ELSE "refused")
  /\ UNCHANGED <<secret, file, password, reloaded>>

Decide(r) == ReadClock(r) \/ due(r) \/ ReadFile(r) \/ Adopt(r) \/ Recheck(r)

\* A unit of time, in which no request is kept undecided for more than MaxDelay.
AuthTick ==
  /\ \A r \in Requests : Undecided(r) => request[r].elapsed < MaxDelay
  /\ reloaded' = Older(reloaded)
  /\ request' = [r \in Requests |->
       IF ~Undecided(r) THEN request[r]
       ELSE [request[r] EXCEPT !.elapsed = @ + 1,
                               !.lag = IF At(r, "mismatched") THEN 0 ELSE @ + 1]]
  /\ UNCHANGED <<secret, file, password>>

AuthStep == Rotate \/ Truncate \/ Publish \/ \E r \in Requests : Arrive(r) \/ Decide(r)

AuthNext == AuthStep \/ AuthTick

AuthSpec == AuthInit /\ [][AuthNext]_authVars

-----------------------------------------------------------------------------
(* Correctness                                                             *)

\* A burst of rejected requests costs one read of the file: no two are at it
\* together (auth.go: "Claiming under the lock is what makes concurrent
\* rejections share one read").
OneReloadAtATime ==
  \A r, s \in Requests : Reloading(r) /\ Reloading(s) => r = s

\* No request re-reads the file though its password has meanwhile become the one
\* in memory, to be refused because the file has nothing new (allow's check of
\* `changed' takes an unchanged password for a wrong one).
ReloadOnlyForMismatch ==
  \A r \in Requests : Reloading(r) => request[r].sent # password

\* A slow read never puts an older password back in memory.
PasswordNeverOlder == [][password' >= password]_authVars

\* A scraper with the rotated password is let in eventually, whoever else tries
\* at the same time and whatever they send.
ScraperReturns ==
  request[Scraper].answer = "refused" ~> request[Scraper].answer = "allowed"
=============================================================================
