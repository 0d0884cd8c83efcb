--------------------------- MODULE ListenerProofs ---------------------------
(***************************************************************************)
(* Safety of the listener for every number of connections, rotations and   *)
(* renewals, and every interval more than twice as long as a decision.     *)
(***************************************************************************)
EXTENDS Listener, TLAPS

-----------------------------------------------------------------------------
(* Authentication                                                          *)

\* A reload is as old as the request that claimed it, at most: that is why no
\* other request is due before it has ended.
ClaimsAreRecent == \A r \in Requests : Reloading(r) => reloaded <= request[r].elapsed

LagsWithinRequests == \A r \in Requests : request[r].lag <= request[r].elapsed

\* A request that is no longer mismatched, because another request has adopted
\* its password, finds the interval taken.
OvertakenIsNotDue ==
  \A r \in Requests :
    At(r, "mismatched") \/ At(r, "timed") =>
      (request[r].sent = password => reloaded <= MaxDelay + request[r].elapsed)

\* Versions only go up, from memory by way of a reload to the file.
MemoryBehindFile ==
  /\ password <= secret
  /\ file # Unusable => password <= file /\ file <= secret

FoundBetween ==
  \A r \in Requests : At(r, "read") =>
    /\ password <= request[r].found /\ request[r].found <= secret
    /\ file # Unusable => request[r].found <= file

AuthInv ==
  /\ AuthTypeOK
  /\ LagsWithinRequests
  /\ ClaimsAreRecent
  /\ OneReloadAtATime
  /\ ReloadOnlyForMismatch
  /\ OvertakenIsNotDue
  /\ MemoryBehindFile
  /\ FoundBetween

USE ThrottleAssumption, BasicAuthAssumption

LEMMA OlderAge ==
  ASSUME NEW age \in Ages
  PROVE  /\ age \in Nat /\ Older(age) \in Ages
         /\ Older(age) \in Nat /\ Older(age) <= age + 1
BY DEF Ages, Ancient, Older

LEMMA AuthInitInv == AuthInit => AuthInv
<1> SUFFICES ASSUME AuthInit PROVE AuthInv
  OBVIOUS
<1>1. AuthTypeOK
  BY DEF AuthInit, AuthTypeOK, Passwords, RequestStates, Idle, Ages, Ancient, Lags
<1>2. QED
  BY <1>1 DEF AuthInit, AuthInv, LagsWithinRequests, ClaimsAreRecent, OneReloadAtATime,
    ReloadOnlyForMismatch, OvertakenIsNotDue, MemoryBehindFile, FoundBetween, Reloading, At,
    Idle, Unusable

LEMMA FilesStepInv ==
  ASSUME AuthInv, Rotate \/ Truncate \/ Publish
  PROVE  AuthInv'
<1> USE DEF AuthInv
<1>1. AuthTypeOK'
  BY DEF AuthTypeOK, Rotate, Truncate, Publish, Passwords, Unusable
<1>2. (LagsWithinRequests /\ ClaimsAreRecent /\ OneReloadAtATime)'
  BY DEF Rotate, Truncate, Publish, LagsWithinRequests, ClaimsAreRecent, OneReloadAtATime,
    Reloading, At
<1>3. (ReloadOnlyForMismatch /\ OvertakenIsNotDue)'
  BY DEF Rotate, Truncate, Publish, ReloadOnlyForMismatch, OvertakenIsNotDue, Reloading, At
<1>4. (MemoryBehindFile /\ FoundBetween)'
  BY DEF Rotate, Truncate, Publish, MemoryBehindFile, FoundBetween, At, AuthTypeOK, Passwords,
    Unusable, RequestStates
<1>5. QED
  BY <1>1, <1>2, <1>3, <1>4

LEMMA TickInv ==
  ASSUME AuthInv, AuthTick
  PROVE  AuthInv'
<1> USE DEF AuthInv
<1>1. ASSUME NEW r \in Requests
      PROVE  /\ request[r] \in RequestStates
             /\ request[r].lag \in Nat /\ request[r].elapsed \in Nat
             /\ ~Undecided(r) => request'[r] = request[r]
             /\ Undecided(r) =>
                  /\ request'[r].at = request[r].at
                  /\ request'[r].sent = request[r].sent
                  /\ request'[r].found = request[r].found
                  /\ request'[r].elapsed = request[r].elapsed + 1
                  /\ request'[r].lag \in {0, request[r].lag + 1}
                  /\ request[r].elapsed < MaxDelay
  <2>1. request[r] \in RequestStates
    BY DEF AuthTypeOK
  <2>2. request'[r] = IF ~Undecided(r) THEN request[r]
                      ELSE [request[r] EXCEPT !.elapsed = @ + 1,
                              !.lag = IF At(r, "mismatched") THEN 0 ELSE @ + 1]
    BY DEF AuthTick
  <2>3. Undecided(r) => request[r].elapsed < MaxDelay
    BY DEF AuthTick
  <2>4. QED
    BY <2>1, <2>2, <2>3 DEF RequestStates, Lags
<1>2. /\ reloaded \in Nat /\ reloaded' \in Ages
      /\ reloaded' \in Nat /\ reloaded' <= reloaded + 1
  <2>1. reloaded \in Ages /\ reloaded' = Older(reloaded)
    BY DEF AuthTick, AuthTypeOK
  <2>2. QED
    BY <2>1, OlderAge
<1>3. UNCHANGED <<secret, file, password>>
  BY DEF AuthTick
<1>4. AuthTypeOK'
  <2>1. ASSUME NEW r \in Requests
        PROVE  request'[r] \in RequestStates
    <3>1. CASE ~Undecided(r)
      BY <1>1, <3>1
    <3>2. CASE Undecided(r)
      <4>1. request'[r] = [request[r] EXCEPT !.elapsed = @ + 1,
                             !.lag = IF At(r, "mismatched") THEN 0 ELSE @ + 1]
        BY <3>2 DEF AuthTick
      <4>2. 0 \in Lags /\ request[r].elapsed + 1 \in Lags /\ request[r].lag + 1 \in Lags
        BY <1>1, <3>2 DEF LagsWithinRequests, RequestStates, Lags
      <4>3. QED
        BY <1>1, <4>1, <4>2 DEF RequestStates
    <3>3. QED
      BY <3>1, <3>2
  <2>2. request' = [r \in Requests |-> request'[r]]
    BY DEF AuthTick
  <2>3. QED
    BY <1>2, <1>3, <2>1, <2>2 DEF AuthTypeOK
<1>5. LagsWithinRequests'
  BY <1>1 DEF LagsWithinRequests, RequestStates, Lags
<1>6. (ClaimsAreRecent /\ OneReloadAtATime /\ ReloadOnlyForMismatch)'
  <2>1. \A r \in Requests : Reloading(r)' => Reloading(r) /\ Undecided(r)
    BY <1>1 DEF Reloading, At, Undecided
  <2>2. QED
    <3>1. ClaimsAreRecent'
      BY <1>1, <1>2, <2>1 DEF ClaimsAreRecent
    <3>2. (OneReloadAtATime /\ ReloadOnlyForMismatch)'
      BY <1>1, <1>3, <2>1 DEF OneReloadAtATime, ReloadOnlyForMismatch
    <3>3. QED
      BY <3>1, <3>2
<1>7. OvertakenIsNotDue'
  <2>1. ASSUME NEW r \in Requests, (At(r, "mismatched") \/ At(r, "timed"))',
               (request[r].sent = password)'
        PROVE  reloaded' <= MaxDelay + request'[r].elapsed
    <3>1. (At(r, "mismatched") \/ At(r, "timed")) /\ Undecided(r) /\ request[r].sent = password
      BY <1>1, <1>3, <2>1 DEF At, Undecided
    <3>2. reloaded <= MaxDelay + request[r].elapsed
      BY <3>1 DEF OvertakenIsNotDue
    <3>3. QED
      BY <1>1, <1>2, <3>1, <3>2
  <2>2. QED
    BY <2>1 DEF OvertakenIsNotDue
<1>8. (MemoryBehindFile /\ FoundBetween)'
  BY <1>1, <1>3 DEF MemoryBehindFile, FoundBetween, At, Undecided
<1>9. QED
  BY <1>4, <1>5, <1>6, <1>7, <1>8

\* A step of a request leaves the others as they are.
LEMMA OthersStay ==
  ASSUME AuthInv, NEW r \in Requests, Arrive(r) \/ Decide(r), NEW s \in Requests, s # r
  PROVE  /\ request'[s] = request[s]
         /\ request[s] \in RequestStates
BY DEF AuthInv, AuthTypeOK, Arrive, Decide, ReadClock, due, ReadFile, Adopt, Recheck,
   Answer, Goto

\* An answered request is idle.
LEMMA Answered ==
  ASSUME NEW answer \in {"none", "allowed", "refused"}
  PROVE  /\ Idle(answer) \in RequestStates
         /\ Idle(answer).at = "idle" /\ Idle(answer).lag = 0 /\ Idle(answer).elapsed = 0
BY DEF Idle, RequestStates, Passwords, Wrong, Lags

\* A request that is not answered at once has another password than the one in memory.
LEMMA ArriveMeans ==
  ASSUME AuthInv, NEW r \in Requests, Arrive(r)
  PROVE  /\ request'[r] \in RequestStates
         /\ request' \in [Requests -> RequestStates]
         /\ request'[r].at \in {"idle", "mismatched"}
         /\ request'[r].lag <= request'[r].elapsed
         /\ request'[r].at # "idle" => request'[r].sent # password
<1>1. PICK sent \in MaySend(r) :
        IF sent = password
        THEN Answer(r, "allowed")
        ELSE request' = [request EXCEPT ![r] = [Idle("none") EXCEPT !.at = "mismatched", !.sent = sent]]
  BY DEF Arrive
<1>2. sent \in Passwords \cup {Wrong}
  BY DEF AuthInv, AuthTypeOK, MaySend, Passwords
<1>3. request \in [Requests -> RequestStates]
  BY DEF AuthInv, AuthTypeOK
<1>4. CASE sent = password
  BY <1>1, <1>3, <1>4, Answered DEF Answer
<1>5. CASE sent # password
  <2> DEFINE new == [Idle("none") EXCEPT !.at = "mismatched", !.sent = sent]
  <2>1. /\ new \in RequestStates /\ new.at = "mismatched" /\ new.sent = sent
        /\ new.lag = 0 /\ new.elapsed = 0
    BY <1>2, Answered DEF RequestStates, Idle
  <2>2. request' = [request EXCEPT ![r] = new]
    BY <1>1, <1>5
  <2> HIDE DEF new
  <2>3. QED
    BY <1>3, <1>5, <2>1, <2>2
<1>6. QED
  BY <1>4, <1>5

\* Steps that end or begin a request, or take it on, without a reload.
LEMMA PlainStepInv ==
  ASSUME AuthInv, NEW r \in Requests, Arrive(r) \/ ReadClock(r) \/ Recheck(r)
  PROVE  AuthInv'
<1> USE DEF AuthInv
<1>1. UNCHANGED <<secret, file, password, reloaded>>
  BY DEF Arrive, ReadClock, Recheck
<1>2. /\ request'[r] \in RequestStates
      /\ request' \in [Requests -> RequestStates]
  <2>1. CASE Arrive(r)
    BY <2>1, ArriveMeans
  <2>2. CASE ReadClock(r)
    BY <2>2 DEF ReadClock, AuthTypeOK, Goto, RequestStates
  <2>3. CASE Recheck(r)
    BY <2>3 DEF Recheck, AuthTypeOK, Answer, Idle, RequestStates, Passwords, Wrong, Lags
  <2>4. QED
    BY <2>1, <2>2, <2>3
<1>3. /\ request'[r].at \in {"idle", "mismatched", "timed"}
      /\ request'[r].lag <= request'[r].elapsed
      /\ request'[r].at # "idle" /\ request'[r].sent = password =>
            reloaded <= MaxDelay + request'[r].elapsed
  <2>1. CASE Arrive(r)
    BY <2>1, ArriveMeans
  <2>2. CASE ReadClock(r)
    <3>1. request'[r] = [request[r] EXCEPT !.at = "timed"] /\ At(r, "mismatched")
      BY <2>2 DEF ReadClock, AuthTypeOK, Goto
    <3>2. request[r] \in RequestStates
      BY DEF AuthTypeOK
    <3>3. QED
      BY <3>1, <3>2 DEF RequestStates, LagsWithinRequests, OvertakenIsNotDue
  <2>3. CASE Recheck(r)
    BY <2>3 DEF Recheck, AuthTypeOK, Answer, Idle, Lags
  <2>4. QED
    BY <2>1, <2>2, <2>3
<1>4. \A s \in Requests : s # r => request'[s] = request[s]
  BY OthersStay DEF Decide
<1>5. AuthTypeOK'
  BY <1>1, <1>2 DEF AuthTypeOK
<1>6. ~Reloading(r)' /\ ~At(r, "read")'
  BY <1>3 DEF Reloading, At
<1>7. (LagsWithinRequests /\ OvertakenIsNotDue)'
  BY <1>1, <1>3, <1>4 DEF LagsWithinRequests, OvertakenIsNotDue, At
<1>8. (ClaimsAreRecent /\ OneReloadAtATime /\ ReloadOnlyForMismatch)'
  BY <1>1, <1>4, <1>6 DEF ClaimsAreRecent, OneReloadAtATime, ReloadOnlyForMismatch,
     Reloading, At
<1>9. (MemoryBehindFile /\ FoundBetween)'
  BY <1>1, <1>4, <1>6 DEF MemoryBehindFile, FoundBetween, At
<1>10. QED
  BY <1>5, <1>7, <1>8, <1>9

\* While a request reloads, nobody else does, and the interval is not over.
LEMMA ReloadingMeans ==
  ASSUME AuthInv, NEW r \in Requests, Reloading(r)
  PROVE  /\ reloaded \in Nat /\ reloaded <= MaxDelay
         /\ \A s \in Requests : s # r => ~Reloading(s)
<1>1. request[r] \in RequestStates /\ reloaded \in Nat
  BY DEF AuthInv, AuthTypeOK, Ages, Ancient
<1>2. request[r].elapsed \in Nat /\ request[r].elapsed <= MaxDelay
  BY <1>1 DEF RequestStates, Lags
<1>3. reloaded <= request[r].elapsed
  BY DEF AuthInv, ClaimsAreRecent
<1>4. \A s \in Requests : s # r => ~Reloading(s)
  BY DEF AuthInv, OneReloadAtATime
<1>5. QED
  BY <1>1, <1>2, <1>3, <1>4

\* due lets a request reload only if no other is at it and its password is not
\* the one in memory by now.
LEMMA DueMeans ==
  ASSUME AuthInv, NEW r \in Requests, At(r, "timed"), LongAgo(reloaded, request[r].lag)
  PROVE  /\ \A s \in Requests : ~Reloading(s)
         /\ request[r].sent # password
<1>1. request[r] \in RequestStates /\ reloaded \in Nat
  BY DEF AuthInv, AuthTypeOK, Ages, Ancient
<1>2. /\ request[r].elapsed \in Nat /\ request[r].elapsed <= MaxDelay
      /\ request[r].lag \in Nat
  BY <1>1 DEF RequestStates, Lags
<1>3. reloaded >= ReloadInterval
  BY <1>1, <1>2 DEF LongAgo
<1>4. ASSUME NEW s \in Requests, Reloading(s) PROVE FALSE
  BY <1>1, <1>3, <1>4, ReloadingMeans
<1>5. ASSUME request[r].sent = password PROVE FALSE
  <2>1. reloaded <= MaxDelay + request[r].elapsed
    BY <1>5 DEF AuthInv, OvertakenIsNotDue
  <2>2. QED
    BY <1>1, <1>2, <1>3, <2>1
<1>6. QED
  BY <1>4, <1>5

LEMMA DueStepInv ==
  ASSUME AuthInv, NEW r \in Requests, due(r)
  PROVE  AuthInv'
<1> USE DEF AuthInv
<1>1. /\ request \in [Requests -> RequestStates]
      /\ request[r] \in RequestStates
      /\ UNCHANGED <<secret, file, password>>
      /\ At(r, "timed")
  BY DEF due, AuthTypeOK
<1>2. /\ request[r].lag \in Nat /\ request[r].lag <= MaxDelay
      /\ request[r].lag <= request[r].elapsed
  BY <1>1 DEF RequestStates, Lags, LagsWithinRequests
<1>3. \A s \in Requests : s # r => request'[s] = request[s] /\ request[s] \in RequestStates
  BY OthersStay DEF Decide
<1>4. CASE ~LongAgo(reloaded, request[r].lag)
  <2>1. request' = [request EXCEPT ![r] = Idle("refused")] /\ reloaded' = reloaded
    BY <1>4 DEF due, Answer, Kept
  <2>2. request'[r] \in RequestStates /\ request'[r].at = "idle"
        /\ request'[r].lag <= request'[r].elapsed
    BY <1>1, <2>1, Answered
  <2>3. AuthTypeOK'
    BY <1>1, <2>1, Answered DEF AuthTypeOK
  <2>4. (LagsWithinRequests /\ OvertakenIsNotDue)'
    BY <1>1, <1>3, <2>1, <2>2 DEF LagsWithinRequests, OvertakenIsNotDue, At
  <2>5. (ClaimsAreRecent /\ OneReloadAtATime /\ ReloadOnlyForMismatch)'
    BY <1>1, <1>3, <2>1, <2>2 DEF ClaimsAreRecent, OneReloadAtATime, ReloadOnlyForMismatch,
      Reloading, At
  <2>6. (MemoryBehindFile /\ FoundBetween)'
    BY <1>1, <1>3, <2>2 DEF MemoryBehindFile, FoundBetween, At
  <2>7. QED
    BY <2>3, <2>4, <2>5, <2>6
<1>5. CASE LongAgo(reloaded, request[r].lag)
  <2>1. request' = [request EXCEPT ![r].at = "claimed"] /\ reloaded' = request[r].lag
    BY <1>5 DEF due, Goto, Claimed
  <2>2. request'[r] = [request[r] EXCEPT !.at = "claimed"]
    BY <1>1, <2>1
  <2>3. /\ request'[r] \in RequestStates /\ request'[r].at = "claimed"
        /\ request'[r].lag = request[r].lag /\ request'[r].elapsed = request[r].elapsed
        /\ request'[r].sent = request[r].sent
    BY <1>1, <2>2 DEF RequestStates
  <2>4. \A s \in Requests : s # r => ~Reloading(s)'
    BY <1>1, <1>3, <1>5, DueMeans DEF Reloading, At
  <2>5. AuthTypeOK'
    <3>1. reloaded' \in Ages
      BY <1>2, <2>1 DEF Ages, Ancient
    <3>2. QED
      BY <1>1, <2>1, <2>3, <3>1 DEF AuthTypeOK
  <2>6. LagsWithinRequests'
    BY <1>2, <1>3, <2>3 DEF LagsWithinRequests
  <2>7. (ClaimsAreRecent /\ OneReloadAtATime)'
    BY <1>2, <2>1, <2>3, <2>4 DEF ClaimsAreRecent, OneReloadAtATime
  <2>8. ReloadOnlyForMismatch'
    BY <1>1, <1>5, <2>3, <2>4, DueMeans DEF ReloadOnlyForMismatch
  <2>9. OvertakenIsNotDue'
    <3>1. \A s \in Requests : request'[s].elapsed \in Nat
      BY <1>3, <2>3 DEF RequestStates, Lags
    <3>2. QED
      BY <1>2, <2>1, <3>1 DEF OvertakenIsNotDue
  <2>10. (MemoryBehindFile /\ FoundBetween)'
    BY <1>1, <1>3, <2>3 DEF MemoryBehindFile, FoundBetween, At
  <2>11. QED
    BY <2>5, <2>6, <2>7, <2>8, <2>9, <2>10
<1>6. QED
  BY <1>4, <1>5

LEMMA ReloadStepInv ==
  ASSUME AuthInv, NEW r \in Requests, ReadFile(r) \/ Adopt(r)
  PROVE  /\ AuthInv'
         /\ password' >= password
<1> USE DEF AuthInv
<1>1. /\ request \in [Requests -> RequestStates]
      /\ request[r] \in RequestStates
      /\ UNCHANGED <<secret, file, reloaded>>
      /\ Reloading(r)
  BY DEF ReadFile, Adopt, AuthTypeOK, Reloading
<1>2. \A s \in Requests : s # r =>
        request'[s] = request[s] /\ request[s] \in RequestStates /\ ~Reloading(s)
  BY <1>1, OthersStay, ReloadingMeans DEF Decide
<1>3. password \in Nat /\ secret \in Nat /\ file \in Passwords \cup {Unusable}
  BY DEF AuthTypeOK, Passwords
<1>4. /\ request'[r] \in RequestStates
      /\ request'[r].at \in {"idle", "read", "adopted"}
      /\ request'[r].lag <= request'[r].elapsed
      /\ request'[r].at = "read" =>
           /\ UNCHANGED password
           /\ request'[r].elapsed = request[r].elapsed
           /\ request'[r].sent = request[r].sent
           /\ request'[r].found = file /\ file # Unusable
      /\ password' # password =>
           /\ At(r, "read") /\ request'[r].at = "adopted"
           /\ password' = request[r].found
  <2>1. CASE (ReadFile(r) /\ ~Readable) \/ (Adopt(r) /\ request[r].found = password)
    <3>1. request' = [request EXCEPT ![r] = Idle("refused")] /\ password' = password
      BY <2>1 DEF ReadFile, Adopt, Answer, At
    <3>2. QED
      BY <1>1, <3>1, Answered
  <2>2. CASE ReadFile(r) /\ Readable
    <3>1. request' = [request EXCEPT ![r].at = "read", ![r].found = file] /\ password' = password
      BY <2>2 DEF ReadFile
    <3>2. request'[r] = [request[r] EXCEPT !.at = "read", !.found = file]
      BY <1>1, <3>1
    <3>3. file \in Passwords /\ file # Unusable
      BY <1>3, <2>2 DEF Readable
    <3>4. QED
      BY <1>1, <3>1, <3>2, <3>3 DEF RequestStates, LagsWithinRequests
  <2>3. CASE Adopt(r) /\ request[r].found # password
    <3>1. /\ request' = [request EXCEPT ![r].at = "adopted"] /\ At(r, "read")
          /\ password' = request[r].found
      BY <2>3 DEF Adopt, Goto
    <3>2. request'[r] = [request[r] EXCEPT !.at = "adopted"]
      BY <1>1, <3>1
    <3>3. QED
      BY <1>1, <3>1, <3>2 DEF RequestStates, LagsWithinRequests
  <2>4. \/ (ReadFile(r) /\ ~Readable) \/ (Adopt(r) /\ request[r].found = password)
        \/ ReadFile(r) /\ Readable
        \/ Adopt(r) /\ request[r].found # password
    OBVIOUS
  <2>5. QED
    BY <2>1, <2>2, <2>3, <2>4, Zenon
<1>5. /\ password' \in Passwords /\ password' >= password /\ password' <= secret
      /\ file # Unusable => password' <= file
      /\ password' # password => ~Reloading(r)'
  <2>1. CASE password' = password
    BY <1>3, <2>1 DEF AuthTypeOK, MemoryBehindFile
  <2>2. CASE password' # password
    BY <1>1, <1>3, <1>4, <2>2 DEF FoundBetween, RequestStates, Reloading, At
  <2>3. QED
    BY <2>1, <2>2
<1>6. \A s \in Requests : s # r => ~Reloading(s)' /\ ~At(s, "read")'
  BY <1>2 DEF Reloading, At
<1>7. AuthTypeOK'
  <2>1. request' \in [Requests -> RequestStates]
    <3>1. \A s \in Requests : request'[s] \in RequestStates
      BY <1>2, <1>4
    <3>2. \E x : request' = [request EXCEPT ![r] = x]
      BY DEF ReadFile, Adopt, Answer, Goto
    <3>3. QED
      BY <1>1, <3>1, <3>2
  <2>2. QED
    BY <1>1, <1>5, <2>1 DEF AuthTypeOK
<1>8. LagsWithinRequests'
  BY <1>2, <1>4 DEF LagsWithinRequests
<1>9. (ClaimsAreRecent /\ OneReloadAtATime)'
  BY <1>1, <1>4, <1>6 DEF ClaimsAreRecent, OneReloadAtATime, Reloading, At
<1>10. ReloadOnlyForMismatch'
  BY <1>1, <1>4, <1>5, <1>6 DEF ReloadOnlyForMismatch, Reloading, At
<1>11. OvertakenIsNotDue'
  <2>1. \A s \in Requests : request'[s].elapsed \in Nat
    BY <1>2, <1>4 DEF RequestStates, Lags
  <2>2. reloaded' \in Nat /\ reloaded' <= MaxDelay
    BY <1>1, ReloadingMeans
  <2>3. QED
    BY <2>1, <2>2 DEF OvertakenIsNotDue
<1>12. (MemoryBehindFile /\ FoundBetween)'
  <2>1. MemoryBehindFile'
    BY <1>1, <1>5 DEF MemoryBehindFile
  <2>2. ASSUME At(r, "read")'
        PROVE  /\ password' <= request'[r].found /\ request'[r].found <= secret'
               /\ file' # Unusable => request'[r].found <= file'
    BY <1>1, <1>3, <1>4, <2>2 DEF MemoryBehindFile, At, Passwords
  <2>3. QED
    BY <1>6, <2>1, <2>2 DEF FoundBetween
<1>13. QED
  BY <1>5, <1>7, <1>8, <1>9, <1>10, <1>11, <1>12

LEMMA AuthStepInv ==
  ASSUME AuthInv, [AuthNext]_authVars
  PROVE  /\ AuthInv'
         /\ password' >= password
<1>1. password \in Nat
  BY DEF AuthInv, AuthTypeOK, Passwords
<1>2. CASE Rotate \/ Truncate \/ Publish
  BY <1>1, <1>2, FilesStepInv DEF Rotate, Truncate, Publish
<1>3. ASSUME NEW r \in Requests, Arrive(r) \/ ReadClock(r) \/ Recheck(r)
      PROVE  AuthInv' /\ password' >= password
  <2>1. password' = password
    BY <1>3 DEF Arrive, ReadClock, Recheck
  <2>2. AuthInv'
    BY <1>3, PlainStepInv
  <2>3. QED
    BY <1>1, <2>1, <2>2
<1>4. ASSUME NEW r \in Requests, due(r)
      PROVE  AuthInv' /\ password' >= password
  BY <1>1, <1>4, DueStepInv DEF due
<1>5. ASSUME NEW r \in Requests, ReadFile(r) \/ Adopt(r)
      PROVE  AuthInv' /\ password' >= password
  BY <1>5, ReloadStepInv
<1>6. CASE AuthTick
  <2>1. password' = password
    BY <1>6 DEF AuthTick
  <2>2. AuthInv'
    BY <1>6, TickInv
  <2>3. QED
    BY <1>1, <2>1, <2>2
<1>7. CASE UNCHANGED authVars
  BY <1>1, <1>7 DEF authVars, AuthInv, AuthTypeOK, LagsWithinRequests, ClaimsAreRecent,
    OneReloadAtATime, ReloadOnlyForMismatch, OvertakenIsNotDue, MemoryBehindFile, FoundBetween,
    Reloading, At
<1>8. QED
  BY <1>2, <1>3, <1>4, <1>5, <1>6, <1>7 DEF AuthNext, AuthStep, Decide

-----------------------------------------------------------------------------
(* The certificate                                                         *)

\* How far a load that no renewal has overtaken can trust what it read.
LoadIsPair(h) ==
  LET pair == 2 * handshake[h].found IN
  /\ Is(h, "certRead") => certFile = pair
  /\ Is(h, "keyRead") => certFile = pair /\ keyFile = pair
  /\ Is(h, "certStamped") => keyFile = pair /\ handshake[h].seen.cert = pair
  /\ Is(h, "stamped") => handshake[h].seen = StampOf(handshake[h].found)

LoadsArePairs == ~raced => \A h \in Handshakes : LoadIsPair(h)

CertInv == CertTypeOK /\ LoadsArePairs /\ StampTellsPair

USE CertificateAssumption

LEMMA TouchesTyped ==
  /\ \A touches \in Touches : touches \in Nat /\ touches <= 2 * MaxRenewals
  /\ \A touches \in Touches : Whole(touches) =>
        touches \div 2 \in Pairs /\ touches = 2 * (touches \div 2)
  /\ \A pair \in Pairs : 2 * pair \in Touches /\ StampOf(pair) \in Stamps
BY DEF Touches, Pairs, Whole, StampOf, Stamps

LEMMA CertInitInv == CertInit => CertInv
<1> SUFFICES ASSUME CertInit PROVE CertInv
  OBVIOUS
<1>1. 0 \in Pairs /\ 0 \in Touches /\ 0 \in Ages /\ 0 \in Lags /\ StampOf(0) \in Stamps
  BY DEF Pairs, Touches, Ages, Ancient, Lags, StampOf, Stamps
<1>2. NoHandshake \in HandshakeStates /\ NoHandshake.at = "idle"
  BY <1>1 DEF NoHandshake, HandshakeStates
<1>3. [NoHandshake EXCEPT !.at = "load"] \in HandshakeStates
      /\ [NoHandshake EXCEPT !.at = "load"].at = "load"
  BY <1>1 DEF NoHandshake, HandshakeStates
<1>4. \A h \in Handshakes : handshake[h] \in HandshakeStates /\ handshake[h].at \in {"idle", "load"}
  BY <1>2, <1>3 DEF CertInit
<1>5. CertTypeOK
  <2>1. handshake \in [Handshakes -> HandshakeStates]
    BY <1>2, <1>3 DEF CertInit
  <2>2. QED
    BY <1>1, <2>1 DEF CertInit, CertTypeOK
<1>6. LoadsArePairs
  BY <1>4 DEF LoadsArePairs, LoadIsPair, Is
<1>7. StampTellsPair
  BY DEF CertInit, StampTellsPair
<1>8. QED
  BY <1>5, <1>6, <1>7 DEF CertInv

\* A file is touched while a load is at it only in a race.
LEMMA RenewStepInv ==
  ASSUME CertInv, RenewCert \/ RenewKey
  PROVE  CertInv'
<1> USE DEF CertInv
<1>1. /\ UNCHANGED <<handshake, current, stamp, checked>>
      /\ certFile \in Touches /\ keyFile \in Touches
  BY DEF RenewCert, RenewKey, MemoryUnchanged, CertTypeOK
<1>2. CertTypeOK'
  <2>1. certFile' \in Touches /\ keyFile' \in Touches
    BY <1>1 DEF RenewCert, RenewKey, MayTouch, Touches
  <2>2. raced' \in BOOLEAN
    BY DEF RenewCert, RenewKey, CertTypeOK
  <2>3. QED
    BY <1>1, <2>1, <2>2 DEF CertTypeOK
<1>3. LoadsArePairs'
  <2>1. SUFFICES ASSUME ~raced', NEW h \in Handshakes
                 PROVE  LoadIsPair(h)'
    BY DEF LoadsArePairs
  <2>2. ~raced
    BY <2>1, Zenon DEF RenewCert, RenewKey
  <2>3. CASE RenewCert
    <3>1. ~Is(h, "certRead") /\ ~Is(h, "keyRead") /\ keyFile' = keyFile
      BY <2>1, <2>3, Zenon DEF RenewCert
    <3>2. QED
      BY <1>1, <2>2, <3>1 DEF LoadsArePairs, LoadIsPair, Is
  <2>4. CASE RenewKey
    <3>1. ~Is(h, "keyRead") /\ ~Is(h, "certStamped") /\ certFile' = certFile
      BY <2>1, <2>4, Zenon DEF RenewKey
    <3>2. QED
      BY <1>1, <2>2, <3>1 DEF LoadsArePairs, LoadIsPair, Is
  <2>5. QED
    BY <2>3, <2>4
<1>4. StampTellsPair'
  <2>1. raced => raced'
    BY Zenon DEF RenewCert, RenewKey
  <2>2. QED
    BY <1>1, <2>1 DEF StampTellsPair
<1>5. QED
  BY <1>2, <1>3, <1>4

\* What a step of one handshake has to show.
LEMMA OneHandshake ==
  ASSUME CertInv, NEW h \in Handshakes, NEW new,
         handshake' = [handshake EXCEPT ![h] = new],
         FilesUnchanged,
         new \in HandshakeStates,
         current' \in Pairs \cup {NoPair}, stamp' \in Stamps, checked' \in Ages,
         ~raced => LoadIsPair(h)', StampTellsPair'
  PROVE  CertInv'
<1> USE DEF CertInv, FilesUnchanged
<1>1. CertTypeOK'
  BY DEF CertTypeOK
<1>2. \A g \in Handshakes : g # h => handshake'[g] = handshake[g]
  BY DEF CertTypeOK
<1>3. LoadsArePairs'
  <2>1. SUFFICES ASSUME ~raced, NEW g \in Handshakes, g # h
                 PROVE  LoadIsPair(g)'
    BY DEF LoadsArePairs
  <2>2. QED
    BY <1>2, <2>1 DEF LoadsArePairs, LoadIsPair, Is
<1>4. QED
  BY <1>1, <1>3

\* Steps that are no part of a load: the memory keeps its pair and its stamp.
LEMMA LookStepInv ==
  ASSUME CertInv, NEW h \in Handshakes, NEW new, new \in HandshakeStates,
         handshake' = [handshake EXCEPT ![h] = new],
         FilesUnchanged, UNCHANGED <<current, stamp>>, checked' \in Ages,
         new.at \notin {"certRead", "keyRead", "certStamped", "stamped"}
  PROVE  CertInv'
<1>1. handshake'[h] = new
  BY DEF CertInv, CertTypeOK
<1>2. LoadIsPair(h)'
  BY <1>1 DEF LoadIsPair, Is
<1>3. StampTellsPair'
  BY DEF CertInv, StampTellsPair, FilesUnchanged
<1>4. current' \in Pairs \cup {NoPair} /\ stamp' \in Stamps
  BY DEF CertInv, CertTypeOK
<1>5. QED
  BY <1>2, <1>3, <1>4, OneHandshake

LEMMA HandshakeTyped ==
  ASSUME CertInv, NEW h \in Handshakes
  PROVE  /\ handshake[h] \in HandshakeStates
         /\ NoHandshake \in HandshakeStates /\ NoHandshake.at = "idle"
         /\ handshake[h].lag \in Ages
         /\ checked \in Ages
<1>1. handshake[h] \in HandshakeStates /\ checked \in Ages
  BY DEF CertInv, CertTypeOK
<1>2. 0 \in Pairs /\ 0 \in Lags /\ StampOf(0) \in Stamps
  BY DEF Pairs, Touches, Lags, StampOf, Stamps
<1>3. handshake[h].lag \in Ages
  BY <1>1 DEF HandshakeStates, Lags, Ages, Ancient
<1>4. QED
  BY <1>1, <1>2, <1>3 DEF NoHandshake, HandshakeStates

\* stat of a file, wherever it happens: the handshake is the same but for what it
\* saw and where it is, or it gives up.
Seen(h, new, to, half, touched) ==
  /\ new.at = to /\ new.found = handshake[h].found
  /\ new.seen = [handshake[h].seen EXCEPT ![half] = touched]

LEMMA SeeMeans ==
  ASSUME CertInv, NEW h \in Handshakes,
         NEW to \in {"certSeen", "seen", "certStamped", "stamped"},
         NEW failed \in {"idle", "unseen"}, NEW half \in {"cert", "key"},
         NEW touched \in Touches,
         \/ handshake' = [handshake EXCEPT ![h].at = to, ![h].seen[half] = touched]
         \/ Serve(h)
         \/ Move(h, failed)
  PROVE  \E new \in HandshakeStates :
           /\ handshake' = [handshake EXCEPT ![h] = new]
           /\ \/ new.at \in {"idle", "unseen"}
              \/ Seen(h, new, to, half, touched)
<1>1. handshake[h] \in HandshakeStates /\ handshake \in [Handshakes -> HandshakeStates]
  BY DEF CertInv, CertTypeOK
<1>2. CASE handshake' = [handshake EXCEPT ![h].at = to, ![h].seen[half] = touched]
  <2> DEFINE new == [handshake[h] EXCEPT !.at = to, !.seen = [@ EXCEPT ![half] = touched]]
  <2>1. [handshake[h].seen EXCEPT ![half] = touched] \in Stamps
    BY <1>1 DEF HandshakeStates, Stamps
  <2>2. new \in HandshakeStates /\ Seen(h, new, to, half, touched)
    BY <1>1, <2>1 DEF HandshakeStates, Seen
  <2>3. handshake' = [handshake EXCEPT ![h] = new]
    BY <1>1, <1>2 DEF HandshakeStates
  <2> HIDE DEF new
  <2>4. QED
    BY <2>2, <2>3
<1>3. CASE Serve(h)
  BY <1>3, HandshakeTyped DEF Serve
<1>4. CASE Move(h, failed)
  <2> DEFINE new == [handshake[h] EXCEPT !.at = failed]
  <2>1. new \in HandshakeStates /\ new.at \in {"idle", "unseen"}
    BY <1>1 DEF HandshakeStates
  <2>2. handshake' = [handshake EXCEPT ![h] = new]
    BY <1>1, <1>4 DEF Move
  <2> HIDE DEF new
  <2>3. QED
    BY <2>1, <2>2
<1>5. QED
  BY <1>2, <1>3, <1>4

\* Before a load: begin, decide whether to look, look, and settle what was seen.
LEMMA BeforeLoadInv ==
  ASSUME CertInv, NEW h \in Handshakes,
         Begin(h) \/ CheckDue(h) \/ LookAtCert(h) \/ LookAtKey(h) \/ Mark(h) \/ ServeLoaded(h)
  PROVE  CertInv'
<1>1. /\ handshake[h] \in HandshakeStates
      /\ handshake \in [Handshakes -> HandshakeStates]
      /\ NoHandshake \in HandshakeStates /\ NoHandshake.at = "idle"
      /\ handshake[h].lag \in Ages /\ checked \in Ages
      /\ certFile \in Touches /\ keyFile \in Touches
  BY HandshakeTyped DEF CertInv, CertTypeOK
<1>2. ASSUME NEW place \in {"timed", "due"}, Move(h, place), FilesUnchanged, MemoryUnchanged
      PROVE  CertInv'
  <2> DEFINE new == [handshake[h] EXCEPT !.at = place]
  <2>1. new \in HandshakeStates /\ new.at = place
    BY <1>1 DEF HandshakeStates
  <2>2. handshake' = [handshake EXCEPT ![h] = new]
    BY <1>1, <1>2 DEF Move
  <2>3. UNCHANGED <<current, stamp>> /\ checked' \in Ages
    BY <1>1, <1>2 DEF MemoryUnchanged
  <2> HIDE DEF new
  <2>4. QED
    BY <1>2, <2>1, <2>2, <2>3, LookStepInv
<1>3. ASSUME Serve(h), FilesUnchanged, UNCHANGED <<current, stamp>>, checked' \in Ages
      PROVE  CertInv'
  BY <1>1, <1>3, LookStepInv DEF Serve
<1>4. CASE Begin(h)
  BY <1>2, <1>4 DEF Begin
<1>5. CASE CheckDue(h)
  <2>1. CASE LongAgo(checked, handshake[h].lag)
    BY <1>2, <1>5, <2>1 DEF CheckDue, MemoryUnchanged
  <2>2. CASE ~LongAgo(checked, handshake[h].lag)
    BY <1>1, <1>3, <1>5, <2>2 DEF CheckDue, CheckedOnceServed
  <2>3. QED
    BY <2>1, <2>2
<1>6. CASE LookAtCert(h) \/ LookAtKey(h)
  <2>1. /\ FilesUnchanged /\ MemoryUnchanged
        /\ \E new \in HandshakeStates :
              /\ handshake' = [handshake EXCEPT ![h] = new]
              /\ new.at \in {"idle", "unseen", "certSeen", "seen"}
    <3>1. CASE LookAtCert(h)
      <4>1. PICK new \in HandshakeStates :
                /\ handshake' = [handshake EXCEPT ![h] = new]
                /\ \/ new.at \in {"idle", "unseen"}
                   \/ Seen(h, new, "certSeen", "cert", certFile)
        BY <1>1, <3>1, SeeMeans DEF LookAtCert, See
      <4>2. QED
        BY <3>1, <4>1 DEF LookAtCert, See, Seen
    <3>2. CASE LookAtKey(h)
      <4>1. PICK new \in HandshakeStates :
                /\ handshake' = [handshake EXCEPT ![h] = new]
                /\ \/ new.at \in {"idle", "unseen"}
                   \/ Seen(h, new, "seen", "key", keyFile)
        BY <1>1, <3>2, SeeMeans DEF LookAtKey, See
      <4>2. QED
        BY <3>2, <4>1 DEF LookAtKey, See, Seen
    <3>3. QED
      BY <1>6, <3>1, <3>2
  <2>2. QED
    BY <1>1, <2>1, LookStepInv DEF MemoryUnchanged
<1>7. CASE Mark(h)
  <2>1. FilesUnchanged /\ UNCHANGED current /\ checked' \in Ages
    BY <1>1, <1>7 DEF Mark
  <2>2. CASE Is(h, "seen") /\ handshake[h].seen # stamp
    <3> DEFINE new == [handshake[h] EXCEPT !.at = "load", !.seen = StampOf(0)]
    <3>1. new \in HandshakeStates /\ new.at = "load"
      <4>1. StampOf(0) \in Stamps
        BY DEF StampOf, Stamps, Touches
      <4>2. QED
        BY <1>1, <4>1 DEF HandshakeStates
    <3>2. handshake' = [handshake EXCEPT ![h] = new] /\ stamp' = stamp
      BY <1>1, <1>7, <2>2 DEF Mark, StampOnceMarked
    <3> HIDE DEF new
    <3>3. QED
      BY <2>1, <3>1, <3>2, LookStepInv
  <2>3. CASE ~(Is(h, "seen") /\ handshake[h].seen # stamp)
    BY <1>3, <1>7, <2>1, <2>3 DEF Mark
  <2>4. QED
    BY <2>2, <2>3
<1>8. CASE ServeLoaded(h)
  BY <1>1, <1>3, <1>8 DEF ServeLoaded, MemoryUnchanged
<1>9. QED
  BY <1>4, <1>5, <1>6, <1>7, <1>8

\* A load: what it reads and stamps is one pair, unless a renewal is in between.
LEMMA LoadStepInv ==
  ASSUME CertInv, NEW h \in Handshakes,
         ReadCert(h) \/ ReadKey(h) \/ StampCert(h) \/ StampKey(h)
  PROVE  CertInv'
<1>1. /\ handshake[h] \in HandshakeStates
      /\ handshake \in [Handshakes -> HandshakeStates]
      /\ NoHandshake \in HandshakeStates /\ NoHandshake.at = "idle"
      /\ certFile \in Touches /\ keyFile \in Touches
      /\ current \in Pairs \cup {NoPair} /\ stamp \in Stamps /\ checked \in Ages
      /\ ~raced => LoadIsPair(h)
  BY HandshakeTyped DEF CertInv, CertTypeOK, LoadsArePairs
<1>2. FilesUnchanged /\ MemoryUnchanged
  BY DEF ReadCert, ReadKey, StampCert, StampKey, See
<1>3. \E new \in HandshakeStates :
        /\ handshake' = [handshake EXCEPT ![h] = new]
        /\ ~raced => LoadIsPair(h)'
  <2>1. ASSUME Serve(h)
        PROVE  \E new \in HandshakeStates :
                 /\ handshake' = [handshake EXCEPT ![h] = new]
                 /\ ~raced => LoadIsPair(h)'
    BY <1>1, <2>1 DEF Serve, LoadIsPair, Is
  <2>2. CASE ReadCert(h) /\ Whole(certFile)
    <3> DEFINE new == [handshake[h] EXCEPT !.at = "certRead", !.found = certFile \div 2]
    <3>1. certFile \div 2 \in Pairs /\ certFile = 2 * (certFile \div 2)
      BY <1>1, <2>2, TouchesTyped
    <3>2. new \in HandshakeStates /\ new.at = "certRead" /\ new.found = certFile \div 2
      BY <1>1, <3>1 DEF HandshakeStates
    <3>3. handshake' = [handshake EXCEPT ![h] = new]
      BY <1>1, <2>2 DEF ReadCert
    <3> HIDE DEF new
    <3>4. LoadIsPair(h)'
      BY <1>1, <1>2, <3>1, <3>2, <3>3 DEF LoadIsPair, Is, FilesUnchanged
    <3>5. QED
      BY <3>2, <3>3, <3>4
  <2>3. CASE ReadKey(h) /\ keyFile = 2 * handshake[h].found
    <3> DEFINE new == [handshake[h] EXCEPT !.at = "keyRead"]
    <3>1. new \in HandshakeStates /\ new.at = "keyRead" /\ new.found = handshake[h].found
      BY <1>1 DEF HandshakeStates
    <3>2. handshake' = [handshake EXCEPT ![h] = new] /\ Is(h, "certRead")
      BY <1>1, <2>3 DEF ReadKey, Move
    <3> HIDE DEF new
    <3>3. ~raced => LoadIsPair(h)'
      BY <1>1, <1>2, <2>3, <3>1, <3>2 DEF LoadIsPair, Is, FilesUnchanged
    <3>4. QED
      BY <3>1, <3>2, <3>3
  <2>4. CASE StampCert(h)
    <3>1. PICK new \in HandshakeStates :
              /\ handshake' = [handshake EXCEPT ![h] = new]
              /\ \/ new.at \in {"idle", "unseen"}
                 \/ Seen(h, new, "certStamped", "cert", certFile)
      BY <1>1, <2>4, SeeMeans DEF StampCert, See
    <3>2. Is(h, "keyRead")
      BY <2>4 DEF StampCert, See
    <3>3. handshake'[h] = new /\ handshake[h].seen \in Stamps
      BY <1>1, <3>1 DEF HandshakeStates
    <3>4. ~raced => LoadIsPair(h)'
      BY <1>1, <1>2, <3>1, <3>2, <3>3 DEF LoadIsPair, Is, FilesUnchanged, Stamps, Seen
    <3>5. QED
      BY <3>1, <3>4
  <2>5. CASE StampKey(h)
    <3>1. PICK new \in HandshakeStates :
              /\ handshake' = [handshake EXCEPT ![h] = new]
              /\ \/ new.at \in {"idle", "unseen"}
                 \/ Seen(h, new, "stamped", "key", keyFile)
      BY <1>1, <2>5, SeeMeans DEF StampKey, See
    <3>2. Is(h, "certStamped")
      BY <2>5 DEF StampKey, See
    <3>3. handshake'[h] = new /\ handshake[h].seen \in Stamps
      BY <1>1, <3>1 DEF HandshakeStates
    <3>4. ~raced => LoadIsPair(h)'
      BY <1>1, <1>2, <3>1, <3>2, <3>3 DEF LoadIsPair, Is, FilesUnchanged, Stamps, StampOf, Seen
    <3>5. QED
      BY <3>1, <3>4
  <2>6. QED
    BY <2>1, <2>2, <2>3, <2>4, <2>5 DEF ReadCert, ReadKey
<1>4. StampTellsPair'
  BY <1>2 DEF CertInv, StampTellsPair, FilesUnchanged, MemoryUnchanged
<1>5. QED
  BY <1>1, <1>2, <1>3, <1>4, OneHandshake DEF MemoryUnchanged

LEMMA InstallInv ==
  ASSUME CertInv, NEW h \in Handshakes, Install(h)
  PROVE  CertInv'
<1> DEFINE new == [handshake[h] EXCEPT !.at = "done"]
<1>1. /\ handshake[h] \in HandshakeStates
      /\ handshake \in [Handshakes -> HandshakeStates]
      /\ ~raced => LoadIsPair(h)
  BY HandshakeTyped DEF CertInv, CertTypeOK, LoadsArePairs
<1>2. new \in HandshakeStates /\ new.at = "done"
  BY <1>1 DEF HandshakeStates
<1>3. handshake' = [handshake EXCEPT ![h] = new]
  BY <1>1 DEF Install, Move
<1> HIDE DEF new
<1>4. /\ FilesUnchanged /\ Is(h, "stamped")
      /\ current' = handshake[h].found /\ current' \in Pairs
      /\ stamp' = handshake[h].seen /\ stamp' \in Stamps
      /\ checked' \in Ages
  BY <1>1 DEF Install, HandshakeStates, Ages, Ancient
<1>5. LoadIsPair(h)'
  BY <1>1, <1>2, <1>3 DEF LoadIsPair, Is
<1>6. StampTellsPair'
  BY <1>1, <1>4 DEF StampTellsPair, LoadIsPair, FilesUnchanged
<1>7. QED
  BY <1>2, <1>3, <1>4, <1>5, <1>6, OneHandshake

LEMMA CertTickInv ==
  ASSUME CertInv, CertTick
  PROVE  CertInv'
<1> USE DEF CertInv
<1>1. ASSUME NEW h \in Handshakes
      PROVE  /\ handshake'[h] \in HandshakeStates
             /\ handshake'[h].at = handshake[h].at
             /\ handshake'[h].seen = handshake[h].seen
             /\ handshake'[h].found = handshake[h].found
  <2>1. handshake[h] \in HandshakeStates
    BY DEF CertTypeOK
  <2>2. CASE Is(h, "idle")
    BY <2>1, <2>2 DEF CertTick
  <2>3. CASE ~Is(h, "idle")
    <3>1. handshake'[h] = [handshake[h] EXCEPT !.lag = @ + 1] /\ handshake[h].lag < MaxDelay
      BY <2>3 DEF CertTick
    <3>2. handshake[h].lag + 1 \in Lags
      BY <2>1, <3>1 DEF HandshakeStates, Lags
    <3>3. QED
      BY <2>1, <3>1, <3>2 DEF HandshakeStates
  <2>4. QED
    BY <2>2, <2>3
<1>2. FilesUnchanged /\ UNCHANGED <<current, stamp>>
  BY DEF CertTick
<1>3. CertTypeOK'
  <2>1. handshake' \in [Handshakes -> HandshakeStates]
    BY <1>1 DEF CertTick
  <2>2. checked' \in Ages
    BY OlderAge DEF CertTick, CertTypeOK
  <2>3. QED
    BY <1>2, <2>1, <2>2 DEF CertTypeOK, FilesUnchanged
<1>4. LoadsArePairs'
  BY <1>1, <1>2 DEF LoadsArePairs, LoadIsPair, Is, FilesUnchanged
<1>5. StampTellsPair'
  BY <1>2 DEF StampTellsPair, FilesUnchanged
<1>6. QED
  BY <1>3, <1>4, <1>5

LEMMA CertStepInv ==
  ASSUME CertInv, [CertNext]_certVars
  PROVE  CertInv'
<1>1. CASE UNCHANGED certVars
  BY <1>1 DEF certVars, CertInv, CertTypeOK, LoadsArePairs, LoadIsPair, StampTellsPair, Is
<1>2. QED
  BY <1>1, RenewStepInv, BeforeLoadInv, LoadStepInv, InstallInv, CertTickInv
    DEF CertNext, CertStep, Proceed

-----------------------------------------------------------------------------
(* The listener                                                            *)

\* A step of the listener is at most one of each part.
LEMMA Parts ==
  ASSUME [Next]_vars
  PROVE  [AuthNext]_authVars /\ [CertNext]_certVars
<1>1. CASE Authenticate
  BY <1>1 DEF Authenticate, AuthNext
<1>2. CASE Shake
  BY <1>2 DEF Shake, CertNext
<1>3. CASE Tick
  BY <1>3 DEF Tick, AuthNext, CertNext
<1>4. CASE UNCHANGED vars
  BY <1>4 DEF vars
<1>5. QED
  BY <1>1, <1>2, <1>3, <1>4 DEF Next

ListenerInv == AuthInv /\ CertInv /\ configured \in Configurations

\* The two inductive invariants side by side.
LEMMA ListenerInvariant == Spec => []ListenerInv
<1>1. Init => ListenerInv
  BY AuthInitInv, CertInitInv DEF Init, ListenerInv
<1>2. ListenerInv /\ [Next]_vars => ListenerInv'
  <2> SUFFICES ASSUME ListenerInv, [Next]_vars PROVE ListenerInv'
    OBVIOUS
  <2>1. AuthInv' /\ CertInv'
    BY Parts, AuthStepInv, CertStepInv DEF ListenerInv
  <2>2. configured' = configured
    BY DEF Next, Authenticate, Shake, Tick, vars
  <2>3. QED
    BY <2>1, <2>2 DEF ListenerInv
<1>3. QED
  BY <1>1, <1>2, PTL DEF Spec

\* Ages, lags, versions and stamps stay in their bounds, whatever arrives when.
THEOREM TypesHold == Spec => []TypeOK
<1>1. ListenerInv => TypeOK
  BY DEF ListenerInv, AuthInv, CertInv, TypeOK
<1>2. QED
  BY <1>1, ListenerInvariant, PTL

\* However many requests with a wrong password arrive together, one of them at a
\* time reads the file (allow and due, auth.go).
THEOREM OneReadsTheFile == Spec => []OneReloadAtATime
<1>1. ListenerInv => OneReloadAtATime
  BY DEF ListenerInv, AuthInv
<1>2. QED
  BY <1>1, ListenerInvariant, PTL

\* A request whose password another request has meanwhile put in memory does not
\* re-read the file: it would be refused for finding nothing new (allow, auth.go).
\* This needs decisions that take less than half an interval.
THEOREM MatchedDoNotReload == Spec => []ReloadOnlyForMismatch
<1>1. ListenerInv => ReloadOnlyForMismatch
  BY DEF ListenerInv, AuthInv
<1>2. QED
  BY <1>1, ListenerInvariant, PTL

\* No reload puts back a password that is older than the one in memory (Reload,
\* credential.go, which reads the file without a lock).
THEOREM PasswordsOnlyGetNewer == Spec => PasswordNeverOlder
<1>1. ListenerInv /\ [Next]_vars => [password' >= password]_authVars
  BY Parts, AuthStepInv DEF ListenerInv
<1>2. QED
  BY <1>1, ListenerInvariant, PTL DEF Spec, PasswordNeverOlder

\* Unless a renewal overtakes a load, the stamp is that of the pair in memory, for
\* any number of handshakes that look at and load the files together (get and
\* load, tls.go).
THEOREM StampIsOfThePair == Spec => []StampTellsPair
<1>1. ListenerInv => StampTellsPair
  BY DEF ListenerInv, CertInv
<1>2. QED
  BY <1>1, ListenerInvariant, PTL

=============================================================================
