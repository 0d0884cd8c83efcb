-------------------------- MODULE EapiClientProofs --------------------------
(***************************************************************************)
(* What the client promises while secrets change, for any number of        *)
(* passwords, of commands and of changes.                                  *)
(***************************************************************************)
EXTENDS EapiClient, TLAPS

USE ClientAssumption, SecretAssumption

LEMMA InitIInv == Init => IInv
  <1> SUFFICES ASSUME Init PROVE IInv
    OBVIOUS
  <1>1. TypeOK
    <2>1. SecretType
      BY DEF Init, SecretType
    <2>2. CallType
      BY DEF Init, CallType, Answers
    <2>3. CounterType
      BY DEF Init, CounterType
    <2>4. HistoryType
      BY DEF Init, HistoryType
    <2>5. FlagType
      BY DEF Init, FlagType
    <2>6. QED
      BY <2>1, <2>2, <2>3, <2>4, <2>5 DEF TypeOK
  <1>2. CallInv /\ LoginInv
    BY DEF Init, CallInv, LoginInv, worthRetryingIndividually
  <1>3. NoPasswordTwice /\ RotationIsSeamless /\ WrongPasswordCostsOneLogin
    BY DEF Init, NoPasswordTwice, RotationIsSeamless, WrongPasswordCostsOneLogin
  <1>4. CountInv
    BY DEF Init, CountInv, Counted, HTTPErrors, Reloaded, Outcomes, Attempts, Reloads
  <1>5. QED
    BY <1>1, <1>2, <1>3, <1>4 DEF IInv

\* What comes back is an answer, and a rejection only if the password is wrong.
LEMMA PossibleAnswers ==
  ASSUME NEW pw, NEW a \in Possible(pw)
  PROVE  /\ a \in Answers /\ OutcomeOf(a) \in Outcomes
         /\ a = "unauthorized" => pw # accepts
         /\ worthRetryingIndividually(a) => pw = accepts
  BY DEF Possible, Answers, OutcomeOf, Outcomes, worthRetryingIndividually

\* Every variable keeps its type.
LEMMA TypeStep ==
  ASSUME IInv, [Next]_vars
  PROVE  TypeOK'
  <1> USE DEF IInv, TypeOK
  <1>1. CASE StartPoll
    <2>1. SecretType'
      BY <1>1 DEF StartPoll, Call, Send, environment, SecretType
    <2>2. CallType'
      BY <1>1 DEF StartPoll, Call, Send, SecretType, CallType
    <2>3. CounterType'
      BY <1>1 DEF StartPoll, Call, Send, counters, CounterType, attemptFor, Attempts, Reloads
    <2>4. HistoryType'
      BY <1>1 DEF StartPoll, Call, Send, SecretType, CallType, HistoryType
    <2>5. FlagType'
      BY <1>1 DEF StartPoll, Call, Send, environment, FlagType
    <2>6. QED
      BY <2>1, <2>2, <2>3, <2>4, <2>5
  <1>2. CASE RetryIndividually
    <2>1. SecretType'
      BY <1>2 DEF RetryIndividually, Call, Send, environment, SecretType
    <2>2. CallType'
      BY <1>2 DEF RetryIndividually, Call, Send, SecretType, CallType
    <2>3. CounterType'
      BY <1>2 DEF RetryIndividually, Call, Send, counters, CounterType, attemptFor,
         Attempts, Reloads
    <2>4. HistoryType'
      BY <1>2 DEF RetryIndividually, Call, Send, SecretType, CallType, HistoryType
    <2>5. FlagType'
      BY <1>2 DEF RetryIndividually, Call, Send, environment, FlagType
    <2>6. QED
      BY <2>1, <2>2, <2>3, <2>4, <2>5
  <1>3. CASE AskNext
    <2>1. SecretType'
      BY <1>3 DEF AskNext, Call, Send, environment, SecretType
    <2>2. CallType'
      BY <1>3 DEF AskNext, Call, Send, SecretType, CallType
    <2>3. CounterType'
      BY <1>3 DEF AskNext, Call, Send, counters, CounterType, attemptFor, Attempts, Reloads
    <2>4. HistoryType'
      BY <1>3 DEF AskNext, Call, Send, SecretType, CallType, HistoryType
    <2>5. FlagType'
      BY <1>3 DEF AskNext, Call, Send, environment, FlagType
    <2>6. QED
      BY <2>1, <2>2, <2>3, <2>4, <2>5
  <1>4. CASE EndPoll
    <2>1. SecretType'
      BY <1>4 DEF EndPoll, environment, SecretType
    <2>2. CallType'
      BY <1>4 DEF EndPoll, SecretType, CallType
    <2>3. CounterType'
      BY <1>4 DEF EndPoll, counters, CounterType, attemptFor, Attempts, Reloads
    <2>4. HistoryType'
      BY <1>4 DEF EndPoll, SecretType, CallType, HistoryType
    <2>5. FlagType'
      BY <1>4 DEF EndPoll, environment, FlagType
    <2>6. QED
      BY <2>1, <2>2, <2>3, <2>4, <2>5
  <1>5. CASE Respond
    <2>1. SecretType'
      BY <1>5 DEF Respond, environment, SecretType
    <2>2. CallType'
      BY <1>5, PossibleAnswers DEF Respond, SecretType, CallType
    <2>3. CounterType'
      BY <1>5, PossibleAnswers DEF Respond, counters, CounterType, attemptFor, Attempts, Reloads
    <2>4. HistoryType'
      BY <1>5 DEF Respond, CallInv, SecretType, CallType, HistoryType
    <2>5. FlagType'
      BY <1>5 DEF Respond, environment, FlagType
    <2>6. QED
      BY <2>1, <2>2, <2>3, <2>4, <2>5
  <1>6. CASE RetryAfterRotation
    <2>1. SecretType'
      BY <1>6 DEF RetryAfterRotation, Send, WorthRetrying, ReloadedPassword, ReloadFinds,
         environment, SecretType
    <2>2. CallType'
      BY <1>6 DEF RetryAfterRotation, Send, WorthRetrying, ReloadedPassword, ReloadFinds,
         SecretType, CallType
    <2>3. CounterType'
      BY <1>6 DEF RetryAfterRotation, Send, WorthRetrying, ReloadedPassword, ReloadFinds,
         counters, CounterType, attemptFor, Attempts, Reloads
    <2>4. HistoryType'
      BY <1>6 DEF RetryAfterRotation, Send, WorthRetrying, ReloadedPassword, ReloadFinds,
         SecretType, CallType, HistoryType
    <2>5. FlagType'
      BY <1>6 DEF RetryAfterRotation, Send, environment, FlagType
    <2>6. QED
      BY <2>1, <2>2, <2>3, <2>4, <2>5
  <1>7. CASE ChangeAccount
    <2>1. SecretType'
      BY <1>7 DEF ChangeAccount, Changed, environment, SecretType
    <2>2. CallType'
      BY <1>7 DEF ChangeAccount, Changed, SecretType, CallType
    <2>3. CounterType'
      BY <1>7 DEF ChangeAccount, Changed, counters, CounterType, attemptFor, Attempts, Reloads
    <2>4. HistoryType'
      BY <1>7 DEF ChangeAccount, Changed, SecretType, CallType, HistoryType
    <2>5. FlagType'
      BY <1>7 DEF ChangeAccount, Changed, environment, FlagType
    <2>6. QED
      BY <2>1, <2>2, <2>3, <2>4, <2>5
  <1>8. CASE ChangeFile
    <2>1. SecretType'
      BY <1>8 DEF ChangeFile, Changed, environment, SecretType
    <2>2. CallType'
      BY <1>8 DEF ChangeFile, Changed, SecretType, CallType
    <2>3. CounterType'
      BY <1>8 DEF ChangeFile, Changed, counters, CounterType, attemptFor, Attempts, Reloads
    <2>4. HistoryType'
      BY <1>8 DEF ChangeFile, Changed, SecretType, CallType, HistoryType
    <2>5. FlagType'
      BY <1>8 DEF ChangeFile, Changed, environment, FlagType
    <2>6. QED
      BY <2>1, <2>2, <2>3, <2>4, <2>5
  <1>9. CASE UNCHANGED vars
    BY <1>9 DEF vars, environment, counters, SecretType, CallType, CounterType,
       HistoryType, FlagType
  <1>10. QED
    BY <1>1, <1>2, <1>3, <1>4, <1>5, <1>6, <1>7, <1>8, <1>9 DEF Next

\* The bookkeeping of a call is right.
LEMMA CallStep ==
  ASSUME IInv, [Next]_vars
  PROVE  CallInv'
  <1> USE DEF IInv, environment, counters, TypeOK, SecretType, CallType, HistoryType, CallInv
  <1>1. CASE StartPoll
    BY <1>1 DEF StartPoll, Call, Send
  <1>2. CASE RetryIndividually
    BY <1>2 DEF RetryIndividually, Call, Send
  <1>3. CASE AskNext
    BY <1>3 DEF AskNext, Call, Send
  <1>4. CASE EndPoll
    BY <1>4 DEF EndPoll
  <1>5. CASE Respond
    BY <1>5, PossibleAnswers DEF Respond
  <1>6. CASE RetryAfterRotation
    BY <1>6 DEF RetryAfterRotation, Send, WorthRetrying, ReloadedPassword, ReloadFinds
  <1>7. CASE ChangeAccount
    BY <1>7 DEF ChangeAccount, Changed
  <1>8. CASE ChangeFile
    BY <1>8 DEF ChangeFile, Changed
  <1>9. CASE UNCHANGED vars
    BY <1>9 DEF vars
  <1>10. QED
    BY <1>1, <1>2, <1>3, <1>4, <1>5, <1>6, <1>7, <1>8, <1>9 DEF Next

\* So is that of a poll.
LEMMA LoginStep ==
  ASSUME IInv, [Next]_vars
  PROVE  LoginInv'
  <1> USE DEF IInv, environment, counters, TypeOK, SecretType, CallType, HistoryType,
     CallInv, LoginInv, worthRetryingIndividually
  <1>1. CASE StartPoll
    <2>1. pc' = "request" /\ ~second' /\ left' = left /\ callCalm' /\ logins' = 0
      BY <1>1 DEF StartPoll, Call, Send
    <2>2. outdated' <=> fromFile' /\ file' \notin {password', NoSecret}
      BY <1>1 DEF StartPoll, environment
    <2>3. left = 0
      BY <1>1 DEF StartPoll, CallInv
    <2>4. QED
      BY <2>1, <2>2, <2>3 DEF LoginInv
  <1>2. CASE RetryIndividually
    BY <1>2 DEF RetryIndividually, Call, Send
  <1>3. CASE AskNext
    BY <1>3 DEF AskNext, Call, Send
  <1>4. CASE EndPoll
    BY <1>4 DEF EndPoll
  <1>5. CASE Respond
    BY <1>5, PossibleAnswers DEF Respond
  <1>6. CASE RetryAfterRotation
    BY <1>6 DEF RetryAfterRotation, Send, WorthRetrying, ReloadedPassword, ReloadFinds
  <1>7. CASE ChangeAccount
    BY <1>7 DEF ChangeAccount, Changed
  <1>8. CASE ChangeFile
    BY <1>8 DEF ChangeFile, Changed
  <1>9. CASE UNCHANGED vars
    BY <1>9 DEF vars
  <1>10. QED
    BY <1>1, <1>2, <1>3, <1>4, <1>5, <1>6, <1>7, <1>8, <1>9 DEF Next

\* The second request carries a new password.
LEMMA TwiceStep ==
  ASSUME IInv, [Next]_vars
  PROVE  NoPasswordTwice'
  <1> USE DEF IInv, environment, counters, TypeOK, SecretType, CallType, HistoryType,
     CallInv, NoPasswordTwice
  <1>1. CASE StartPoll
    BY <1>1 DEF StartPoll, Call, Send
  <1>2. CASE RetryIndividually
    BY <1>2 DEF RetryIndividually, Call, Send
  <1>3. CASE AskNext
    BY <1>3 DEF AskNext, Call, Send
  <1>4. CASE EndPoll
    BY <1>4 DEF EndPoll
  <1>5. CASE Respond
    BY <1>5 DEF Respond
  <1>6. CASE RetryAfterRotation
    BY <1>6 DEF RetryAfterRotation, Send, WorthRetrying, ReloadedPassword, ReloadFinds
  <1>7. CASE ChangeAccount
    BY <1>7 DEF ChangeAccount, Changed
  <1>8. CASE ChangeFile
    BY <1>8 DEF ChangeFile, Changed
  <1>9. CASE UNCHANGED vars
    BY <1>9 DEF vars
  <1>10. QED
    BY <1>1, <1>2, <1>3, <1>4, <1>5, <1>6, <1>7, <1>8, <1>9 DEF Next

\* The password in the file has been tried when a call ends in a rejection.
LEMMA SeamlessStep ==
  ASSUME IInv, [Next]_vars
  PROVE  RotationIsSeamless'
  <1> USE DEF IInv, environment, counters, TypeOK, SecretType, CallType, HistoryType,
     CallInv, RotationIsSeamless
  <1>1. CASE StartPoll
    BY <1>1 DEF StartPoll, Call, Send
  <1>2. CASE RetryIndividually
    BY <1>2 DEF RetryIndividually, Call, Send
  <1>3. CASE AskNext
    BY <1>3 DEF AskNext, Call, Send
  <1>4. CASE EndPoll
    BY <1>4 DEF EndPoll
  <1>5. CASE Respond
    BY <1>5, PossibleAnswers DEF Respond
  <1>6. CASE RetryAfterRotation
    BY <1>6 DEF RetryAfterRotation, Send, WorthRetrying, ReloadedPassword, ReloadFinds
  <1>7. CASE ChangeAccount
    BY <1>7 DEF ChangeAccount, Changed
  <1>8. CASE ChangeFile
    BY <1>8 DEF ChangeFile, Changed
  <1>9. CASE UNCHANGED vars
    BY <1>9 DEF vars
  <1>10. QED
    BY <1>1, <1>2, <1>3, <1>4, <1>5, <1>6, <1>7, <1>8, <1>9 DEF Next

\* A second failed login takes a second password.
LEMMA OneLoginStep ==
  ASSUME IInv, [Next]_vars
  PROVE  WrongPasswordCostsOneLogin'
  <1> USE DEF IInv, environment, counters, TypeOK, SecretType, CallType, HistoryType,
     CallInv, LoginInv, WrongPasswordCostsOneLogin
  <1>1. CASE StartPoll
    BY <1>1 DEF StartPoll, Call, Send
  <1>2. CASE RetryIndividually
    BY <1>2 DEF RetryIndividually, Call, Send
  <1>3. CASE AskNext
    BY <1>3 DEF AskNext, Call, Send
  <1>4. CASE EndPoll
    BY <1>4 DEF EndPoll
  <1>5. CASE Respond
    BY <1>5, PossibleAnswers DEF Respond
  <1>6. CASE RetryAfterRotation
    BY <1>6 DEF RetryAfterRotation, Send, WorthRetrying, ReloadedPassword, ReloadFinds
  <1>7. CASE ChangeAccount
    BY <1>7 DEF ChangeAccount, Changed
  <1>8. CASE ChangeFile
    BY <1>8 DEF ChangeFile, Changed
  <1>9. CASE UNCHANGED vars
    BY <1>9 DEF vars
  <1>10. QED
    BY <1>1, <1>2, <1>3, <1>4, <1>5, <1>6, <1>7, <1>8, <1>9 DEF Next

-----------------------------------------------------------------------------
\* The totals are numbers.
LEMMA TotalsType ==
  ASSUME CounterType
  PROVE  /\ \A t \in Attempts : Counted(t) \in Nat
         /\ HTTPErrors \in Nat /\ Reloaded \in Nat /\ reloads["rotated"] \in Nat
  <1>1. \A o \in Outcomes, t \in Attempts : requests[<<o, t>>] \in Nat
    BY DEF CounterType
  <1>2. \A r \in Reloads : reloads[r] \in Nat
    BY DEF CounterType
  <1>3. QED
    BY <1>1, <1>2 DEF Counted, HTTPErrors, Reloaded, Outcomes, Attempts, Reloads

\* One more request of an attempt is one more in that attempt's total alone.
LEMMA OneMoreCounted ==
  ASSUME CounterType, NEW o \in Outcomes, NEW t \in Attempts,
         requests' = [requests EXCEPT ![<<o, t>>] = @ + 1]
  PROVE  /\ Counted("batch")' = Counted("batch") + (IF t = "batch" THEN 1 ELSE 0)
         /\ Counted("retry")' = Counted("retry") + (IF t = "retry" THEN 1 ELSE 0)
         /\ HTTPErrors' = HTTPErrors + (IF o = "http_error" THEN 1 ELSE 0)
  <1>1. \A p \in Outcomes, u \in Attempts : requests[<<p, u>>] \in Nat
    BY DEF CounterType
  <1>2. \A p \in Outcomes, u \in Attempts :
          requests'[<<p, u>>] = requests[<<p, u>>] + (IF p = o /\ u = t THEN 1 ELSE 0)
    <2>1. SUFFICES ASSUME NEW p \in Outcomes, NEW u \in Attempts
                   PROVE  requests'[<<p, u>>] = requests[<<p, u>>] + (IF p = o /\ u = t THEN 1 ELSE 0)
      OBVIOUS
    <2>2. DOMAIN requests = Outcomes \X Attempts
      BY DEF CounterType
    <2>3. CASE p = o /\ u = t
      BY <2>2, <2>3
    <2>4. CASE ~(p = o /\ u = t)
      <3>1. <<p, u>> # <<o, t>>
        BY <2>4
      <3>2. requests'[<<p, u>>] = requests[<<p, u>>]
        BY <2>2, <3>1
      <3>3. QED
        BY <1>1, <2>4, <3>2
    <2>5. QED
      BY <2>3, <2>4
  <1>3. t \in {"batch", "retry"} /\ o \in {"success", "eapi_error", "http_error", "transport_error"}
    BY DEF Attempts, Outcomes
  <1> USE DEF Attempts, Outcomes
  <1>4. Counted("batch")' = Counted("batch") + (IF t = "batch" THEN 1 ELSE 0)
    BY <1>1, <1>2, <1>3 DEF Counted
  <1>5. Counted("retry")' = Counted("retry") + (IF t = "retry" THEN 1 ELSE 0)
    BY <1>1, <1>2, <1>3 DEF Counted
  <1>6. HTTPErrors' = HTTPErrors + (IF o = "http_error" THEN 1 ELSE 0)
    BY <1>1, <1>2, <1>3 DEF HTTPErrors
  <1>7. QED
    BY <1>4, <1>5, <1>6

\* A request that goes out adds to nothing but those that went out.
LEMMA SentNotCounted ==
  ASSUME TypeOK, CallInv, CountInv, pc \in {"idle", "answered"}, NEW n \in Nat \ {0}, Call(n),
         UNCHANGED <<requests, reloads, hostIsURL>>,
         polls' \in Nat, polls' >= polls, n = 1 \/ polls' > polls
  PROVE  CountInv'
  <1>1. /\ Counted("batch") \in Nat /\ Counted("retry") \in Nat /\ HTTPErrors \in Nat
        /\ Reloaded \in Nat /\ reloads["rotated"] \in Nat /\ polls \in Nat /\ made \in Nat
    BY TotalsType DEF TypeOK, HistoryType, Attempts
  <1>2. /\ Counted("batch")' = Counted("batch") /\ Counted("retry")' = Counted("retry")
        /\ HTTPErrors' = HTTPErrors /\ Reloaded' = Reloaded
    BY DEF Counted, HTTPErrors, Reloaded
  <1>3. /\ pc' = "request" /\ size' = n /\ hostIsURL' = hostIsURL
        /\ made' = IF hostIsURL THEN made + 1 ELSE made
    BY DEF Call, Send
  <1>4. QED
    BY <1>1, <1>2, <1>3 DEF CountInv

\* Every request is counted when it ends, and every rejection before the reload.
LEMMA CountStep ==
  ASSUME IInv, [Next]_vars
  PROVE  CountInv'
  <1>1. /\ Counted("batch") \in Nat /\ Counted("retry") \in Nat /\ HTTPErrors \in Nat
        /\ Reloaded \in Nat /\ reloads["rotated"] \in Nat /\ polls \in Nat /\ made \in Nat
        /\ TypeOK /\ CallInv /\ CountInv
    BY TotalsType DEF IInv, TypeOK, HistoryType, Attempts
  <1>2. CASE StartPoll
    <2>1. PICK n \in 1 .. MaxCommands : Call(n)
      BY <1>2 DEF StartPoll
    <2>2. QED
      BY <1>1, <1>2, <2>1, SentNotCounted DEF StartPoll, counters, environment
  <1>3. CASE RetryIndividually
    BY <1>1, <1>3, SentNotCounted DEF RetryIndividually, counters, environment
  <1>4. CASE AskNext
    BY <1>1, <1>4, SentNotCounted DEF AskNext, counters, environment
  <1>5. CASE EndPoll
    <2>1. /\ Counted("batch")' = Counted("batch") /\ Counted("retry")' = Counted("retry")
          /\ HTTPErrors' = HTTPErrors /\ Reloaded' = Reloaded
          /\ UNCHANGED <<reloads, hostIsURL, polls, made>>
      BY <1>5 DEF EndPoll, counters, environment, Counted, HTTPErrors, Reloaded
    <2>2. pc = "answered" /\ pc' = "idle"
      BY <1>5 DEF EndPoll
    <2>3. QED
      BY <1>1, <2>1, <2>2 DEF CountInv
  <1>6. CASE Respond
    <2>1. PICK a \in Possible(sent) :
            /\ requests' = [requests EXCEPT ![<<OutcomeOf(a), attemptFor(size)>>] = @ + 1]
            /\ IF a = "unauthorized" THEN pc' \in {"answered", "rejected"} ELSE pc' = "answered"
      BY <1>6 DEF Respond
    <2>2. OutcomeOf(a) \in Outcomes /\ (a = "unauthorized" => OutcomeOf(a) = "http_error")
      BY PossibleAnswers DEF OutcomeOf
    <2>3. attemptFor(size) \in Attempts /\ (attemptFor(size) = "batch" <=> size # 1)
      BY DEF attemptFor, Attempts
    <2>4. /\ Counted("batch")' = Counted("batch") + (IF size # 1 THEN 1 ELSE 0)
          /\ Counted("retry")' = Counted("retry") + (IF size = 1 THEN 1 ELSE 0)
          /\ HTTPErrors' = HTTPErrors + (IF OutcomeOf(a) = "http_error" THEN 1 ELSE 0)
      <3>1. CounterType
        BY <1>1 DEF TypeOK
      <3>2. attemptFor(size) = "retry" <=> size = 1
        BY DEF attemptFor
      <3>3. QED
        BY <2>1, <2>2, <2>3, <3>1, <3>2, OneMoreCounted
    <2>5. Reloaded' = Reloaded /\ UNCHANGED <<reloads, hostIsURL, polls, made, size>> /\ pc = "request"
      BY <1>6 DEF Respond, environment, Reloaded
    <2>6. hostIsURL' =>
            made' = Counted("batch")' + Counted("retry")' + (IF pc' = "request" THEN 1 ELSE 0)
      BY <1>1, <2>1, <2>4, <2>5 DEF CountInv
    <2>7. Counted("batch")' + (IF pc' = "request" /\ size' # 1 THEN 1 ELSE 0)
            <= polls' + reloads'["rotated"]
      BY <1>1, <2>1, <2>4, <2>5 DEF CountInv
    <2>8. Reloaded' + (IF pc' = "rejected" THEN 1 ELSE 0) <= HTTPErrors'
      BY <1>1, <2>1, <2>2, <2>4, <2>5 DEF CountInv
    <2>9. QED
      BY <2>6, <2>7, <2>8 DEF CountInv
  <1>7. CASE RetryAfterRotation
    <2>1. /\ Counted("batch")' = Counted("batch") /\ Counted("retry")' = Counted("retry")
          /\ HTTPErrors' = HTTPErrors /\ UNCHANGED <<hostIsURL, polls, size>> /\ pc = "rejected"
      BY <1>7 DEF RetryAfterRotation, environment, Counted, HTTPErrors
    <2>2. reloads' = [reloads EXCEPT ![ReloadFinds] = @ + 1] /\ ReloadFinds \in Reloads
      BY <1>7 DEF RetryAfterRotation, ReloadFinds, Reloads
    <2>3. /\ Reloaded' = Reloaded + 1
          /\ reloads'["rotated"] = reloads["rotated"] + (IF WorthRetrying THEN 1 ELSE 0)
      <3>1. DOMAIN reloads = Reloads /\ \A r \in Reloads : reloads[r] \in Nat
        BY <1>1 DEF TypeOK, CounterType
      <3>2. \A r \in Reloads : reloads'[r] = reloads[r] + (IF r = ReloadFinds THEN 1 ELSE 0)
        BY <2>2, <3>1
      <3>3. QED
        BY <2>2, <3>1, <3>2 DEF Reloaded, Reloads, WorthRetrying
    <2>4. IF WorthRetrying
          THEN pc' = "request" /\ made' = IF hostIsURL THEN made + 1 ELSE made
          ELSE pc' = "answered" /\ made' = made
      BY <1>7 DEF RetryAfterRotation, Send
    <2>5. hostIsURL \in BOOLEAN
      BY <1>1 DEF TypeOK, FlagType
    <2>6. CASE WorthRetrying
      BY <1>1, <2>1, <2>3, <2>4, <2>5, <2>6 DEF CountInv
    <2>7. CASE ~WorthRetrying
      BY <1>1, <2>1, <2>3, <2>4, <2>5, <2>7 DEF CountInv
    <2>8. QED
      BY <2>6, <2>7
  <1>8. CASE ChangeAccount \/ ChangeFile \/ UNCHANGED vars
    <2>1. UNCHANGED <<requests, reloads, hostIsURL, polls, made, size, pc>>
      BY <1>8 DEF ChangeAccount, ChangeFile, Changed, vars, environment, counters
    <2>2. QED
      BY <1>1, <2>1 DEF CountInv, Counted, HTTPErrors, Reloaded
  <1>9. QED
    BY <1>2, <1>3, <1>4, <1>5, <1>6, <1>7, <1>8 DEF Next

THEOREM Invariance == Spec => []IInv
  <1>1. IInv /\ [Next]_vars => IInv'
    BY TypeStep, CallStep, LoginStep, TwiceStep, SeamlessStep, OneLoginStep, CountStep
    DEF IInv
  <1>2. QED
    BY <1>1, InitIInv, PTL DEF Spec

\* Type correctness: the password in use is always a password, whatever becomes
\* of its file.
THEOREM TypeCorrect == Spec => []TypeOK
  <1>1. IInv => TypeOK
    BY DEF IInv
  <1>2. QED
    BY <1>1, Invariance, PTL

\* retryAfterRotation never repeats a rejected login.
THEOREM NeverTheSamePassword == Spec => []NoPasswordTwice
  <1>1. IInv => NoPasswordTwice
    BY DEF IInv
  <1>2. QED
    BY <1>1, Invariance, PTL

\* A delivered rotation is taken up within the call that meets it.
THEOREM RotationsAreSeamless == Spec => []RotationIsSeamless
  <1>1. IInv => RotationIsSeamless
    BY DEF IInv
  <1>2. QED
    BY <1>1, Invariance, PTL

\* A wrong password is tried once per poll, however many commands are due.
THEOREM OneLoginPerPoll == Spec => []WrongPasswordCostsOneLogin
  <1>1. IInv => WrongPasswordCostsOneLogin
    BY DEF IInv
  <1>2. QED
    BY <1>1, Invariance, PTL

\* What a scrape reads off the counters adds up, after any number of rotations.
THEOREM CountersExplained == Spec => []CountersAddUp
  <1>1. IInv => CountersAddUp
    <2>1. SUFFICES ASSUME IInv
                   PROVE  CountersAddUp
      OBVIOUS
    <2>2. /\ Counted("batch") \in Nat /\ Counted("retry") \in Nat /\ HTTPErrors \in Nat
          /\ Reloaded \in Nat /\ reloads["rotated"] \in Nat /\ polls \in Nat /\ made \in Nat
      BY <2>1, TotalsType DEF IInv, TypeOK, HistoryType, Attempts
    <2>3. QED
      BY <2>1, <2>2 DEF IInv, CountInv, CountersAddUp
  <1>2. QED
    BY <1>1, Invariance, PTL
=============================================================================
