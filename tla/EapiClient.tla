------------------------------ MODULE EapiClient ------------------------------
(***************************************************************************)
(* The eAPI client of one switch (eapi.Client) as one poller uses it, its  *)
(* password (secret.Credential) and its counters (eapi.Stats), while the   *)
(* password is rotated: the switch and the secret file change under it, in *)
(* any order and at any time.                                              *)
(*                                                                         *)
(* Poller leaves open how a request fares.  Here that is decided: a wrong  *)
(* password is refused with 401, the client reads the file again and, if   *)
(* the secret is another one, tries once more.                             *)
(***************************************************************************)
EXTENDS Integers

CONSTANTS
  Passwords,      \* the secrets there are
  MaxCommands,    \* how many commands are due at most
  MaxPolls,       \* the bound on polls, for TLC
  MaxChanges      \* the bound on changes of a secret, for TLC

ASSUME ClientAssumption ==
  MaxCommands \in Nat \ {0} /\ MaxPolls \in Nat /\ MaxChanges \in Nat

\* What a secret file holds when it is missing or empty.
NoSecret == "none"

ASSUME SecretAssumption == NoSecret \notin Passwords

\* How a request can end: 200 with as many results as commands, or another
\* number, or an eAPI error; 401; another status; no answer that can be read;
\* or, if the configured host is no URL, before it was sent.
Answers == {"results", "short", "refused", "unauthorized", "turned_away",
            "unreadable", "unsent"}

Outcomes == {"success", "eapi_error", "http_error", "transport_error"}
Attempts == {"batch", "retry"}
Reloads == {"rotated", "unchanged", "failed"}

VARIABLES
  \* the environment
  file,           \* what the secret file holds
  accepts,        \* the password the switch accepts
  hostIsURL,      \* whether a request can be made at all
  \* the credential
  fromFile,       \* the password comes from the file; otherwise it is inline
  password,
  \* the poll
  pc,             \* "idle", "request", "rejected" or "answered"
  left,           \* commands to be asked one at a time, after a refused batch
  size,           \* how many commands the call in progress asks
  second,         \* its first request was rejected, and this is its second
  sent,           \* the password of the last request
  answer,         \* and how it ended
  \* the counters a scrape renders
  requests, reloads,
  \* history
  polls,          \* polls begun
  made,           \* requests that went out
  rejected,       \* the passwords rejected in this call
  logins,         \* the failed logins of this poll
  callCalm, pollCalm,   \* no secret changed since the call, or the poll, began
  outdated,       \* when the poll began the file held another password
  changes         \* changes of a secret

environment == <<file, accepts, hostIsURL, fromFile>>
counters == <<requests, reloads>>
vars == <<environment, password, pc, left, size, second, sent, answer, counters,
          polls, made, rejected, logins, callCalm, pollCalm, outdated, changes>>

Init ==
  /\ accepts \in Passwords /\ hostIsURL \in BOOLEAN /\ fromFile \in BOOLEAN
  /\ password \in Passwords
  /\ file = IF fromFile THEN password ELSE NoSecret
  /\ pc = "idle" /\ left = 0 /\ size = 0 /\ second = FALSE
  /\ sent = NoSecret /\ answer = "unreadable"
  /\ requests = [key \in Outcomes \X Attempts |-> 0]
  /\ reloads = [r \in Reloads |-> 0]
  /\ polls = 0 /\ made = 0 /\ rejected = {} /\ logins = 0
  /\ callCalm = TRUE /\ pollCalm = TRUE /\ outdated = FALSE /\ changes = 0

-----------------------------------------------------------------------------
(* A request                                                               *)

\* Not the code: a single command is a batch too.
attemptForAny(n) == IF n = 0 THEN "retry" ELSE "batch"

\* attemptFor: a call that asks for one command passes for a retry.
attemptFor(n) == IF n = 1 THEN "retry" ELSE "batch"

\* Not the code: a 401 is filed as an error of a command.
OutcomeOfRejected(a) ==
  CASE a \in {"results", "short", "unsent"} -> "success"
    [] a \in {"refused", "unauthorized"} -> "eapi_error"
    [] a = "turned_away" -> "http_error"
    [] a = "unreadable" -> "transport_error"

\* The outcome attempt counts.  It is "success" until something sets it.
OutcomeOf(a) ==
  CASE a \in {"results", "short", "unsent"} -> "success"
    [] a = "refused" -> "eapi_error"
    [] a \in {"unauthorized", "turned_away"} -> "http_error"
    [] a = "unreadable" -> "transport_error"

\* The answers there may be to a request with the password pw.
Possible(pw) ==
  IF ~hostIsURL THEN {"unsent"}
  ELSE {"unreadable", "turned_away"}
       \cup IF pw = accepts THEN {"results", "short", "refused"} ELSE {"unauthorized"}

\* attempt, up to the request: it carries the password there is now.
Send(pw) ==
  /\ sent' = pw
  /\ pc' = "request"
  /\ made' = IF hostIsURL THEN made + 1 ELSE made

\* Run(n commands).
Call(n) ==
  /\ size' = n
  /\ second' = FALSE
  /\ rejected' = {}
  /\ callCalm' = TRUE
  /\ Send(password)

\* attempt, from the answer on: it is counted, whatever it is.  Run goes on
\* only after a first 401.
Respond ==
  /\ pc = "request"
  /\ \E a \in Possible(sent) :
       /\ answer' = a
       /\ requests' = [requests EXCEPT ![<<OutcomeOf(a), attemptFor(size)>>] = @ + 1]
       /\ IF a = "unauthorized"
          THEN /\ rejected' = rejected \cup {sent}
               /\ logins' = logins + 1
               /\ pc' = IF second THEN "answered" ELSE "rejected"
          ELSE /\ pc' = "answered"
               /\ UNCHANGED <<rejected, logins>>
  /\ UNCHANGED <<environment, password, left, size, second, sent, reloads, polls, made,
                 callCalm, pollCalm, outdated, changes>>

-----------------------------------------------------------------------------
(* Rotation                                                                *)

\* Credential.Reload: what it finds.  An inline password cannot change.
ReloadFinds ==
  IF ~fromFile THEN "unchanged"
  ELSE IF file = NoSecret THEN "failed"
  ELSE IF file = password THEN "unchanged" ELSE "rotated"

\* Not the code: any file that can be read is worth a second request.
RetryIfReadable == fromFile /\ file # NoSecret

\* retryAfterRotation: there is a second request if the secret is another one.
WorthRetrying == ReloadFinds = "rotated"

\* Not the code: the new secret is found but not taken over.
KeptPassword == password

\* Not the code: whatever is read is taken over.
UncheckedPassword == IF fromFile THEN file ELSE password

\* The password Reload leaves.
ReloadedPassword == IF ReloadFinds = "rotated" THEN file ELSE password

\* retryAfterRotation.
RetryAfterRotation ==
  /\ pc = "rejected"
  /\ reloads' = [reloads EXCEPT ![ReloadFinds] = @ + 1]
  /\ password' = ReloadedPassword
  /\ IF WorthRetrying
     THEN second' = TRUE /\ Send(password')
     ELSE pc' = "answered" /\ UNCHANGED <<second, sent, made>>
  /\ UNCHANGED <<environment, left, size, answer, requests, polls, rejected, logins,
                 callCalm, pollCalm, outdated, changes>>

-----------------------------------------------------------------------------
(* The poll                                                                *)

\* collect: n commands are due, and asked in one batch.
StartPoll ==
  /\ pc = "idle" /\ polls < MaxPolls
  /\ polls' = polls + 1
  /\ \E n \in 1 .. MaxCommands : Call(n)
  /\ logins' = 0
  /\ pollCalm' = TRUE
  /\ outdated' = (fromFile /\ file \notin {password, NoSecret})
  /\ UNCHANGED <<environment, password, left, answer, counters, changes>>

\* Not the code: a 401 passes for a problem of one command.
RetryAlways(a) == a # "results"

\* A CommandError or a wrong number of results.
worthRetryingIndividually(a) == a \in {"refused", "short"}

\* The call was the batch, and its commands are worth asking one at a time.
RetryIndividually ==
  /\ pc = "answered" /\ left = 0 /\ worthRetryingIndividually(answer)
  /\ left' = size
  /\ Call(1)
  /\ UNCHANGED <<environment, password, answer, counters, polls, logins, pollCalm,
                 outdated, changes>>

\* One of them is answered, well or not, and the next is asked.
AskNext ==
  /\ pc = "answered" /\ left > 1
  /\ left' = left - 1
  /\ Call(1)
  /\ UNCHANGED <<environment, password, answer, counters, polls, logins, pollCalm,
                 outdated, changes>>

\* The last answer of the poll, or one that ends it.
EndPoll ==
  /\ pc = "answered"
  /\ left = 1 \/ (left = 0 /\ ~worthRetryingIndividually(answer))
  /\ pc' = "idle"
  /\ left' = 0
  /\ UNCHANGED <<environment, password, size, second, sent, answer, counters, polls, made,
                 rejected, logins, callCalm, pollCalm, outdated, changes>>

-----------------------------------------------------------------------------
(* The environment                                                         *)

Changed ==
  /\ changes < MaxChanges
  /\ changes' = changes + 1
  /\ callCalm' = FALSE /\ pollCalm' = FALSE
  /\ UNCHANGED <<hostIsURL, fromFile, password, pc, left, size, second, sent, answer,
                 counters, polls, made, rejected, logins, outdated>>

\* The account gets another password.
ChangeAccount ==
  /\ \E pw \in Passwords \ {accepts} : accepts' = pw
  /\ UNCHANGED file
  /\ Changed

\* Another secret is delivered, or the file cannot be read for a while.
ChangeFile ==
  /\ fromFile
  /\ \E content \in (Passwords \cup {NoSecret}) \ {file} : file' = content
  /\ UNCHANGED accepts
  /\ Changed

-----------------------------------------------------------------------------
Next ==
  \/ StartPoll \/ RetryIndividually \/ AskNext \/ EndPoll
  \/ Respond \/ RetryAfterRotation
  \/ ChangeAccount \/ ChangeFile

Spec == Init /\ [][Next]_vars

-----------------------------------------------------------------------------
(* Correctness                                                             *)

SecretType ==
  file \in Passwords \cup {NoSecret} /\ accepts \in Passwords /\ password \in Passwords

CallType ==
  /\ pc \in {"idle", "request", "rejected", "answered"}
  /\ left \in 0 .. MaxCommands /\ size \in 0 .. MaxCommands
  /\ sent \in Passwords \cup {NoSecret} /\ answer \in Answers

CounterType ==
  /\ requests \in [Outcomes \X Attempts -> Nat]
  /\ reloads \in [Reloads -> Nat]

HistoryType ==
  /\ polls \in Nat /\ made \in Nat /\ logins \in Nat /\ changes \in Nat
  /\ rejected \in SUBSET Passwords

FlagType ==
  /\ hostIsURL \in BOOLEAN /\ fromFile \in BOOLEAN /\ second \in BOOLEAN
  /\ callCalm \in BOOLEAN /\ pollCalm \in BOOLEAN /\ outdated \in BOOLEAN

TypeOK == SecretType /\ CallType /\ CounterType /\ HistoryType /\ FlagType

\* The second request of a call is never a second failed login with the same
\* password, whatever happens to the secrets between the two.
NoPasswordTwice == pc = "request" /\ second => sent \notin rejected

\* A rotation costs no command: with the right password in the file, and no
\* change during the call, it does not end in a rejection.
RotationIsSeamless ==
  pc = "answered" /\ callCalm /\ fromFile /\ file = accepts => answer # "unauthorized"

\* A password that is wrong costs one failed login per poll, not one per command
\* due; if the file holds another one, that may cost a second.
WrongPasswordCostsOneLogin ==
  pollCalm => logins <= IF outdated THEN 2 ELSE 1

\* The requests counted as the attempt, and those that got an HTTP error.
Counted(attempt) ==
  requests[<<"success", attempt>>] + requests[<<"eapi_error", attempt>>]
  + requests[<<"http_error", attempt>>] + requests[<<"transport_error", attempt>>]
HTTPErrors == requests[<<"http_error", "batch">>] + requests[<<"http_error", "retry">>]
Reloaded == reloads["rotated"] + reloads["unchanged"] + reloads["failed"]

\* The counters explain each other: each request that went out is counted once,
\* when it ends; there is a batch per poll and one more per rotation, and a reload
\* for none but a counted rejection.
CountersAddUp ==
  /\ hostIsURL => made = Counted("batch") + Counted("retry") + (IF pc = "request" THEN 1 ELSE 0)
  /\ Counted("batch") <= polls + reloads["rotated"]
  /\ Reloaded <= HTTPErrors

-----------------------------------------------------------------------------
(* The inductive invariant behind them                                     *)

\* The request in flight carries the password there is, and the second one of a
\* call, without changes, the one in the file.
CallInv ==
  /\ IF pc = "idle" THEN left = 0 ELSE size > 0
  /\ pc \in {"request", "rejected"} => sent = password
  /\ pc = "request" /\ ~second => rejected = {}
  /\ pc = "rejected" => ~second /\ rejected = {sent} /\ answer = "unauthorized"
  /\ callCalm /\ pc = "rejected" => sent # accepts
  /\ callCalm /\ pc = "request" /\ second => fromFile /\ file = sent

\* Failed logins are had in the batch only: once commands are asked one at a
\* time, the password is known to be right.
LoginInv ==
  pollCalm =>
    /\ callCalm
    /\ left = 0 /\ ~second /\ pc \in {"request", "rejected"} =>
         /\ logins = IF pc = "request" THEN 0 ELSE 1
         /\ outdated <=> fromFile /\ file \notin {password, NoSecret}
    /\ pc = "request" /\ second => outdated /\ logins = 1
    /\ left > 0 \/ (pc = "answered" /\ worthRetryingIndividually(answer)) =>
         /\ pc \in {"request", "answered"} /\ ~(pc = "request" /\ second)
         /\ password = accepts
         /\ logins <= IF outdated THEN 1 ELSE 0

\* A request in flight and a rejection not yet followed up are owed to the counters.
CountInv ==
  /\ hostIsURL => made = Counted("batch") + Counted("retry") + (IF pc = "request" THEN 1 ELSE 0)
  /\ Counted("batch") + (IF pc = "request" /\ size # 1 THEN 1 ELSE 0)
       <= polls + reloads["rotated"]
  /\ Reloaded + (IF pc = "rejected" THEN 1 ELSE 0) <= HTTPErrors

IInv ==
  /\ TypeOK /\ CallInv /\ LoginInv /\ CountInv
  /\ NoPasswordTwice /\ RotationIsSeamless /\ WrongPasswordCostsOneLogin
=============================================================================
