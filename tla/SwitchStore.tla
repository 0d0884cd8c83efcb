----------------------------- MODULE SwitchStore -----------------------------
(***************************************************************************)
(* What one SwitchData promises the goroutines that read it under its read *)
(* lock (the scrape handler, the probes, /status), with no word of how a   *)
(* poll is carried out.                                                    *)
(*                                                                         *)
(* A poll, begun at some tick, ends in one step: some commands land        *)
(* together, or none does and every reading stays as it was.  The stamp a  *)
(* reading carries is the tick its poll began at; stamps only grow, and no *)
(* reading is older than its stamp says.                                   *)
(***************************************************************************)
EXTENDS Integers

CONSTANTS Commands,   \* the commands collected from the switch
          Errors,     \* what can be wrong with a command's answer
          NoError     \* Go's nil error

VARIABLES
  clock,                \* wall-clock time
  data,                 \* when the switch produced the reading held for c
  CommandLastSuccess,   \* the stamp of that reading
  CommandErrors,        \* the failure recorded for c, or NoError
  ScrapeErr,            \* the failure of the poll as a whole, or NoError
  LastSuccess,          \* the stamp of the last poll that landed something
  LastAttempt           \* when a poll last finished

published == <<data, CommandLastSuccess, CommandErrors, ScrapeErr, LastSuccess>>
vars == <<clock, published, LastAttempt>>

Never == 0

Init ==
  /\ clock = 1
  /\ data = [c \in Commands |-> Never]
  /\ CommandLastSuccess = [c \in Commands |-> Never]
  /\ CommandErrors = [c \in Commands |-> NoError]
  /\ ScrapeErr = NoError
  /\ LastSuccess = Never
  /\ LastAttempt = Never

TimePasses ==
  /\ clock' > clock
  /\ UNCHANGED <<published, LastAttempt>>

Attempted ==
  /\ LastAttempt' = clock
  /\ UNCHANGED <<clock, published>>

\* The commands of landed succeed together under one new stamp; those of
\* failed stay as they were but are reported; no other record is touched.
Land(landed, failed, stamp) ==
  /\ landed # {} /\ landed \cap failed = {}
  /\ LastSuccess < stamp /\ stamp <= clock
  /\ data' \in [Commands -> Never .. clock]
  /\ \A c \in Commands : IF c \in landed THEN stamp <= data'[c]
                                           ELSE data'[c] = data[c]
  /\ CommandLastSuccess' =
        [c \in Commands |-> IF c \in landed THEN stamp ELSE CommandLastSuccess[c]]
  /\ CommandErrors' \in [Commands -> Errors \cup {NoError}]
  /\ \A c \in Commands :
        /\ c \in landed => CommandErrors'[c] = NoError
        /\ c \in failed => CommandErrors'[c] # NoError
        /\ c \notin landed \cup failed => CommandErrors'[c] = CommandErrors[c]
  /\ ScrapeErr' = NoError
  /\ LastSuccess' = stamp
  /\ UNCHANGED <<clock, LastAttempt>>

\* Nothing landed.  Only the commands that were asked are reported failed: the
\* records of the others are dropped.
Fail(asked, err) ==
  /\ asked # {}
  /\ ScrapeErr' = err
  /\ CommandErrors' = [c \in Commands |-> IF c \in asked THEN err ELSE NoError]
  /\ UNCHANGED <<clock, data, CommandLastSuccess, LastSuccess, LastAttempt>>

Next ==
  \/ TimePasses
  \/ Attempted
  \/ \E landed, failed \in SUBSET Commands, stamp \in 1 .. clock :
        Land(landed, failed, stamp)
  \/ \E asked \in SUBSET Commands, err \in Errors : Fail(asked, err)

Spec == Init /\ [][Next]_vars
=============================================================================
