---------------------------- MODULE Certificate ----------------------------
(***************************************************************************)
(* The certificate of the listener (listen.certificate): handshakes that   *)
(* are served concurrently from a pair of files that is renewed while the  *)
(* process runs.                                                           *)
(*                                                                         *)
(* A file is the number of times it was touched: at 2v it holds its half   *)
(* of pair v, in between it is being written and cannot be used.  Its size *)
(* and time of modification tell any two such numbers apart.               *)
(***************************************************************************)
EXTENDS Throttle

CONSTANTS
  Handshakes,    \* connections on which handshakes arrive, one at a time
  First,         \* the one of them in whose place the listener is built
  MaxRenewals    \* the bound on renewals, for TLC

ASSUME CertificateAssumption == First \in Handshakes /\ MaxRenewals \in Nat

NoPair == -1

VARIABLES
  certFile, keyFile,   \* the two files
  current,             \* the pair in memory
  stamp,               \* what the files were when it was stamped
  checked,             \* how long ago the files were last looked at
  handshake,           \* of every connection: the handshake and how far it is
  raced                \* history: a load was overtaken by a renewal

certVars == <<certFile, keyFile, current, stamp, checked, handshake, raced>>

Pairs == 0 .. MaxRenewals
Touches == 0 .. 2 * MaxRenewals
Whole(touches) == touches % 2 = 0
Stamps == [cert : Touches, key : Touches]
StampOf(pair) == [cert |-> 2 * pair, key |-> 2 * pair]

\* seen is what stat gave, found the pair that was read.
HandshakeStates ==
  [at    : {"idle", "timed", "due", "certSeen", "seen", "unseen",
            "load", "certRead", "keyRead", "certStamped", "stamped", "done"},
   lag   : Lags,
   seen  : Stamps,
   found : Pairs]

NoHandshake == [at |-> "idle", lag |-> 0, seen |-> StampOf(0), found |-> 0]

CertTypeOK ==
  /\ certFile \in Touches /\ keyFile \in Touches
  /\ current \in Pairs \cup {NoPair}
  /\ stamp \in Stamps
  /\ checked \in Ages
  /\ handshake \in [Handshakes -> HandshakeStates]
  /\ raced \in BOOLEAN

\* newCertificate is about to load the pair.
CertInit ==
  /\ certFile = 0 /\ keyFile = 0
  /\ current = NoPair
  /\ stamp = StampOf(0)
  /\ checked = 0
  /\ handshake = [h \in Handshakes |->
                    IF h = First THEN [NoHandshake EXCEPT !.at = "load"] ELSE NoHandshake]
  /\ raced = FALSE

Is(h, place) == handshake[h].at = place
Move(h, place) == handshake' = [handshake EXCEPT ![h].at = place]

\* get returns a certificate: the one it found in memory at first, or the one
\* that is there when it has loaded a pair.
Serve(h) == handshake' = [handshake EXCEPT ![h] = NoHandshake]

FilesUnchanged == UNCHANGED <<certFile, keyFile, raced>>
MemoryUnchanged == UNCHANGED <<current, stamp, checked>>

-----------------------------------------------------------------------------
(* A renewal: both files, in either order, each of them in two steps       *)

Lesser(a, b) == IF a < b THEN a ELSE b

\* A file of the next pair is begun when both files of this one are there.
MayTouch(file, other) ==
  file < 2 * MaxRenewals /\ file < 2 * (Lesser(file, other) \div 2 + 1)

RenewCert ==
  /\ MayTouch(certFile, keyFile)
  /\ certFile' = certFile + 1
  /\ raced' = (raced \/ \E h \in Handshakes : Is(h, "certRead") \/ Is(h, "keyRead"))
  /\ UNCHANGED <<keyFile, handshake>> /\ MemoryUnchanged

RenewKey ==
  /\ MayTouch(keyFile, certFile)
  /\ keyFile' = keyFile + 1
  /\ raced' = (raced \/ \E h \in Handshakes : Is(h, "keyRead") \/ Is(h, "certStamped"))
  /\ UNCHANGED <<certFile, handshake>> /\ MemoryUnchanged

-----------------------------------------------------------------------------
(* A handshake                                                             *)

\* GetCertificate reads the clock.  There is no listener before a pair is loaded,
\* and none at all if the load of newCertificate fails.
Begin(h) ==
  /\ Is(h, "idle") /\ current # NoPair
  /\ Move(h, "timed")
  /\ FilesUnchanged /\ MemoryUnchanged

\* Not the code: every handshake puts the next look off.
PutOff(h) == handshake[h].lag

\* A handshake that only serves what is there leaves the time of the last look.
CheckedOnceServed(h) == checked

\* Under the read lock: serve what is there, or go and look at the files.
CheckDue(h) ==
  /\ Is(h, "timed")
  /\ IF LongAgo(checked, handshake[h].lag)
     THEN Move(h, "due") /\ UNCHANGED checked
     ELSE Serve(h) /\ checked' = CheckedOnceServed(h)
  /\ FilesUnchanged /\ UNCHANGED <<current, stamp>>

\* stat of the one file and of the other.  It may find a file missing that is
\* being replaced; that ends a look.
See(h, from, to, failed, file, half) ==
  /\ Is(h, from)
  /\ \/ handshake' = [handshake EXCEPT ![h].at = to, ![h].seen[half] = file]
     \/ ~Whole(file) /\ (IF failed = "idle" THEN Serve(h) ELSE Move(h, failed))
  /\ FilesUnchanged /\ MemoryUnchanged

LookAtCert(h) == See(h, "due", "certSeen", "unseen", certFile, "cert")
LookAtKey(h) == See(h, "certSeen", "seen", "unseen", keyFile, "key")

\* Not the code: the new stamp is taken before the pair is loaded.
StampAtMark(h) == handshake[h].seen

\* The stamp is of the pair in memory until another is loaded.
StampOnceMarked(h) == stamp

\* Under the lock: the look counts from when the handshake read the clock.
Mark(h) ==
  /\ Is(h, "seen") \/ Is(h, "unseen")
  /\ checked' = handshake[h].lag
  /\ IF Is(h, "seen") /\ handshake[h].seen # stamp
     THEN /\ handshake' = [handshake EXCEPT ![h].at = "load", ![h].seen = StampOf(0)]
          /\ stamp' = StampOnceMarked(h)
     ELSE Serve(h) /\ UNCHANGED stamp
  /\ FilesUnchanged /\ UNCHANGED current

\* LoadX509KeyPair reads the one file and then the other: a file that cannot be
\* used, or a key of another pair, keeps the certificate in memory.
ReadCert(h) ==
  /\ Is(h, "load")
  /\ IF Whole(certFile)
     THEN handshake' = [handshake EXCEPT ![h].at = "certRead", ![h].found = certFile \div 2]
     ELSE Serve(h)
  /\ FilesUnchanged /\ MemoryUnchanged

ReadKey(h) ==
  /\ Is(h, "certRead")
  /\ IF keyFile = 2 * handshake[h].found THEN Move(h, "keyRead") ELSE Serve(h)
  /\ FilesUnchanged /\ MemoryUnchanged

\* The stamp is of the files after they were read.
StampCert(h) == See(h, "keyRead", "certStamped", "idle", certFile, "cert")
StampKey(h) == See(h, "certStamped", "stamped", "idle", keyFile, "key")

\* The end of load, under the lock.
Install(h) ==
  /\ Is(h, "stamped")
  /\ current' = handshake[h].found
  /\ stamp' = handshake[h].seen
  /\ checked' = 0
  /\ Move(h, "done")
  /\ FilesUnchanged

\* What is in memory by then is served.
ServeLoaded(h) ==
  /\ Is(h, "done")
  /\ Serve(h)
  /\ FilesUnchanged /\ MemoryUnchanged

Proceed(h) ==
  \/ CheckDue(h) \/ LookAtCert(h) \/ LookAtKey(h) \/ Mark(h)
  \/ ReadCert(h) \/ ReadKey(h) \/ StampCert(h) \/ StampKey(h) \/ Install(h) \/ ServeLoaded(h)

\* A unit of time; every handshake is served within MaxDelay.
CertTick ==
  /\ \A h \in Handshakes : ~Is(h, "idle") => handshake[h].lag < MaxDelay
  /\ checked' = Older(checked)
  /\ handshake' = [h \in Handshakes |->
       IF Is(h, "idle") THEN handshake[h] ELSE [handshake[h] EXCEPT !.lag = @ + 1]]
  /\ FilesUnchanged /\ UNCHANGED <<current, stamp>>

CertStep == RenewCert \/ RenewKey \/ \E h \in Handshakes : Begin(h) \/ Proceed(h)

CertNext == CertStep \/ CertTick

CertSpec == CertInit /\ [][CertNext]_certVars

\* A renewal that was begun is finished, handshakes keep coming and are served,
\* and time passes.
CertFairness ==
  /\ WF_certVars(RenewCert) /\ WF_certVars(RenewKey)
  /\ \A h \in Handshakes : WF_certVars(Begin(h)) /\ WF_certVars(Proceed(h))
  /\ WF_certVars(CertTick)

FairCertSpec == CertSpec /\ CertFairness

-----------------------------------------------------------------------------
(* Correctness                                                             *)

\* Unless a renewal overtakes a load, the stamp is that of the pair in memory,
\* whichever of several handshakes loaded it and whichever was the last to look:
\* a renewal is then noticed by the next look, and a pair is loaded once.
StampTellsPair == ~raced /\ current # NoPair => stamp = StampOf(current)

\* Files that no longer change are looked at until the stamp is theirs: a failed
\* load, of a pair half written say, is tried again (tls.go: "a half-written pair
\* during renewal must not take the endpoint down").
StampCatchesUp ==
  <>[](current # NoPair => stamp = [cert |-> certFile, key |-> keyFile])

\* tls.go of get: "reloading it if the files have changed since the last check".
RenewalIsServed == <>[](current # NoPair => current = certFile \div 2)
=============================================================================
