-------------------------- MODULE SchedulingProofs --------------------------
(***************************************************************************)
(* What the schedule's arithmetic guarantees for every interval and every  *)
(* delay: deadlines move on, by no more than an interval, in phase; and    *)
(* pollers start in order, within the first interval.                      *)
(***************************************************************************)
EXTENDS Scheduling, TLAPS

-----------------------------------------------------------------------------
(* Whole multiples                                                         *)

\* Division with remainder, for a divisor that is not a literal.
LEMMA DivMod ==
  ASSUME NEW a \in Int, NEW n \in Nat \ {0}
  PROVE  /\ a = n * (a \div n) + (a % n)
         /\ a \div n \in Int
         /\ a % n \in 0 .. (n - 1)
  OBVIOUS

\* The remainder is the only one there can be.
LEMMA ModUnique ==
  ASSUME NEW a \in Int, NEW n \in Nat \ {0}, NEW q \in Int, NEW r \in 0 .. (n - 1),
         a = n * q + r
  PROVE  a % n = r
  OBVIOUS

LEMMA Distribute ==
  ASSUME NEW n \in Int, NEW j \in Int, NEW k \in Int
  PROVE  n * (j + k) = n * j + n * k /\ n * j \in Int /\ n * k \in Int
  OBVIOUS

\* Adding a multiple of n leaves the remainder as it was.
LEMMA ModPlusMultiple ==
  ASSUME NEW a \in Int, NEW n \in Nat \ {0}, NEW k \in Int
  PROVE  (a + n * k) % n = a % n
  <1>1. PICK q \in Int, r \in 0 .. (n - 1) : a = n * q + r /\ r = a % n
    BY DivMod
  <1>2. PICK b \in Int : b = a + n * k
    BY Distribute
  <1>3. b = n * (q + k) + r
    <2>1. n * (q + k) = n * q + n * k /\ n * q \in Int /\ n * k \in Int
      BY Distribute
    <2>2. a = n * q + r /\ r \in Int
      BY <1>1
    <2>3. b = (n * q + r) + n * k
      BY <1>2, <2>2
    <2>4. QED
      BY <2>1, <2>2, <2>3
  <1>4. b % n = r
    BY <1>3, ModUnique
  <1>5. QED
    BY <1>1, <1>2, <1>4

\* A multiple of n is n times something.
LEMMA MultipleWitness ==
  ASSUME NEW a \in Int, NEW n \in Nat \ {0}, a % n = 0
  PROVE  \E k \in Int : a = n * k
  <1>1. a = n * (a \div n) + (a % n) /\ a \div n \in Int
    BY DivMod
  <1>2. a = n * (a \div n)
    BY <1>1, Distribute
  <1>3. QED
    BY <1>1, <1>2

LEMMA MultipleOfProduct ==
  ASSUME NEW n \in Nat \ {0}, NEW k \in Int
  PROVE  (n * k) % n = 0
  BY ModUnique

\* What slow divides, so does fast when fast divides slow.
LEMMA MultipleOfMultiple ==
  ASSUME NEW a \in Int, NEW fast \in Nat \ {0}, NEW slow \in Nat \ {0},
         a % slow = 0, slow % fast = 0
  PROVE  a % fast = 0
  <1>1. PICK k \in Int : a = slow * k
    BY MultipleWitness
  <1>2. PICK m \in Int : slow = fast * m
    BY MultipleWitness
  <1>3. a = fast * (m * k) /\ m * k \in Int
    BY <1>1, <1>2
  <1>4. QED
    BY <1>3, MultipleOfProduct

\* Two different multiples of n are at least n apart.
LEMMA MultiplesApart ==
  ASSUME NEW a \in Int, NEW b \in Int, NEW n \in Nat \ {0},
         a % n = 0, b % n = 0, a < b
  PROVE  a + n <= b
  <1>1. PICK j \in Int : a = n * j
    BY MultipleWitness
  <1>2. PICK k \in Int : b = n * k
    BY MultipleWitness
  <1>3. j < k
    <2>1. SUFFICES ASSUME k <= j PROVE FALSE
      BY <1>1, <1>2
    <2>2. n * k <= n * j
      BY <2>1
    <2>3. QED
      BY <2>2, <1>1, <1>2
  <1>4. n * (j + 1) <= n * k
    BY <1>3
  <1>5. QED
    BY <1>1, <1>2, <1>4

-----------------------------------------------------------------------------
(* Deadlines                                                               *)

\* markDue moves the deadline of a command that is due past the present, and
\* by at most one interval, however many deadlines were missed.
THEOREM NextDeadlineBounds ==
  ASSUME NEW interval \in Nat \ {0}, NEW previous \in Nat, NEW now \in Nat \ {0},
         IsDue(previous, now)
  PROVE  /\ NextDeadline(interval, previous, now) \in Nat
         /\ now < NextDeadline(interval, previous, now)
         /\ NextDeadline(interval, previous, now) <= now + interval
  BY DEF NextDeadline, IsDue, Never

\* The new deadline is a whole number of intervals after the old one.
THEOREM NextDeadlineInPhase ==
  ASSUME NEW interval \in Nat \ {0}, NEW previous \in Nat \ {0}, NEW now \in Nat \ {0},
         NEW first \in Nat, (previous - first) % interval = 0
  PROVE  (NextDeadline(interval, previous, now) - first) % interval = 0
  <1> DEFINE late == now - (previous + interval)
             next == NextDeadline(interval, previous, now)
  <1>1. \E k \in Int : next = previous + interval * k
    <2>1. CASE previous + interval > now
      <3>1. next = previous + interval * 1
        BY <2>1 DEF NextDeadline, Never
      <3>2. QED
        BY <3>1
    <2>2. CASE ~(previous + interval > now)
      <3>1. next = now + (interval - (late % interval))
        BY <2>2 DEF NextDeadline, Never
      <3>2. PICK q \in Int, r \in Int : late = interval * q + r /\ r = late % interval
        <4>1. late \in Int
          OBVIOUS
        <4> HIDE DEF late
        <4>2. late = interval * (late \div interval) + (late % interval)
              /\ late \div interval \in Int /\ late % interval \in Int
          BY <4>1, DivMod
        <4>3. QED
          BY <4>2
      <3>3. interval * (2 + q) = interval * 2 + interval * q /\ interval * q \in Int
        BY Distribute
      <3>4. next = previous + interval * (2 + q)
        BY <3>1, <3>2, <3>3
      <3>5. QED
        BY <3>4
    <2>3. QED
      BY <2>1, <2>2
  <1>2. PICK k \in Int : next = previous + interval * k
    BY <1>1
  <1>3. PICK p \in Int : p = previous - first
    OBVIOUS
  <1>4. next - first = p + interval * k
    BY <1>2, <1>3, Distribute
  <1>5. (p + interval * k) % interval = p % interval
    BY ModPlusMultiple
  <1>6. QED
    BY <1>3, <1>4, <1>5

\* Of two commands with a common phase whose intervals divide, the faster is
\* never due later: its deadline is the first multiple after now, the other's
\* is some multiple after now.
THEOREM FasterIsDueFirst ==
  ASSUME NEW fast \in Nat \ {0}, NEW slow \in Nat \ {0}, slow % fast = 0,
         NEW first \in Nat, NEW now \in Nat, NEW dueFast \in Nat, NEW dueSlow \in Nat,
         (dueFast - first) % fast = 0, (dueSlow - first) % slow = 0,
         dueFast <= now + fast, now < dueSlow
  PROVE  dueFast <= dueSlow
  <1>1. PICK x \in Int : x = dueSlow - first
    OBVIOUS
  <1>2. PICK y \in Int : y = dueFast - first
    OBVIOUS
  <1>3. x % fast = 0 /\ y % fast = 0
    BY <1>1, <1>2, MultipleOfMultiple
  <1>4. SUFFICES ASSUME x < y PROVE FALSE
    BY <1>1, <1>2
  <1>5. x + fast <= y
    BY <1>3, <1>4, MultiplesApart
  <1>6. QED
    BY <1>1, <1>2, <1>5

-----------------------------------------------------------------------------
(* Offsets                                                                 *)

\* n spacings fit in the interval.
LEMMA SpacingFits ==
  ASSUME NEW pollSpacing \in Nat, NEW n \in Nat \ {0}, NEW interval \in Nat
  PROVE  /\ Spacing(pollSpacing, n, interval) \in Nat
         /\ n * Spacing(pollSpacing, n, interval) <= interval
  <1> DEFINE most == interval \div n
             s == Spacing(pollSpacing, n, interval)
  <1>1. most \in Nat /\ n * most <= interval
    BY DivMod
  <1>2. s \in Nat /\ s <= most
    <2> HIDE DEF most
    <2>1. Spacing(pollSpacing, n, interval) = IF pollSpacing > most THEN most ELSE pollSpacing
      BY DEF Spacing, most
    <2>2. QED
      BY <2>1, <1>1
  <1> HIDE DEF most, s
  <1>3. n * s <= n * most /\ n * s \in Nat /\ n * most \in Nat
    BY <1>1, <1>2
  <1>4. QED
    BY <1>1, <1>2, <1>3 DEF s

\* The random shift stays within a third of the spacing.
LEMMA JitterSmall ==
  ASSUME NEW s \in Nat, NEW shift \in Jitters(s)
  PROVE  /\ shift \in Int
         /\ -(s \div 3) <= shift
         /\ s > 0 => shift < s - (s \div 3)
         /\ s > 0 => shift + (s \div 3) < s
         /\ s > 2 => shift < s \div 3
         /\ s <= 2 => shift = 0
  BY DEF Jitters

\* The i-th poller's start, before it is cut to the interval, needs no cutting.
LEMMA OffsetUncut ==
  ASSUME NEW pollSpacing \in Nat, NEW n \in Nat \ {0, 1}, NEW interval \in Nat \ {0},
         NEW i \in 1 .. (n - 1), NEW o \in PollOffsets(pollSpacing, i, n, interval)
  PROVE  \E shift \in Jitters(Spacing(pollSpacing, n, interval)) :
            /\ o = i * Spacing(pollSpacing, n, interval) + shift
            /\ 0 <= o /\ o < interval
  <1> DEFINE s == Spacing(pollSpacing, n, interval)
  <1>1. s \in Nat /\ n * s <= interval
    BY SpacingFits
  <1>2. PICK shift \in Jitters(s) :
          o = IF i * s + shift < 0 THEN 0
              ELSE IF i * s + shift >= interval THEN (i * s + shift) % interval
              ELSE i * s + shift
    BY DEF PollOffsets
  <1> HIDE DEF s
  <1>3. /\ shift \in Int /\ -(s \div 3) <= shift
        /\ s > 0 => shift < s
        /\ s <= 2 => shift = 0
    BY <1>1, JitterSmall
  <1>4. i * s \in Nat /\ s <= i * s /\ i * s + s <= interval
    <2>1. i * s <= (n - 1) * s /\ s <= i * s /\ i * s \in Nat
      BY <1>1
    <2>2. n * s = (n - 1) * s + s /\ (n - 1) * s \in Nat
      BY <1>1
    <2>3. QED
      BY <1>1, <2>1, <2>2
  <1>5. 0 <= i * s + shift /\ i * s + shift < interval
    BY <1>1, <1>3, <1>4, JitterSmall
  <1>6. o = i * s + shift
    <2>1. i * s + shift \in Int
      BY <1>3, <1>4
    <2>2. ~(i * s + shift < 0) /\ ~(i * s + shift >= interval)
      BY <1>5, <2>1
    <2>3. QED
      BY <1>2, <2>2
  <1>7. 0 <= o /\ o < interval
    BY <1>5, <1>6
  <1>8. QED
    BY <1>6, <1>7 DEF s

\* Every poller starts within the first interval, so that a restart fills the
\* record of the whole fleet in one interval.
THEOREM OffsetsWithinInterval ==
  ASSUME NEW pollSpacing \in Nat, NEW n \in Nat \ {0}, NEW interval \in Nat \ {0},
         NEW i \in 0 .. (n - 1), NEW o \in PollOffsets(pollSpacing, i, n, interval)
  PROVE  0 <= o /\ o < interval
  <1>1. CASE i = 0
    BY <1>1 DEF PollOffsets
  <1>2. CASE i # 0
    BY <1>2, OffsetUncut
  <1>3. QED
    BY <1>1, <1>2

\* The random part never reorders pollers or makes two of them start together,
\* as long as there is room for a spacing at all.
THEOREM OffsetsKeepOrder ==
  ASSUME NEW pollSpacing \in Nat, NEW n \in Nat \ {0, 1}, NEW interval \in Nat \ {0},
         NEW i \in 0 .. (n - 1), NEW j \in 0 .. (n - 1), i < j,
         NEW o \in PollOffsets(pollSpacing, i, n, interval),
         NEW p \in PollOffsets(pollSpacing, j, n, interval),
         Spacing(pollSpacing, n, interval) > 0
  PROVE  o < p
  <1> DEFINE s == Spacing(pollSpacing, n, interval)
  <1>1. s \in Nat /\ s > 0
    BY SpacingFits
  <1>2. PICK u \in Jitters(s) : p = j * s + u
    <2>1. j \in 1 .. (n - 1)
      OBVIOUS
    <2>2. QED
      BY <2>1, OffsetUncut
  <1>3. \E t \in Int : o = i * s + t /\ t + (s \div 3) < s /\ (s <= 2 => t = 0)
                       /\ (s > 2 => t < s \div 3)
    <2>1. CASE i = 0
      <3>1. o = 0
        BY <2>1 DEF PollOffsets
      <3> HIDE DEF s
      <3>2. s \div 3 < s /\ (s > 2 => 0 < s \div 3)
        BY <1>1
      <3>3. o = i * s + 0
        BY <1>1, <2>1, <3>1
      <3>4. QED
        BY <1>1, <3>2, <3>3
    <2>2. CASE i # 0
      <3>1. PICK t \in Jitters(s) : o = i * s + t
        <4>1. i \in 1 .. (n - 1)
          BY <2>2
        <4>2. QED
          BY <4>1, OffsetUncut
      <3> HIDE DEF s
      <3>2. QED
        BY <3>1, <1>1, JitterSmall
    <2>3. QED
      BY <2>1, <2>2
  <1> HIDE DEF s
  <1>4. PICK t \in Int : o = i * s + t /\ t + (s \div 3) < s /\ (s <= 2 => t = 0)
                        /\ (s > 2 => t < s \div 3)
    BY <1>3
  <1>5. i * s + s <= j * s /\ i * s \in Nat /\ j * s \in Nat
    <2>1. (i + 1) * s <= j * s /\ (i + 1) * s = i * s + s /\ i * s \in Nat /\ j * s \in Nat
      BY <1>1
    <2>2. QED
      BY <2>1, <1>1
  <1>6. u \in Int /\ -(s \div 3) <= u /\ (s <= 2 => u = 0)
    BY <1>1, JitterSmall
  <1>7. t < s + u
    BY <1>1, <1>4, <1>6
  <1>8. QED
    BY <1>1, <1>2, <1>4, <1>5, <1>6, <1>7
=============================================================================
