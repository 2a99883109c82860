----------------------------- MODULE CadenceProofs -----------------------------
(***************************************************************************)
(* Proofs about Cadence, for every calendar.                               *)
(*                                                                         *)
(* A cadence fires at the moments with one remainder: of the hour, of the  *)
(* day or of the week.  That is shown by taking the remainder of a moment  *)
(* apart (Nested); what computeNextRun does with the Date setters is then  *)
(* the next moment with that remainder (FirstOfItsKind).                   *)
(***************************************************************************)
EXTENDS Cadence, Integers, TLAPS

-----------------------------------------------------------------------------
(* Quotients and remainders.                                                *)

LEMMA Products ==
  ASSUME NEW m \in Nat, NEW n \in Nat
  PROVE  m * n \in Nat /\ (m # 0 /\ n # 0 => m * n # 0) /\ (m # 0 => m * n >= n)
OBVIOUS

LEMMA Distributes ==
  ASSUME NEW k \in Int, NEW m \in Int, NEW n \in Int
  PROVE  (m + n) * k = m * k + n * k /\ (m - n) * k = m * k - n * k /\ 1 * k = k /\ 0 * k = 0
OBVIOUS

LEMMA Grows ==
  ASSUME NEW k \in Nat, NEW m \in Nat, NEW n \in Nat, m < n
  PROVE  m * k + k <= n * k
<1>1. PICK d \in Nat : n = m + 1 + d
  <2>1. n - m - 1 \in Nat /\ n = m + 1 + (n - m - 1)
    OBVIOUS
  <2> QED
    BY <2>1
<1>2. n * k = m * k + k + d * k
  BY <1>1
<1>3. d * k \in Nat /\ m * k \in Nat
  BY Products
<1> QED
  BY <1>2, <1>3

LEMMA Parts ==
  ASSUME NEW t \in Nat, NEW b \in Nat \ {0}
  PROVE  /\ t \div b \in Nat /\ t % b \in 0..b - 1
         /\ t = (t \div b) * b + (t % b)
OBVIOUS

\* Quotient and remainder are what any such sum has.
LEMMA Unique ==
  ASSUME NEW b \in Nat \ {0}, NEW q \in Nat, NEW r \in 0..b - 1
  PROVE  (q * b + r) \div b = q /\ (q * b + r) % b = r
<1> DEFINE t == q * b + r
           p == t \div b
           s == t % b
<1>1. t \in Nat
  BY Products
<1>2. p \in Nat /\ s \in 0..b - 1 /\ t = p * b + s
  BY <1>1, Parts
<1>3. q * b + r = p * b + s
  BY <1>2
<1> HIDE DEF t, p, s
<1>4. p * b \in Nat /\ q * b \in Nat
  BY <1>2, Products
<1>5. ~(p < q)
  <2> SUFFICES ASSUME p < q PROVE FALSE
    OBVIOUS
  <2>1. p * b + b <= q * b
    BY <1>2, Grows
  <2> QED
    BY <1>2, <1>3, <1>4, <2>1
<1>6. ~(q < p)
  <2> SUFFICES ASSUME q < p PROVE FALSE
    OBVIOUS
  <2>1. q * b + b <= p * b
    BY <1>2, Grows
  <2> QED
    BY <1>2, <1>3, <1>4, <2>1
<1>7. p = q /\ s = r
  BY <1>2, <1>3, <1>4, <1>5, <1>6
<1> QED
  BY <1>7 DEF t, p, s

\* A moment in a unit of n smaller ones.
LEMMA Nested ==
  ASSUME NEW t \in Nat, NEW u \in Nat \ {0}, NEW n \in Nat \ {0}
  PROVE  /\ n * u \in Nat \ {0}
         /\ t % (n * u) = ((t \div u) % n) * u + (t % u)
         /\ t \div (n * u) = (t \div u) \div n
<1> DEFINE q == t \div u
           s == t % u
           m == q % n
           d == q \div n
<1>1. q \in Nat /\ s \in 0..u - 1 /\ t = q * u + s
  BY Parts
<1>2. m \in 0..n - 1 /\ d \in Nat /\ q = d * n + m
  BY <1>1, Parts
<1> HIDE DEF q, s, m, d
<1>3. n * u \in Nat \ {0} /\ m * u \in Nat
  BY <1>2, Products
<1>4. m * u + u <= n * u
  BY <1>2, Grows
<1>5. m * u + s \in 0..n * u - 1
  BY <1>1, <1>3, <1>4
<1>6. t = d * (n * u) + (m * u + s)
  <2>1. q * u = (d * n) * u + m * u
    BY <1>2, Products, Distributes
  <2>2. (d * n) * u = d * (n * u)
    BY <1>2
  <2> QED
    BY <1>1, <1>2, <1>3, <2>1, <2>2, Products
<1>7. t \div (n * u) = d /\ t % (n * u) = m * u + s
  <2> DEFINE b == n * u
             r == m * u + s
  <2>1. b \in Nat \ {0} /\ r \in 0..b - 1 /\ t = d * b + r
    BY <1>3, <1>5, <1>6
  <2> HIDE DEF b, r
  <2>2. t \div b = d /\ t % b = r
    BY <1>2, <2>1, Unique
  <2> QED
    BY <2>2 DEF b, r
<1> QED
  BY <1>3, <1>7 DEF q, s, m, d

\* Two sums of the same kind are equal part by part.
LEMMA SameParts ==
  ASSUME NEW b \in Nat \ {0}, NEW m \in Nat, NEW n \in Nat, NEW r \in 0..b - 1, NEW s \in 0..b - 1
  PROVE  m * b + r = n * b + s <=> m = n /\ r = s
BY Unique

-----------------------------------------------------------------------------
(* The moments of a cadence are those with one remainder.                   *)

Week == DaysPerWeek * Day

LEMMA Units ==
  /\ Minute \in Nat \ {0} /\ Hour \in Nat \ {0} /\ Day \in Nat \ {0} /\ Week \in Nat \ {0}
  /\ MinutesPerHour \in Nat \ {0} /\ HoursPerDay \in Nat \ {0} /\ DaysPerWeek \in Nat \ {0}
BY CadenceAssumption, Products DEF CadenceAssumption, Hour, Day, Week

LEMMA Fields ==
  ASSUME NEW c \in Cadences
  PROVE  /\ c.kind \in {"hourly", "daily", "weekly"}
         /\ c.minute \in 0..MinutesPerHour - 1
         /\ c.hour \in 0..HoursPerDay - 1
         /\ c.weekday \in 0..DaysPerWeek - 1
BY Units DEF Cadences

\* The time of an hour or of a day that a cadence names, in ticks.
OfHour(c) == c.minute * Minute
OfDay(c) == c.hour * Hour + OfHour(c)
OfWeek(c) == c.weekday * Day + OfDay(c)

LEMMA SumsFit ==
  ASSUME NEW u \in Nat \ {0}, NEW n \in Nat \ {0}, NEW m \in 0..n - 1, NEW r \in 0..u - 1
  PROVE  m * u \in Nat /\ m * u + r \in 0..n * u - 1
<1>1. m * u \in Nat /\ n * u \in Nat
  BY Products
<1>2. m * u + u <= n * u
  BY Grows
<1> QED
  BY <1>1, <1>2

LEMMA Offsets ==
  ASSUME NEW c \in Cadences
  PROVE  OfHour(c) \in 0..Hour - 1 /\ OfDay(c) \in 0..Day - 1 /\ OfWeek(c) \in 0..Week - 1
<1>1. OfHour(c) \in 0..Hour - 1
  <2>1. 0 \in 0..Minute - 1
    BY Units
  <2>2. c.minute * Minute + 0 \in 0..Hour - 1 /\ c.minute * Minute \in Nat
    BY <2>1, Units, Fields, SumsFit DEF Hour
  <2> QED
    BY <2>2 DEF OfHour
<1>2. OfDay(c) \in 0..Day - 1
  BY <1>1, Units, Fields, SumsFit DEF OfDay, Day
<1>3. OfWeek(c) \in 0..Week - 1
  BY <1>2, Units, Fields, SumsFit DEF OfWeek, Week
<1> QED
  BY <1>1, <1>2, <1>3

\* "every hour on minute"
LEMMA OnTheHour ==
  ASSUME NEW c \in Cadences, NEW t \in Nat
  PROVE  t % Hour = OfHour(c) <=> t % Minute = 0 /\ (t \div Minute) % MinutesPerHour = c.minute
<1> DEFINE m == (t \div Minute) % MinutesPerHour
           s == t % Minute
<1>1. t % Hour = m * Minute + s
  BY Units, Nested DEF Hour
<1>2. t \div Minute \in Nat /\ s \in 0..Minute - 1
  BY Units, Parts
<1>3. m \in 0..MinutesPerHour - 1
  BY <1>2, Units, Parts
<1> HIDE DEF m, s
<1>4. c.minute \in Nat /\ 0 \in 0..Minute - 1 /\ OfHour(c) = c.minute * Minute + 0
  BY Units, Fields, Products DEF OfHour
<1>5. m * Minute + s = c.minute * Minute + 0 <=> m = c.minute /\ s = 0
  BY <1>2, <1>3, <1>4, Units, SameParts
<1> QED
  BY <1>1, <1>4, <1>5 DEF m, s

\* "once a day at hour:minute"
LEMMA OnTheDay ==
  ASSUME NEW c \in Cadences, NEW t \in Nat
  PROVE  t % Day = OfDay(c) <=> t % Hour = OfHour(c) /\ (t \div Hour) % HoursPerDay = c.hour
<1> DEFINE h == (t \div Hour) % HoursPerDay
           s == t % Hour
<1>1. t % Day = h * Hour + s
  BY Units, Nested DEF Day
<1>2. t \div Hour \in Nat /\ s \in 0..Hour - 1
  BY Units, Parts
<1>3. h \in 0..HoursPerDay - 1
  BY <1>2, Units, Parts
<1> HIDE DEF h, s
<1>4. h * Hour + s = c.hour * Hour + OfHour(c) <=> h = c.hour /\ s = OfHour(c)
  <2>1. h \in Nat /\ c.hour \in Nat /\ OfHour(c) \in 0..Hour - 1
    BY <1>3, Units, Fields, Offsets
  <2> QED
    BY <1>2, <2>1, Units, SameParts
<1> QED
  BY <1>1, <1>4 DEF h, s, OfDay

\* "once a week on weekday"
LEMMA OnTheWeek ==
  ASSUME NEW c \in Cadences, NEW t \in Nat
  PROVE  t % Week = OfWeek(c) <=> t % Day = OfDay(c) /\ Weekday(t) = c.weekday
<1> DEFINE d == Weekday(t)
           s == t % Day
<1>1. t % Week = d * Day + s
  BY Units, Nested DEF Week, Weekday
<1>2. t \div Day \in Nat /\ s \in 0..Day - 1
  BY Units, Parts
<1>3. d \in 0..DaysPerWeek - 1
  BY <1>2, Units, Parts DEF Weekday
<1> HIDE DEF d, s
<1>4. d * Day + s = c.weekday * Day + OfDay(c) <=> d = c.weekday /\ s = OfDay(c)
  <2>1. d \in Nat /\ c.weekday \in Nat /\ OfDay(c) \in 0..Day - 1
    BY <1>3, Units, Fields, Offsets
  <2> QED
    BY <1>2, <2>1, Units, SameParts
<1> QED
  BY <1>1, <1>4 DEF d, s, OfWeek

LEMMA FiresByRemainder ==
  ASSUME NEW c \in Cadences, NEW t \in Nat
  PROVE  /\ c.kind = "hourly" => (Fires(c, t) <=> t % Hour = OfHour(c))
         /\ c.kind = "daily" => (Fires(c, t) <=> t % Day = OfDay(c))
         /\ c.kind = "weekly" => (Fires(c, t) <=> t % Week = OfWeek(c))
<1>1. c.kind \in {"hourly", "daily", "weekly"}
  BY Fields
<1> QED
  BY <1>1, OnTheHour, OnTheDay, OnTheWeek DEF Fires

-----------------------------------------------------------------------------
(* The next moment with a remainder.                                        *)

\* At its place in the current period if that is still to come, or one period later.
NextAt(P, o, from) ==
  IF StartOf(P, from) + o <= from THEN StartOf(P, from) + o + P ELSE StartOf(P, from) + o

LEMMA FirstOfItsKind ==
  ASSUME NEW from \in Nat, NEW P \in Nat \ {0}, NEW o \in 0..P - 1
  PROVE  /\ NextAt(P, o, from) \in Nat /\ NextAt(P, o, from) > from /\ NextAt(P, o, from) % P = o
         /\ \A u \in from + 1..NextAt(P, o, from) - 1 : u % P # o
<1> DEFINE next == NextAt(P, o, from)
           q == from \div P
           r == from % P
<1>1. q \in Nat /\ r \in 0..P - 1 /\ from = q * P + r
  BY Parts
<1>2. StartOf(P, from) = q * P
  <2>1. q * P \in Nat
    BY <1>1, Products
  <2> QED
    BY <1>1, <2>1 DEF StartOf
<1> HIDE DEF q, r
<1>7. next = IF q * P + o <= from THEN q * P + o + P ELSE q * P + o
  BY <1>2 DEF NextAt
<1> HIDE DEF next
<1>3. q * P \in Nat /\ (q + 1) * P = q * P + P
  BY <1>1, Products, Distributes
<1>4. next \in Nat /\ next > from
  BY <1>1, <1>3, <1>7
<1>5. next % P = o
  <2>1. (q * P + o) % P = o /\ ((q + 1) * P + o) % P = o
    <3>1. q + 1 \in Nat
      BY <1>1
    <3> QED
      BY <1>1, <3>1, Unique
  <2>2. next = q * P + o \/ next = (q + 1) * P + o
    BY <1>1, <1>3, <1>7
  <2> QED
    BY <2>1, <2>2
<1>6. ASSUME NEW u \in from + 1..next - 1, u % P = o PROVE FALSE
  <2>0. u \in Nat /\ from < u /\ u < next
    BY <1>1, <1>4
  <2>1. PICK j \in Nat : u = j * P + o
    BY <1>6, <2>0, Parts
  <2>2. j * P \in Nat
    BY <2>1, Products
  <2>3. CASE j < q
    <3>1. j * P + P <= q * P
      BY <1>1, <2>1, <2>3, Grows
    <3> QED
      BY <1>1, <1>3, <2>0, <2>1, <2>2, <3>1
  <2>4. CASE j = q
    BY <1>1, <1>3, <1>7, <2>0, <2>1, <2>4
  <2>5. CASE j > q
    <3>1. (q + 1) * P <= j * P
      <4>1. q * P + P <= j * P
        BY <1>1, <2>1, <2>5, Grows
      <4> QED
        BY <1>3, <4>1
    <3>2. next <= (q + 1) * P + o
      BY <1>3, <1>7
    <3> QED
      BY <1>3, <2>0, <2>1, <2>2, <3>1, <3>2, <1>4
  <2> QED
    BY <1>1, <2>1, <2>3, <2>4, <2>5
<1> QED
  BY <1>4, <1>5, <1>6 DEF next


-----------------------------------------------------------------------------
(* computeNextRun.                                                          *)

\* "every hour on minute": the setters put minute into the current hour, or an hour later.
LEMMA HourlyIsFirst ==
  ASSUME NEW c \in Cadences, NEW from \in Nat, c.kind = "hourly"
  PROVE  IsNext(c, from, NextRun(c, from)) /\ NextRun(c, from) \in Nat
<1> DEFINE next == NextAt(Hour, OfHour(c), from)
<1>1. NextRun(c, from) = next
  BY DEF NextRun, NextHourly, NextAt, OfHour
<1>2. /\ next \in Nat /\ next > from /\ next % Hour = OfHour(c)
      /\ \A u \in from + 1..next - 1 : u % Hour # OfHour(c)
  BY Units, Offsets, FirstOfItsKind
<1> HIDE DEF next
<1>3. \A u \in from + 1..next - 1 : u \in Nat
  BY <1>2
<1> QED
  BY <1>1, <1>2, <1>3, FiresByRemainder DEF IsNext

LEMMA AtTimes ==
  ASSUME NEW c \in Cadences, NEW t \in Nat
  PROVE  AtTime(c, t) = StartOf(Day, t) + OfDay(c) /\ AtTime(c, t) \in Nat
<1>1. StartOf(Day, t) \in Nat
  <2>1. t % Day \in Nat /\ t % Day <= t
    BY Units
  <2> QED
    BY <2>1 DEF StartOf
<1>2. c.hour * Hour \in Nat /\ c.minute * Minute \in Nat
  BY Units, Fields, Products
<1> QED
  BY <1>1, <1>2 DEF AtTime, OfDay, OfHour

LEMMA DailyIsFirst ==
  ASSUME NEW c \in Cadences, NEW from \in Nat, c.kind = "daily"
  PROVE  IsNext(c, from, NextRun(c, from)) /\ NextRun(c, from) \in Nat
<1> DEFINE next == NextAt(Day, OfDay(c), from)
<1>1. NextRun(c, from) = next
  BY AtTimes DEF NextRun, NextDaily, NextAt
<1>2. /\ next \in Nat /\ next > from /\ next % Day = OfDay(c)
      /\ \A u \in from + 1..next - 1 : u % Day # OfDay(c)
  BY Units, Offsets, FirstOfItsKind
<1> HIDE DEF next
<1>3. \A u \in from + 1..next - 1 : u \in Nat
  BY <1>2
<1> QED
  BY <1>1, <1>2, <1>3, FiresByRemainder DEF IsNext

\* The days computeNextRun adds for the weekday lead to its place in this week or in the next.
LEMMA WeeklyIsAt ==
  ASSUME NEW c \in Cadences, NEW from \in Nat
  PROVE  NextWeekly(c, from) = NextAt(Week, OfWeek(c), from)
<1> DEFINE n == from \div Day
           r == from % Day
           wd == n % DaysPerWeek
           o == OfDay(c)
           k == c.weekday
           delta == (k + DaysPerWeek - wd) % DaysPerWeek
<1>1. n \in Nat /\ r \in 0..Day - 1 /\ from = n * Day + r
  BY Units, Parts
<1>2. wd \in 0..DaysPerWeek - 1 /\ k \in 0..DaysPerWeek - 1 /\ o \in 0..Day - 1
  BY <1>1, Units, Parts, Fields, Offsets
<1>3. AtTime(c, from) = n * Day + o
  <2>1. StartOf(Day, from) = n * Day
    BY <1>1, Units, Products DEF StartOf
  <2> QED
    BY <2>1, AtTimes
<1>4. Weekday(AtTime(c, from)) = wd
  BY <1>1, <1>2, <1>3, Units, Unique DEF Weekday
<1>5. NextWeekly(c, from) = n * Day + o + (IF delta = 0 /\ n * Day + o <= from THEN DaysPerWeek ELSE delta) * Day
  BY <1>3, <1>4 DEF NextWeekly
<1>6. StartOf(Week, from) = n * Day - wd * Day
  <2>1. from % Week = wd * Day + r
    BY Units, Nested DEF Week
  <2>2. n * Day \in Nat /\ wd * Day \in Nat
    BY <1>1, <1>2, Units, Products
  <2> HIDE DEF n, r, wd
  <2> QED
    BY <1>1, <1>2, <2>1, <2>2, Units DEF StartOf
<1>7. OfWeek(c) = k * Day + o
  BY DEF OfWeek
<1>8. delta = IF k >= wd THEN k - wd ELSE k + DaysPerWeek - wd
  <2> HIDE DEF n, wd, k
  <2>1. CASE k >= wd
    <3>1. k - wd \in 0..DaysPerWeek - 1 /\ k + DaysPerWeek - wd = 1 * DaysPerWeek + (k - wd)
      BY <1>2, <2>1, Units
    <3>2. (1 * DaysPerWeek + (k - wd)) % DaysPerWeek = k - wd
      BY <3>1, Units, Unique
    <3> QED
      BY <2>1, <3>1, <3>2
  <2>2. CASE k < wd
    <3>1. k + DaysPerWeek - wd \in 0..DaysPerWeek - 1
          /\ k + DaysPerWeek - wd = 0 * DaysPerWeek + (k + DaysPerWeek - wd)
      BY <1>2, <2>2, Units
    <3>2. (0 * DaysPerWeek + (k + DaysPerWeek - wd)) % DaysPerWeek = k + DaysPerWeek - wd
      BY <3>1, Units, Unique
    <3> QED
      BY <1>2, <2>2, <3>1, <3>2
  <2> QED
    BY <1>2, <2>1, <2>2
<1> HIDE DEF n, r, wd, o, k, delta
<1> DEFINE nd == n * Day
           wdd == wd * Day
           kd == k * Day
<1>9. nd \in Nat /\ wdd \in Nat /\ kd \in Nat
  BY <1>1, <1>2, Units, Products
<1>10. CASE k = wd
  <2>1. delta = 0 /\ kd = wdd /\ DaysPerWeek * Day = Week /\ 0 * Day = 0
    BY <1>2, <1>8, <1>10, Units DEF Week
  <2>2. StartOf(Week, from) + OfWeek(c) = n * Day + o
    BY <1>2, <1>6, <1>7, <1>9, <2>1
  <2>3. CASE n * Day + o <= from
    <3>1. NextWeekly(c, from) = n * Day + o + Week
      BY <1>5, <2>1, <2>3
    <3> QED
      BY <2>2, <2>3, <3>1 DEF NextAt
  <2>4. CASE ~(n * Day + o <= from)
    <3>1. NextWeekly(c, from) = n * Day + o
      BY <1>1, <1>2, <1>5, <1>9, <2>1, <2>4
    <3> QED
      BY <2>2, <2>4, <3>1 DEF NextAt
  <2> QED
    BY <2>3, <2>4
<1>11. CASE k > wd
  <2>1. delta = k - wd /\ delta # 0
    BY <1>2, <1>8, <1>11
  <2>2. delta * Day = kd - wdd
    BY <1>2, <2>1, Units, Distributes
  <2>3. wdd + Day <= kd
    BY <1>2, <1>11, Units, Grows
  <2> HIDE DEF nd, wdd, kd
  <2>4. StartOf(Week, from) + OfWeek(c) = nd + o + delta * Day
    BY <1>2, <1>6, <1>7, <1>9, <2>2 DEF nd, wdd, kd
  <2>5. ~(StartOf(Week, from) + OfWeek(c) <= from)
    BY <1>1, <1>2, <1>9, <2>2, <2>3, <2>4, Units DEF nd
  <2> QED
    BY <1>5, <2>1, <2>4, <2>5 DEF NextAt, nd
<1>12. CASE k < wd
  <2>1. delta = k + DaysPerWeek - wd /\ delta # 0 /\ k + DaysPerWeek \in Int
    BY <1>2, <1>8, <1>12, Units
  <2>2. delta * Day = kd + Week - wdd
    <3>1. (k + DaysPerWeek - wd) * Day = (k + DaysPerWeek) * Day - wd * Day
      BY <1>2, <2>1, Units, Distributes
    <3>2. (k + DaysPerWeek) * Day = k * Day + DaysPerWeek * Day
      BY <1>2, Units, Distributes
    <3> QED
      BY <1>9, <2>1, <3>1, <3>2, Units DEF Week
  <2>3. kd + Day <= wdd
    BY <1>2, <1>12, Units, Grows
  <2> HIDE DEF nd, wdd, kd
  <2>4. StartOf(Week, from) + OfWeek(c) = nd - wdd + kd + o
    BY <1>2, <1>6, <1>7, <1>9 DEF nd, wdd, kd
  <2>5. StartOf(Week, from) + OfWeek(c) <= from
    BY <1>1, <1>2, <1>9, <2>3, <2>4, Units DEF nd
  <2>6. nd - wdd + kd + o + Week = nd + o + delta * Day
    BY <1>2, <1>9, <2>2, Units
  <2> QED
    BY <1>5, <2>1, <2>4, <2>5, <2>6 DEF NextAt, nd
<1> QED
  BY <1>2, <1>10, <1>11, <1>12

LEMMA WeeklyIsFirst ==
  ASSUME NEW c \in Cadences, NEW from \in Nat, c.kind = "weekly"
  PROVE  IsNext(c, from, NextRun(c, from)) /\ NextRun(c, from) \in Nat
<1> DEFINE next == NextAt(Week, OfWeek(c), from)
<1>1. NextRun(c, from) = next
  BY WeeklyIsAt DEF NextRun
<1>2. /\ next \in Nat /\ next > from /\ next % Week = OfWeek(c)
      /\ \A u \in from + 1..next - 1 : u % Week # OfWeek(c)
  BY Units, Offsets, FirstOfItsKind
<1> HIDE DEF next
<1>3. \A u \in from + 1..next - 1 : u \in Nat
  BY <1>2
<1> QED
  BY <1>1, <1>2, <1>3, FiresByRemainder DEF IsNext

\* computeNextRun names the first moment of the cadence after the one it is given: strictly later,
\* on the cadence, and with none of its moments skipped, for every calendar and cadence.
THEOREM NextRunIsFirst ==
  ASSUME NEW c \in Cadences, NEW t \in Nat
  PROVE  IsNext(c, t, NextRun(c, t)) /\ NextRun(c, t) \in Nat
BY Fields, HourlyIsFirst, DailyIsFirst, WeeklyIsFirst
=============================================================================
