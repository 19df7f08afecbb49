----------------------------- MODULE CoreProofs -----------------------------
(***************************************************************************)
(* Proofs about the pure parts of hygiea-core, for every argument: dates   *)
(* and zones, the configuration of an application, and the setup of logs;  *)
(* and the facts about numbers and sequences they share with ValuesProofs. *)
(***************************************************************************)
EXTENDS DateTimes, AppSettings, LogSetup, FiniteSetTheorems, SequenceTheorems, WellFoundedInduction, TLAPS

-----------------------------------------------------------------------------
(* Numbers and sequences.                                                   *)

\* An integer that is divided.
LEMMA Divided ==
    ASSUME NEW n \in Int, NEW size \in Nat \ {0}
    PROVE  /\ n \div size \in Int /\ n % size \in 0 .. size - 1
           /\ n = size * (n \div size) + (n % size)
<1> DEFINE q == n \div size
           r == n % size
<1>1. q \in Int /\ size * q <= n /\ n < size * q + size
    OBVIOUS
<1>2. r \in Int /\ 0 <= r /\ r < size
    OBVIOUS
<1>3. r = n - size * q
    OBVIOUS
<1> QED BY <1>1, <1>2, <1>3

\* What is left is known when a number is a multiple and less than one more.
LEMMA DividedOnce ==
    ASSUME NEW q \in Int, NEW size \in Nat \ {0}, NEW r \in 0 .. size - 1, NEW n \in Int, n = size * q + r
    PROVE  n \div size = q /\ n % size = r
OBVIOUS

\* A sequence of some elements is one of more.
LEMMA WiderSeq ==
    ASSUME NEW S, NEW T, S \subseteq T, NEW s \in Seq(S)
    PROVE  s \in Seq(T)
OBVIOUS

\* A non-empty set of naturals has a least element.
LEMMA LeastOf ==
    ASSUME NEW S \in SUBSET Nat, S # {}
    PROVE  \E x \in S : \A y \in S : x <= y
<1>1. DEFINE Upto == {0 .. x : x \in S}
<1>2. Upto \subseteq FiniteSubsetsOf(Nat) /\ Upto # {}
    <2>1. ASSUME NEW x \in S
          PROVE  (0 .. x) \in SUBSET Nat /\ IsFiniteSet(0 .. x)
        BY FS_Interval
    <2> QED BY <2>1 DEF FiniteSubsetsOf
<1>3. PICK T \in Upto : \A U \in Upto : <<U, T>> \notin StrictSubsetOrdering(Nat)
    <2> HIDE DEF Upto
    <2> QED BY <1>2, WFMin, FS_StrictSubsetOrderingWellFounded
<1>4. PICK x \in S : T = 0 .. x
    OBVIOUS
<1>5. ASSUME NEW y \in S, y < x PROVE FALSE
    <2>1. 0 .. y \in Upto
        OBVIOUS
    <2>2. (0 .. y) \subseteq (0 .. x) /\ x \in 0 .. x /\ x \notin 0 .. y
        BY <1>5
    <2>3. <<0 .. y, 0 .. x>> \in StrictSubsetOrdering(Nat)
        BY <2>2 DEF StrictSubsetOrdering
    <2> QED BY <1>3, <1>4, <2>1, <2>3
<1> QED BY <1>5

\* A non-empty set of naturals up to n has a greatest element.
LEMMA GreatestOf ==
    ASSUME NEW n \in Nat, NEW S \in SUBSET (0 .. n), S # {}
    PROVE  \E x \in S : \A y \in S : y <= x
<1> DEFINE T == {m \in Nat : n - m \in S}
<1>1. PICK s \in S : TRUE
    OBVIOUS
<1>2. n - (n - s) = s /\ n - s \in Nat
    OBVIOUS
<1>3. PICK least \in T : \A m \in T : least <= m
    <2>1. T \in SUBSET Nat /\ T # {}
        BY <1>1, <1>2
    <2> HIDE DEF T
    <2> QED BY <2>1, LeastOf
<1>4. ASSUME NEW y \in S PROVE y <= n - least
    <2>1. n - (n - y) = y /\ n - y \in Nat
        OBVIOUS
    <2>2. least <= n - y
        BY <2>1, <1>3
    <2> QED BY <2>2
<1>5. n - least \in S
    OBVIOUS
<1> QED BY <1>4, <1>5

\* What holds of 0, and with a number below n of the next one, holds up to n.
LEMMA UpTo ==
    ASSUME NEW n \in Nat, NEW S, 0 \in S, \A k \in 0 .. n - 1 : k \in S => k + 1 \in S
    PROVE  \A k \in 0 .. n : k \in S
<1> DEFINE left == {k \in 0 .. n : k \notin S}
<1> SUFFICES ASSUME left # {} PROVE FALSE
    OBVIOUS
<1>1. PICK k \in left : \A m \in left : k <= m
    <2>1. left \in SUBSET Nat
        OBVIOUS
    <2> HIDE DEF left
    <2> QED BY <2>1, LeastOf
<1>2. k \in 0 .. n /\ k # 0
    OBVIOUS
<1>3. k - 1 \in 0 .. n - 1 /\ k - 1 \in 0 .. n /\ (k - 1) + 1 = k /\ k - 1 < k
    BY <1>2
<1>4. k - 1 \in S
    BY <1>1, <1>3
<1> QED BY <1>3, <1>4

\* n steps in S, and where they lead from x.
Steps(n, S, next) == \A k \in 1 .. n : next[k] \in [S -> S]
Leads(n, S, next, x, f) == f \in [0 .. n -> S] /\ f[0] = x /\ \A k \in 1 .. n : f[k] = next[k][f[k - 1]]

\* What is defined step by step exists.
LEMMA StepByStep ==
    ASSUME NEW n \in Nat, NEW S, NEW x \in S, NEW next, Steps(n, S, next)
    PROVE  \E f : Leads(n, S, next, x, f)
<1> USE DEF Steps
<1> DEFINE Def(f, m) == f \in [0 .. m -> S] /\ f[0] = x /\ \A k \in 1 .. m : f[k] = next[k][f[k - 1]]
           Reached == {m \in 0 .. n : \E f : Def(f, m)}
<1>1. 0 \in Reached
    <2>1. Def([k \in 0 .. 0 |-> x], 0)
        OBVIOUS
    <2> HIDE DEF Def
    <2> QED BY <2>1
<1>2. ASSUME NEW m \in 0 .. n - 1, m \in Reached PROVE m + 1 \in Reached
    <2>1. PICK f : Def(f, m)
        BY <1>2
    <2> DEFINE g == [k \in 0 .. m + 1 |-> IF k = m + 1 THEN next[m + 1][f[m]] ELSE f[k]]
    <2>2. f[m] \in S /\ m + 1 \in 1 .. n
        BY <2>1
    <2>3. next[m + 1][f[m]] \in S
        BY <2>2
    <2>4. \A k \in 0 .. m + 1 : k # m + 1 => k \in 0 .. m
        OBVIOUS
    <2>5. g \in [0 .. m + 1 -> S]
        BY <2>1, <2>3, <2>4
    <2>6. g[0] = x
        BY <2>1
    <2>7. ASSUME NEW k \in 1 .. m + 1 PROVE g[k] = next[k][g[k - 1]]
        <3>1. CASE k # m + 1
            <4>1. k \in 1 .. m /\ k - 1 \in 0 .. m /\ k \in 0 .. m + 1 /\ k - 1 \in 0 .. m + 1 /\ k - 1 # m + 1
                BY <3>1
            <4>2. g[k] = f[k] /\ g[k - 1] = f[k - 1]
                BY <3>1, <4>1
            <4> QED BY <2>1, <4>1, <4>2
        <3>2. CASE k = m + 1
            <4>1. k - 1 = m /\ m \in 0 .. m + 1 /\ m + 1 \in 0 .. m + 1 /\ m # m + 1
                BY <3>2
            <4>2. g[m] = f[m] /\ g[m + 1] = next[m + 1][f[m]]
                BY <4>1
            <4> QED BY <3>2, <4>1, <4>2
        <3> QED BY <3>1, <3>2
    <2>8. Def(g, m + 1)
        <3> HIDE DEF g
        <3> QED BY <2>5, <2>6, <2>7
    <2> HIDE DEF Def, g
    <2> QED BY <2>2, <2>8
<1> HIDE DEF Def
<1>3. \A k \in 0 .. n : k \in Reached
    <2> HIDE DEF Reached
    <2> QED BY <1>1, <1>2, UpTo
<1>4. PICK f : Def(f, n)
    BY <1>3
<1> QED BY <1>4 DEF Def, Leads

----------------------------------------------------------------------------
(* The calendar.                                                            *)

\* The leap days before a year.
LeapDays(y) == (y - 1) \div 4 - (y - 1) \div 100 + (y - 1) \div 400

\* New year in days of 365 and the leap days before it.
LEMMA NewYearIs ==
    ASSUME NEW y \in Int
    PROVE  LeapDays(y) \in Int /\ NewYear(y) \in Int /\ NewYear(y) = 365 * (y - 1) + LeapDays(y)
BY DEF NewYear, LeapDays

\* What a division gives of the number after another one.
LEMMA DivNext ==
    ASSUME NEW n \in Int, NEW size \in Nat \ {0}
    PROVE  (n + 1) \div size = n \div size + (IF (n + 1) % size = 0 THEN 1 ELSE 0)
<1> DEFINE q == n \div size
           r == n % size
<1>1. q \in Int /\ r \in 0 .. size - 1 /\ n = size * q + r
    BY Divided
<1> HIDE DEF q, r
<1>2. CASE r = size - 1
    <2>1. n + 1 = size * (q + 1) + 0 /\ 0 \in 0 .. size - 1
        BY <1>1, <1>2
    <2>2. (n + 1) \div size = q + 1 /\ (n + 1) % size = 0
        BY <1>1, <2>1, DividedOnce
    <2> QED BY <2>2 DEF q
<1>3. CASE r # size - 1
    <2>1. n + 1 = size * q + (r + 1) /\ r + 1 \in 0 .. size - 1
        BY <1>1, <1>3
    <2>2. (n + 1) \div size = q /\ (n + 1) % size = r + 1
        BY <1>1, <2>1, DividedOnce
    <2> QED BY <1>1, <2>2 DEF q
<1> QED BY <1>2, <1>3

\* A year is a day longer when it is a leap year.
LEMMA NextNewYear ==
    ASSUME NEW y \in Int
    PROVE  NewYear(y + 1) = NewYear(y) + 365 + (IF IsLeap(y) THEN 1 ELSE 0)
<1> DEFINE z == y - 1
<1>1. z \in Int /\ y = z + 1
    OBVIOUS
<1>2. (z + 1) \div 4 = z \div 4 + (IF (z + 1) % 4 = 0 THEN 1 ELSE 0)
    BY <1>1, DivNext
<1>3. (z + 1) \div 100 = z \div 100 + (IF (z + 1) % 100 = 0 THEN 1 ELSE 0)
    BY <1>1, DivNext
<1>4. (z + 1) \div 400 = z \div 400 + (IF (z + 1) % 400 = 0 THEN 1 ELSE 0)
    BY <1>1, DivNext
<1>5. ((z + 1) % 400 = 0 => (z + 1) % 100 = 0) /\ ((z + 1) % 100 = 0 => (z + 1) % 4 = 0)
    BY <1>1
<1>6. z \div 4 \in Int /\ z \div 100 \in Int /\ z \div 400 \in Int
    BY <1>1
<1>7. NewYear(y) = 365 * z + z \div 4 - z \div 100 + z \div 400
    BY DEF NewYear
<1>8. NewYear(y + 1) = 365 * (z + 1) + (z + 1) \div 4 - (z + 1) \div 100 + (z + 1) \div 400
    BY DEF NewYear
<1>9. IsLeap(y) <=> (z + 1) % 4 = 0 /\ ((z + 1) % 100 # 0 \/ (z + 1) % 400 = 0)
    BY <1>1 DEF IsLeap
<1> HIDE DEF z
<1> QED BY <1>1, <1>2, <1>3, <1>4, <1>5, <1>6, <1>7, <1>8, <1>9

\* There are more leap days before a later year.
LEMMA LeapDaysGrow ==
    ASSUME NEW a \in Int, NEW b \in Int, a <= b
    PROVE  LeapDays(a) <= LeapDays(b)
<1>1. ASSUME NEW n \in Int
      PROVE  \E p \in Int, r \in 0 .. 99 : /\ n = 100 * p + r /\ p \div 4 \in Int /\ r \div 4 \in 0 .. 24
                                           /\ n \div 4 - n \div 100 + n \div 400 = 24 * p + r \div 4 + p \div 4
    <2>1. PICK q \in Int, r \in 0 .. 99 : n = 100 * q + r
        <3>1. n \div 100 \in Int /\ n - 100 * (n \div 100) \in 0 .. 99 /\ n = 100 * (n \div 100) + (n - 100 * (n \div 100))
            OBVIOUS
        <3> QED BY <3>1
    <2>2. n \div 100 = q
        BY <2>1
    <2>3. n \div 4 = 25 * q + r \div 4 /\ r \div 4 \in 0 .. 24
        BY <2>1
    <2>4. n \div 400 = q \div 4 /\ q \div 4 \in Int
        BY <2>1
    <2> QED BY <2>1, <2>2, <2>3, <2>4
<1>2. \E p \in Int, r \in 0 .. 99 : /\ a - 1 = 100 * p + r /\ p \div 4 \in Int /\ r \div 4 \in 0 .. 24
                                    /\ LeapDays(a) = 24 * p + r \div 4 + p \div 4
    <2> DEFINE n == a - 1
    <2>1. n \in Int /\ LeapDays(a) = n \div 4 - n \div 100 + n \div 400
        BY DEF LeapDays
    <2> HIDE DEF n
    <2>2. \E p \in Int, r \in 0 .. 99 : /\ n = 100 * p + r /\ p \div 4 \in Int /\ r \div 4 \in 0 .. 24
                                        /\ LeapDays(a) = 24 * p + r \div 4 + p \div 4
        BY <1>1, <2>1
    <2> QED BY <2>2 DEF n
<1>3. \E p \in Int, r \in 0 .. 99 : /\ b - 1 = 100 * p + r /\ p \div 4 \in Int /\ r \div 4 \in 0 .. 24
                                    /\ LeapDays(b) = 24 * p + r \div 4 + p \div 4
    <2> DEFINE n == b - 1
    <2>1. n \in Int /\ LeapDays(b) = n \div 4 - n \div 100 + n \div 400
        BY DEF LeapDays
    <2> HIDE DEF n
    <2>2. \E p \in Int, r \in 0 .. 99 : /\ n = 100 * p + r /\ p \div 4 \in Int /\ r \div 4 \in 0 .. 24
                                        /\ LeapDays(b) = 24 * p + r \div 4 + p \div 4
        BY <1>1, <2>1
    <2> QED BY <2>2 DEF n
<1>4. PICK p \in Int, r \in 0 .. 99 : /\ a - 1 = 100 * p + r /\ p \div 4 \in Int /\ r \div 4 \in 0 .. 24
                                      /\ LeapDays(a) = 24 * p + r \div 4 + p \div 4
    BY <1>2
<1>5. PICK q \in Int, s \in 0 .. 99 : /\ b - 1 = 100 * q + s /\ q \div 4 \in Int /\ s \div 4 \in 0 .. 24
                                      /\ LeapDays(b) = 24 * q + s \div 4 + q \div 4
    BY <1>3
<1>6. p <= q
    BY <1>4, <1>5
<1>7. p \div 4 <= q \div 4
    BY <1>6
<1>8. CASE p = q
    <2>1. r <= s
        BY <1>4, <1>5, <1>8
    <2>2. r \div 4 <= s \div 4
        BY <2>1
    <2> QED BY <1>4, <1>5, <1>8, <2>2
<1>9. CASE p < q
    BY <1>4, <1>5, <1>7, <1>9
<1> QED BY <1>6, <1>8, <1>9

\* Between two years there are at least 365 days for each.
LEMMA NewYearGrows ==
    ASSUME NEW a \in Int, NEW b \in Int, a <= b
    PROVE  NewYear(a) + 365 * (b - a) <= NewYear(b)
BY LeapDaysGrow, NewYearIs

\* A later year begins later.
LEMMA NewYearOrder ==
    ASSUME NEW a \in Int, NEW b \in Int, a <= b
    PROVE  NewYear(a) <= NewYear(b)
<1>1. NewYear(a) + 365 * (b - a) <= NewYear(b) /\ NewYear(a) \in Int /\ NewYear(b) \in Int
    BY NewYearGrows, NewYearIs
<1> QED BY <1>1

\* The days there are and some more: a year around them.
NearDays == NewYear(MinYear) - 400 .. NewYear(MaxYear + 1) + 400

\* The days there are, and the near ones, in numbers.
LEMMA DaysAre ==
    /\ NewYear(MinYear) = -3652425 /\ NewYear(MaxYear + 1) = 3652059
    /\ \A d : d \in Days <=> d \in Int /\ -3652425 <= d /\ d <= 3652058
    /\ \A d : d \in NearDays <=> d \in Int /\ -3652825 <= d /\ d <= 3652459
<1>1. NewYear(MinYear) = -3652425
    BY SMTT(30) DEF NewYear, MinYear
<1>2. NewYear(MaxYear + 1) = 3652059
    BY SMTT(30) DEF NewYear, MaxYear
<1>3. \A d : d \in Days <=> d \in Int /\ -3652425 <= d /\ d <= 3652058
    BY SMTT(30), <1>1, <1>2 DEF Days
<1>4. \A d : d \in NearDays <=> d \in Int /\ -3652825 <= d /\ d <= 3652459
    BY SMTT(30), <1>1, <1>2 DEF NearDays
<1> QED BY SMTT(30), <1>1, <1>2, <1>3, <1>4

\* Every day is in one year.
LEMMA YearOf ==
    ASSUME NEW d \in NearDays
    PROVE  /\ Year(d) \in Int /\ NewYear(Year(d)) <= d /\ d < NewYear(Year(d) + 1)
           /\ \A x \in Int : NewYear(x) <= d /\ d < NewYear(x + 1) => x = Year(d)
<1> DEFINE y == d \div 365
<1>1. d \in Int /\ y \in Int /\ 365 * y <= d /\ d <= 365 * y + 364 /\ -10008 <= y /\ y <= 10007
    <2>1. d \in Int /\ -3652825 <= d /\ d <= 3652459
        BY SMTT(30), DaysAre
    <2>2. y \in Int /\ 365 * y <= d /\ d <= 365 * y + 364
        BY SMTT(30), <2>1
    <2> HIDE DEF y
    <2> QED BY SMTT(30), <2>1, <2>2
<1> HIDE DEF y
<1>2. ASSUME NEW z \in Int, -10100 <= z, z <= 10100 PROVE LeapDays(z) \in Int /\ -2500 <= LeapDays(z) /\ LeapDays(z) <= 2500
    <2>1. -10100 \in Int /\ 10100 \in Int
        OBVIOUS
    <2>2. LeapDays(-10100) <= LeapDays(z) /\ LeapDays(z) <= LeapDays(10100) /\ LeapDays(z) \in Int
        BY SMTT(30), <1>2, <2>1, LeapDaysGrow, NewYearIs
    <2>3. ASSUME NEW w \in Int, w = -10100 PROVE -2500 <= LeapDays(w)
        <3> DEFINE n == w - 1
        <3>1. n \in Int /\ -10104 <= n /\ n <= -10101
            BY SMTT(30), <2>3
        <3>2. LeapDays(w) = n \div 4 - n \div 100 + n \div 400
            BY DEF LeapDays
        <3> HIDE DEF n
        <3>3. -2526 <= n \div 4 /\ n \div 100 <= -102 /\ -30 <= n \div 400
            BY SMTT(30), <3>1
        <3> QED BY SMTT(30), <3>1, <3>2, <3>3
    <2>4. LeapDays(10100) = 2449
        BY SMTT(30) DEF LeapDays
    <2>5. -2500 <= LeapDays(-10100)
        BY <2>1, <2>3
    <2> QED BY SMTT(30), <2>2, <2>4, <2>5, NewYearIs
<1>3. NewYear(y - 8) \in Int /\ NewYear(y - 8) <= d
    <2> DEFINE z == y - 8
    <2>1. z \in Int /\ -10100 <= z /\ z <= 10100 /\ y = z + 8
        BY SMTT(30), <1>1
    <2> HIDE DEF z
    <2>2. LeapDays(z) \in Int /\ LeapDays(z) <= 2500 /\ NewYear(z) = 365 * (z - 1) + LeapDays(z)
        BY SMTT(30), <1>2, <2>1, NewYearIs
    <2>3. NewYear(z) \in Int /\ NewYear(z) <= d
        BY SMTT(30), <1>1, <2>1, <2>2
    <2> QED BY <2>3 DEF z
<1>4. NewYear(y + 10) \in Int /\ d < NewYear(y + 10)
    <2> DEFINE z == y + 10
    <2>1. z \in Int /\ -10100 <= z /\ z <= 10100 /\ y = z - 10
        BY SMTT(30), <1>1
    <2> HIDE DEF z
    <2>2. LeapDays(z) \in Int /\ -2500 <= LeapDays(z) /\ NewYear(z) = 365 * (z - 1) + LeapDays(z)
        BY SMTT(30), <1>2, <2>1, NewYearIs
    <2>3. NewYear(z) \in Int /\ d < NewYear(z)
        BY SMTT(30), <1>1, <2>1, <2>2
    <2> QED BY <2>3 DEF z
<1>5. \E x \in y - 8 .. y + 9 : NewYear(x) <= d /\ d < NewYear(x + 1)
    <2> SUFFICES ASSUME \A x \in y - 8 .. y + 9 : ~ (NewYear(x) <= d /\ d < NewYear(x + 1)) PROVE FALSE
        BY SMTT(30)
    <2>1. \A k \in -8 .. 9 : NewYear(y + k) <= d => NewYear(y + k + 1) <= d
        <3> TAKE k \in -8 .. 9
        <3>1. y + k \in y - 8 .. y + 9 /\ NewYear(y + k + 1) \in Int
            BY SMTT(30), <1>1, NewYearIs
        <3> QED BY SMTT(30), <1>1, <3>1
    <2>2. NewYear(y + -8) <= d
        BY SMTT(30), <1>1, <1>3
    <2>3. NewYear(y - 4) <= d
        <3>1. NewYear(y + -7) <= d
            BY SMTT(30), <1>1, <2>1, <2>2
        <3>2. NewYear(y + -6) <= d
            BY SMTT(30), <1>1, <2>1, <3>1
        <3>3. NewYear(y + -5) <= d
            BY SMTT(30), <1>1, <2>1, <3>2
        <3> QED BY SMTT(30), <1>1, <2>1, <3>3
    <2> QED BY SMTT(30), <1>1, <2>1, <2>3, <1>4
<1>6. Year(d) \in y - 8 .. y + 9 /\ NewYear(Year(d)) <= d /\ d < NewYear(Year(d) + 1)
    BY SMTT(30), <1>5 DEF Year, y
<1>7. ASSUME NEW x \in Int, NewYear(x) <= d, d < NewYear(x + 1) PROVE x = Year(d)
    <2>1. Year(d) \in Int /\ Year(d) + 1 \in Int
        BY SMTT(30), <1>1, <1>6
    <2>2. CASE x + 1 <= Year(d)
        <3>1. NewYear(x + 1) <= NewYear(Year(d))
            BY <2>1, <2>2, NewYearOrder
        <3> QED BY SMTT(30), <1>1, <1>6, <1>7, <2>1, <3>1, NewYearIs
    <2>3. CASE Year(d) + 1 <= x
        <3>1. NewYear(Year(d) + 1) <= NewYear(x)
            BY <2>1, <2>3, NewYearOrder
        <3> QED BY SMTT(30), <1>1, <1>6, <1>7, <2>1, <3>1, NewYearIs
    <2> QED BY SMTT(30), <2>1, <2>2, <2>3
<1> QED BY SMTT(30), <1>1, <1>6, <1>7

\* The days of a year before each of its months.
LEMMA BeforeIs ==
    /\ Before[1] = 0 /\ Before[2] = 31 /\ Before[3] = 59 /\ Before[4] = 90 /\ Before[5] = 120 /\ Before[6] = 151 /\ Before[7] = 181
    /\ Before[8] = 212 /\ Before[9] = 243 /\ Before[10] = 273 /\ Before[11] = 304 /\ Before[12] = 334 /\ Before[13] = 365
BY DEF Before

\* Months have 28 to 31 days, the first begins with the year and the last ends with it.
LEMMA MonthsOf ==
    ASSUME NEW y \in Int
    PROVE  /\ FirstOf(y, 1) = NewYear(y) /\ FirstOf(y, 13) = NewYear(y + 1)
           /\ \A m \in 1 .. 13 : FirstOf(y, m) \in Int
           /\ \A m \in 1 .. 12 : FirstOf(y, m) + 28 <= FirstOf(y, m + 1) /\ FirstOf(y, m + 1) <= FirstOf(y, m) + 31
<1>1. NewYear(y) \in Int /\ NewYear(y + 1) = NewYear(y) + 365 + (IF IsLeap(y) THEN 1 ELSE 0)
    BY NewYearIs, NextNewYear
<1> DEFINE leap == IF IsLeap(y) THEN 1 ELSE 0
<1>2. leap \in {0, 1}
    OBVIOUS
<1>3. ASSUME NEW m \in 1 .. 13 PROVE FirstOf(y, m) = NewYear(y) + Before[m] + (IF m > 2 THEN leap ELSE 0)
    BY DEF FirstOf
<1> HIDE DEF leap
<1>4. \A m \in 1 .. 13 : Before[m] \in Int
    BY BeforeIs
<1>5. \A m \in 1 .. 12 : /\ Before[m + 1] >= Before[m] + 28 /\ Before[m + 1] <= Before[m] + 31
                         /\ m # 2 \/ Before[m + 1] = Before[m] + 28
    BY BeforeIs
<1>6. FirstOf(y, 1) = NewYear(y) /\ FirstOf(y, 13) = NewYear(y + 1)
    BY <1>1, <1>2, <1>3, BeforeIs DEF leap
<1>7. \A m \in 1 .. 13 : FirstOf(y, m) \in Int
    BY <1>1, <1>2, <1>3, <1>4
<1>8. ASSUME NEW m \in 1 .. 12 PROVE FirstOf(y, m) + 28 <= FirstOf(y, m + 1) /\ FirstOf(y, m + 1) <= FirstOf(y, m) + 31
    <2>1. m \in 1 .. 13 /\ m + 1 \in 1 .. 13 /\ m \in Int
        OBVIOUS
    <2>2. /\ FirstOf(y, m) = NewYear(y) + Before[m] + (IF m > 2 THEN leap ELSE 0)
          /\ FirstOf(y, m + 1) = NewYear(y) + Before[m + 1] + (IF m + 1 > 2 THEN leap ELSE 0)
        BY <1>3, <2>1
    <2>3. Before[m] \in Int /\ Before[m + 1] \in Int
        BY <1>4, <2>1
    <2> QED BY <1>1, <1>2, <1>5, <2>1, <2>2, <2>3
<1> QED BY <1>6, <1>7, <1>8

\* A later month begins after an earlier one has ended.
LEMMA MonthsInOrder ==
    ASSUME NEW y \in Int, NEW a \in 1 .. 12, NEW b \in 1 .. 13, a < b
    PROVE  FirstOf(y, a + 1) <= FirstOf(y, b)
<1> DEFINE Ended(n) == FirstOf(y, a + 1) <= FirstOf(y, n)
<1>1. Ended(a + 1) /\ FirstOf(y, a + 1) \in Int
    <2>1. a + 1 \in 1 .. 13
        OBVIOUS
    <2>2. FirstOf(y, a + 1) \in Int
        BY <2>1, MonthsOf
    <2> QED BY <2>2
<1>2. ASSUME NEW n \in 1 .. 12, Ended(n) PROVE Ended(n + 1)
    <2>1. n \in 1 .. 13 /\ n + 1 \in 1 .. 13
        OBVIOUS
    <2>2. FirstOf(y, n) \in Int /\ FirstOf(y, n + 1) \in Int
        BY <2>1, MonthsOf
    <2>3. FirstOf(y, n) + 28 <= FirstOf(y, n + 1)
        BY MonthsOf
    <2> QED BY <1>1, <1>2, <2>2, <2>3
<1> HIDE DEF Ended
<1>3. ASSUME ~Ended(b) PROVE FALSE
    <2>1. \A n \in 1 .. 12 : ~Ended(n + 1) => ~Ended(n)
        BY <1>2
    <2>2. ASSUME NEW n \in 2 .. 13, ~Ended(n) PROVE ~Ended(n - 1)
        BY <2>1, <2>2
    <2>3. \E n \in 1 .. a + 1 : ~Ended(n) /\ n = a + 1
        <3>1. b = a + 1 \/ b = a + 2 \/ b = a + 3 \/ b = a + 4 \/ b = a + 5 \/ b = a + 6 \/ b = a + 7 \/ b = a + 8 \/ b = a + 9
              \/ b = a + 10 \/ b = a + 11 \/ b = a + 12
            OBVIOUS
        <3> QED BY <1>3, <2>2, <3>1
    <2> QED BY <1>1, <2>3
<1> QED BY <1>3 DEF Ended

\* Every day is in one month.
LEMMA MonthOf ==
    ASSUME NEW d \in NearDays
    PROVE  /\ \E m \in 1 .. 12 : /\ FirstOfMonth(d) = FirstOf(Year(d), m)
                                 /\ FirstOf(Year(d), m) <= d /\ d < FirstOf(Year(d), m + 1)
           /\ \A y \in Int, m \in 1 .. 12 : FirstOf(y, m) <= d /\ d < FirstOf(y, m + 1) => FirstOfMonth(d) = FirstOf(y, m)
<1> DEFINE y == Year(d)
           F(m) == FirstOf(y, m)
<1>1. d \in Int /\ y \in Int /\ NewYear(y) <= d /\ d < NewYear(y + 1)
    BY YearOf, DaysAre
<1>2. \A x \in Int : NewYear(x) <= d /\ d < NewYear(x + 1) => x = y
    BY YearOf
<1> HIDE DEF y
<1>3. F(1) <= d /\ d < F(13) /\ \A m \in 1 .. 13 : F(m) \in Int
    BY <1>1, MonthsOf
<1> HIDE DEF F
<1>4. \E m \in 1 .. 12 : F(m) <= d /\ d < F(m + 1)
    <2> SUFFICES ASSUME \A m \in 1 .. 12 : ~ (F(m) <= d /\ d < F(m + 1)) PROVE FALSE
        OBVIOUS
    <2>1. \A m \in 1 .. 12 : F(m) <= d => F(m + 1) <= d
        <3> TAKE m \in 1 .. 12
        <3>1. m + 1 \in 1 .. 13 /\ F(m + 1) \in Int
            BY <1>3
        <3> QED BY <1>1, <3>1
    <2>2. F(2) <= d
        BY <1>3, <2>1
    <2>3. F(3) <= d
        BY <2>1, <2>2
    <2>4. F(4) <= d
        BY <2>1, <2>3
    <2>5. F(5) <= d
        BY <2>1, <2>4
    <2>6. F(6) <= d
        BY <2>1, <2>5
    <2>7. F(7) <= d
        BY <2>1, <2>6
    <2>8. F(8) <= d
        BY <2>1, <2>7
    <2>9. F(9) <= d
        BY <2>1, <2>8
    <2>10. F(10) <= d
        BY <2>1, <2>9
    <2>11. F(11) <= d
        BY <2>1, <2>10
    <2>12. F(12) <= d
        BY <2>1, <2>11
    <2>13. F(13) <= d
        BY <2>1, <2>12
    <2> QED BY <1>1, <1>3, <2>13
<1>5. ASSUME NEW m \in 1 .. 12, F(m) <= d, d < F(m + 1), NEW n \in 1 .. 12, F(n) <= d, d < F(n + 1) PROVE m = n
    <2>1. /\ m < n => F(m + 1) <= F(n)
          /\ n < m => F(n + 1) <= F(m)
        BY <1>1, MonthsInOrder DEF F
    <2>2. F(m) \in Int /\ F(n) \in Int /\ m + 1 \in 1 .. 13 /\ n + 1 \in 1 .. 13 /\ F(m + 1) \in Int /\ F(n + 1) \in Int
        BY <1>3
    <2> QED BY <1>1, <1>5, <2>1, <2>2
<1>6. PICK m \in 1 .. 12 : FirstOfMonth(d) = F(m) /\ F(m) <= d /\ d < F(m + 1)
    <2>1. (CHOOSE m \in 1 .. 12 : F(m) <= d /\ d < F(m + 1)) \in 1 .. 12 /\ F(CHOOSE m \in 1 .. 12 : F(m) <= d /\ d < F(m + 1)) <= d
          /\ d < F((CHOOSE m \in 1 .. 12 : F(m) <= d /\ d < F(m + 1)) + 1)
        BY <1>4
    <2>2. FirstOfMonth(d) = F(CHOOSE m \in 1 .. 12 : F(m) <= d /\ d < F(m + 1))
        BY DEF FirstOfMonth, F, y
    <2> QED BY <2>1, <2>2
<1>7. ASSUME NEW x \in Int, NEW n \in 1 .. 12, FirstOf(x, n) <= d, d < FirstOf(x, n + 1) PROVE FirstOfMonth(d) = FirstOf(x, n)
    <2>1. NewYear(x) <= FirstOf(x, n) /\ FirstOf(x, n + 1) <= NewYear(x + 1)
        <3>1. FirstOf(x, 1) = NewYear(x) /\ FirstOf(x, 13) = NewYear(x + 1) /\ \A k \in 1 .. 13 : FirstOf(x, k) \in Int
            BY MonthsOf
        <3>2. CASE n = 1
            <4>1. FirstOf(x, n + 1) <= FirstOf(x, 13)
                BY <3>2, MonthsInOrder
            <4> QED BY <3>1, <3>2, <4>1
        <3>3. CASE n # 1
            <4>1. FirstOf(x, 1 + 1) <= FirstOf(x, n) /\ FirstOf(x, 1) + 28 <= FirstOf(x, 1 + 1)
                <5>1. 1 \in 1 .. 12 /\ n \in 1 .. 13 /\ 1 < n
                    BY <3>3
                <5>2. FirstOf(x, 1 + 1) <= FirstOf(x, n)
                    BY <5>1, MonthsInOrder
                <5>3. FirstOf(x, 1) + 28 <= FirstOf(x, 1 + 1)
                    BY <5>1, MonthsOf
                <5> QED BY <5>2, <5>3
            <4>2. FirstOf(x, n + 1) <= FirstOf(x, 13)
                BY MonthsInOrder
            <4>3. FirstOf(x, 1) \in Int /\ FirstOf(x, 1 + 1) \in Int /\ FirstOf(x, n) \in Int
                BY <3>1
            <4> QED BY <3>1, <4>1, <4>2, <4>3
        <3> QED BY <3>2, <3>3
    <2>2. NewYear(x) \in Int /\ NewYear(x + 1) \in Int /\ FirstOf(x, n) \in Int /\ n + 1 \in 1 .. 13 /\ FirstOf(x, n + 1) \in Int
        <3>1. n \in 1 .. 13 /\ n + 1 \in 1 .. 13 /\ x + 1 \in Int
            OBVIOUS
        <3>2. FirstOf(x, n) \in Int /\ FirstOf(x, n + 1) \in Int
            BY <3>1, MonthsOf
        <3>3. NewYear(x) \in Int /\ NewYear(x + 1) \in Int
            BY <3>1, NewYearIs
        <3> QED BY <3>1, <3>2, <3>3
    <2>3. NewYear(x) <= d /\ d < NewYear(x + 1)
        BY <1>1, <1>7, <2>1, <2>2
    <2>4. x = y
        BY <1>2, <2>3
    <2>5. n = m
        BY <1>5, <1>6, <1>7, <2>4 DEF F
    <2> QED BY <1>6, <2>4, <2>5 DEF F
<1>8. \E k \in 1 .. 12 : FirstOfMonth(d) = FirstOf(Year(d), k) /\ FirstOf(Year(d), k) <= d /\ d < FirstOf(Year(d), k + 1)
    BY <1>6 DEF F, y
<1> QED BY <1>7, <1>8

----------------------------------------------------------------------------
(* The edges in UTC.                                                        *)

\* The unit that a day is in starts at `start', the one after it at `next'.
IsUnit(unit, d, start, next) ==
    /\ start \in d - Longest(unit) + 1 .. d /\ next \in d + 1 .. d + Longest(unit)
    /\ StartsUnit(unit, start) /\ StartsUnit(unit, next)
    /\ \A k \in start + 1 .. next - 1 : ~StartsUnit(unit, k)

\* There is one such start, and one such next start.
LEMMA OneUnit ==
    ASSUME NEW unit \in Units, NEW d \in Int, NEW start, NEW next, IsUnit(unit, d, start, next)
    PROVE  /\ {n \in d - Longest(unit) + 1 .. d : StartsUnit(unit, n) /\ \A k \in n + 1 .. d : ~StartsUnit(unit, k)} = {start}
           /\ {n \in d + 1 .. d + Longest(unit) : StartsUnit(unit, n) /\ \A k \in d + 1 .. n - 1 : ~StartsUnit(unit, k)} = {next}
<1>1. Longest(unit) \in Int
    BY DEF Longest, Units
<1>2. /\ start \in d - Longest(unit) + 1 .. d /\ next \in d + 1 .. d + Longest(unit)
      /\ StartsUnit(unit, start) /\ StartsUnit(unit, next)
      /\ \A k \in start + 1 .. next - 1 : ~StartsUnit(unit, k)
    BY DEF IsUnit
<1>3. start \in Int /\ next \in Int /\ start <= d /\ d < next
    BY <1>1, <1>2
<1>4. \A k \in start + 1 .. d : ~StartsUnit(unit, k)
    BY <1>2, <1>3
<1>5. \A k \in d + 1 .. next - 1 : ~StartsUnit(unit, k)
    BY <1>2, <1>3
<1>6. ASSUME NEW n \in d - Longest(unit) + 1 .. d, StartsUnit(unit, n), \A k \in n + 1 .. d : ~StartsUnit(unit, k) PROVE n = start
    <2>1. n \in Int /\ n <= d
        BY <1>1
    <2>2. CASE n < start
        <3>1. start \in n + 1 .. d
            BY <1>3, <2>1, <2>2
        <3> QED BY <1>2, <1>6, <3>1
    <2>3. CASE start < n
        <3>1. n \in start + 1 .. d
            BY <1>3, <2>1, <2>3
        <3> QED BY <1>4, <1>6, <3>1
    <2> QED BY <1>3, <2>1, <2>2, <2>3
<1>7. ASSUME NEW n \in d + 1 .. d + Longest(unit), StartsUnit(unit, n), \A k \in d + 1 .. n - 1 : ~StartsUnit(unit, k) PROVE n = next
    <2>1. n \in Int /\ d < n
        BY <1>1
    <2>2. CASE next < n
        <3>1. next \in d + 1 .. n - 1
            BY <1>3, <2>1, <2>2
        <3> QED BY <1>2, <1>7, <3>1
    <2>3. CASE n < next
        <3>1. n \in d + 1 .. next - 1
            BY <1>3, <2>1, <2>3
        <3> QED BY <1>5, <1>7, <3>1
    <2> QED BY <1>3, <2>1, <2>2, <2>3
<1>8. {n \in d - Longest(unit) + 1 .. d : StartsUnit(unit, n) /\ \A k \in n + 1 .. d : ~StartsUnit(unit, k)} = {start}
    BY <1>2, <1>4, <1>6
<1>9. {n \in d + 1 .. d + Longest(unit) : StartsUnit(unit, n) /\ \A k \in d + 1 .. n - 1 : ~StartsUnit(unit, k)} = {next}
    BY <1>2, <1>5, <1>7
<1> QED BY <1>8, <1>9

\* A day is a unit of one day.
LEMMA DayIs ==
    ASSUME NEW d \in Int
    PROVE  IsUnit("day", d, d, d + 1)
<1>1. Longest("day") = 1 /\ \A n : StartsUnit("day", n)
    BY DEF Longest, StartsUnit
<1> QED BY <1>1 DEF IsUnit

\* A week begins at a multiple of seven days and has seven.
LEMMA WeekIs ==
    ASSUME NEW d \in Int
    PROVE  IsUnit("week", d, d - (d % 7), d - (d % 7) + 7)
<1>1. Longest("week") = 7 /\ \A n : StartsUnit("week", n) <=> n % 7 = 0
    BY DEF Longest, StartsUnit
<1> DEFINE q == d \div 7
           r == d % 7
<1>2. q \in Int /\ r \in 0 .. 6 /\ d = 7 * q + r
    BY Divided
<1> HIDE DEF q, r
<1>3. d - r = 7 * q /\ d - r + 7 = 7 * (q + 1) /\ d - r \in Int /\ q + 1 \in Int
    BY <1>2
<1>4. (d - r) % 7 = 0 /\ (d - r + 7) % 7 = 0
    BY <1>2, <1>3
<1>5. ASSUME NEW k \in d - r + 1 .. d - r + 7 - 1 PROVE k % 7 # 0
    <2>1. k \in Int /\ k - 7 * q \in 1 .. 6 /\ k = 7 * q + (k - 7 * q)
        BY <1>2, <1>3
    <2> QED BY <1>2, <2>1
<1>6. d - r \in d - 7 + 1 .. d /\ d - r + 7 \in d + 1 .. d + 7
    BY <1>2
<1>7. IsUnit("week", d, d - r, d - r + 7)
    BY <1>1, <1>4, <1>5, <1>6 DEF IsUnit
<1> QED BY <1>7 DEF r

\* The month after one is a month, of that year or of the next one.
LEMMA AfterMonth ==
    ASSUME NEW y \in Int, NEW m \in 1 .. 12
    PROVE  \E x \in Int, n \in 1 .. 12 : FirstOf(y, m + 1) = FirstOf(x, n)
<1>1. CASE m = 12
    <2>1. y + 1 \in Int /\ 1 \in 1 .. 12 /\ m + 1 = 13
        BY <1>1
    <2>2. FirstOf(y, 13) = NewYear(y + 1)
        BY MonthsOf
    <2>3. FirstOf(y + 1, 1) = NewYear(y + 1)
        BY <2>1, MonthsOf
    <2> QED BY <2>1, <2>2, <2>3
<1>2. CASE m # 12
    <2>1. m + 1 \in 1 .. 12
        BY <1>2
    <2> QED BY <2>1
<1> QED BY <1>1, <1>2

\* A day that begins a month is the first of its month.
LEMMA FirstsAre ==
    ASSUME NEW y \in Int, NEW m \in 1 .. 12, FirstOf(y, m) \in NearDays
    PROVE  FirstOfMonth(FirstOf(y, m)) = FirstOf(y, m)
<1>1. FirstOf(y, m) + 28 <= FirstOf(y, m + 1)
    BY MonthsOf
<1>2. m \in 1 .. 13 /\ m + 1 \in 1 .. 13
    OBVIOUS
<1>3. FirstOf(y, m) \in Int /\ FirstOf(y, m + 1) \in Int
    BY <1>2, MonthsOf
<1>4. FirstOf(y, m) <= FirstOf(y, m) /\ FirstOf(y, m) < FirstOf(y, m + 1)
    BY <1>1, <1>3
<1> QED BY <1>4, MonthOf

\* The month of a day: with the month after it, and where 31 days lead to.
LEMMA MonthIs ==
    ASSUME NEW d \in Days
    PROVE  \E next : /\ IsUnit("month", d, FirstOfMonth(d), next) /\ FirstOfMonth(d) \in Days /\ next \in Int
                     /\ FirstOfMonth(FirstOfMonth(d) + 31) = next
                     /\ next \in Days => FirstOfMonth(d) + 31 \in Days
<1>1. d \in NearDays /\ d \in Int
    BY SMTT(30), DaysAre
<1> DEFINE y == Year(d)
           f == FirstOfMonth(d)
<1>2. PICK m \in 1 .. 12 : f = FirstOf(y, m) /\ f <= d /\ d < FirstOf(y, m + 1)
    BY <1>1, MonthOf
<1>3. y \in Int /\ NewYear(y) <= d /\ d < NewYear(y + 1)
    BY <1>1, YearOf
<1> DEFINE g == FirstOf(y, m + 1)
<1>4. PICK x \in Int, n \in 1 .. 12 : g = FirstOf(x, n)
    BY <1>3, AfterMonth
<1> DEFINE h == FirstOf(x, n + 1)
<1> HIDE DEF y, f
<1>5. f \in Int /\ g \in Int /\ h \in Int /\ f + 28 <= g /\ g <= f + 31 /\ g + 28 <= h /\ h <= g + 31
    <2>1. m \in 1 .. 13 /\ m + 1 \in 1 .. 13 /\ n \in 1 .. 13 /\ n + 1 \in 1 .. 13
        OBVIOUS
    <2>2. FirstOf(y, m) \in Int /\ FirstOf(y, m + 1) \in Int /\ FirstOf(y, m) + 28 <= FirstOf(y, m + 1) /\ FirstOf(y, m + 1) <= FirstOf(y, m) + 31
        BY <1>3, <2>1, MonthsOf
    <2>3. FirstOf(x, n) \in Int /\ FirstOf(x, n + 1) \in Int /\ FirstOf(x, n) + 28 <= FirstOf(x, n + 1) /\ FirstOf(x, n + 1) <= FirstOf(x, n) + 31
        BY <2>1, MonthsOf
    <2> QED BY <1>2, <1>4, <2>2, <2>3
<1>6. FirstOfMonth(g) = g
    <2>1. g \in NearDays
        <3>1. f <= d /\ d < g
            BY <1>2
        <3> HIDE DEF g, h
        <3> QED BY SMTT(30), <1>1, <1>5, <3>1, DaysAre
    <2> QED BY <1>4, <2>1, FirstsAre
<1>7. FirstOfMonth(f) = f
    <2>1. f \in NearDays
        <3> HIDE DEF g, h
        <3>1. d < g
            BY <1>2 DEF g
        <3> QED BY SMTT(30), <1>1, <1>2, <1>5, <3>1, DaysAre
    <2> QED BY <1>2, <1>3, <2>1, FirstsAre
<1>8. FirstOfMonth(f + 31) = g
    <2>1. f + 31 \in NearDays
        <3>1. f <= d /\ d < g
            BY <1>2
        <3> HIDE DEF g, h
        <3> QED BY SMTT(30), <1>1, <1>5, <3>1, DaysAre
    <2>2. FirstOf(x, n) <= f + 31 /\ f + 31 < FirstOf(x, n + 1)
        BY <1>4, <1>5
    <2> QED BY <1>4, <2>1, <2>2, MonthOf
<1>9. ASSUME NEW k \in f + 1 .. g - 1 PROVE FirstOfMonth(k) # k
    <2>1. k \in Int /\ f < k /\ k < g
        BY <1>5
    <2>2. k \in NearDays
        <3>1. f <= d /\ d < g
            BY <1>2
        <3> HIDE DEF g, h
        <3> QED BY SMTT(30), <1>1, <1>5, <2>1, <3>1, DaysAre
    <2>3. FirstOf(y, m) <= k /\ k < FirstOf(y, m + 1)
        BY <1>2, <1>5, <2>1
    <2>4. FirstOfMonth(k) = f
        BY <1>2, <1>3, <2>2, <2>3, MonthOf
    <2> QED BY <1>5, <2>1, <2>4
<1>10. NewYear(y) <= f /\ NewYear(MinYear) <= NewYear(y)
    <2>1. NewYear(y) <= f
        <3>1. FirstOf(y, 1) = NewYear(y) /\ FirstOf(y, 1) \in Int
            BY <1>3, MonthsOf
        <3>2. CASE m = 1
            BY <1>2, <1>5, <3>1, <3>2
        <3>3. CASE m # 1
            <4>1. 1 \in 1 .. 12 /\ m \in 1 .. 13 /\ 1 < m /\ 1 + 1 \in 1 .. 13
                BY <3>3
            <4>2. FirstOf(y, 1 + 1) <= FirstOf(y, m) /\ FirstOf(y, 1) + 28 <= FirstOf(y, 1 + 1) /\ FirstOf(y, 1 + 1) \in Int
                BY <1>3, <4>1, MonthsInOrder, MonthsOf
            <4> QED BY <1>2, <1>5, <3>1, <4>2
        <3> QED BY <3>2, <3>3
    <2>2. ASSUME y < MinYear PROVE FALSE
        <3>1. y + 1 <= MinYear /\ MinYear \in Int /\ y + 1 \in Int
            BY <1>3, <2>2 DEF MinYear
        <3>2. NewYear(y + 1) <= NewYear(MinYear)
            BY <3>1, NewYearOrder
        <3>3. NewYear(y + 1) \in Int
            BY <3>1, NewYearIs
        <3> QED BY SMTT(30), <1>1, <1>3, <3>2, <3>3, DaysAre
    <2>3. MinYear <= y /\ MinYear \in Int
        BY <1>3, <2>2 DEF MinYear
    <2> QED BY <1>3, <2>1, <2>3, NewYearOrder
<1>11. f \in Days
    <2>1. NewYear(y) \in Int
        BY <1>3, NewYearIs
    <2> QED BY SMTT(30), <1>1, <1>2, <1>5, <1>10, <2>1, DaysAre
<1>12. ASSUME g \in Days PROVE f + 31 \in Days
    <2>1. h <= NewYear(x + 1) /\ NewYear(x) <= g /\ NewYear(x + 1) \in Int /\ NewYear(x) \in Int
        <3>1. NewYear(x + 1) = FirstOf(x, 13) /\ NewYear(x + 1) \in Int /\ NewYear(x) = FirstOf(x, 1) /\ NewYear(x) \in Int
            BY MonthsOf, NewYearIs
        <3>2. n \in 1 .. 12 /\ 13 \in 1 .. 13 /\ n < 13
            OBVIOUS
        <3>3. h <= FirstOf(x, 13)
            BY <3>2, MonthsInOrder
        <3>4. CASE n = 1
            BY <1>4, <1>5, <3>1, <3>3, <3>4
        <3>5. CASE n # 1
            <4>1. 1 \in 1 .. 12 /\ n \in 1 .. 13 /\ 1 < n /\ 1 + 1 \in 1 .. 13
                BY <3>5
            <4>2. FirstOf(x, 1 + 1) <= FirstOf(x, n) /\ FirstOf(x, 1) + 28 <= FirstOf(x, 1 + 1) /\ FirstOf(x, 1 + 1) \in Int
                BY <4>1, MonthsInOrder, MonthsOf
            <4> QED BY <1>4, <1>5, <3>1, <3>3, <4>2
        <3> QED BY <3>4, <3>5
    <2>2. ASSUME MaxYear < x PROVE FALSE
        <3>1. MaxYear + 1 <= x /\ MaxYear + 1 \in Int
            BY <2>2 DEF MaxYear
        <3>2. NewYear(MaxYear + 1) <= NewYear(x)
            BY <3>1, NewYearOrder
        <3> HIDE DEF g, h
        <3> QED BY SMTT(30), <1>5, <1>12, <2>1, <3>2, DaysAre
    <2>3. x + 1 <= MaxYear + 1 /\ MaxYear + 1 \in Int /\ x + 1 \in Int
        BY <2>2 DEF MaxYear
    <2>4. NewYear(x + 1) <= NewYear(MaxYear + 1)
        BY <2>3, NewYearOrder
    <2> HIDE DEF g, h
    <2> QED BY SMTT(30), <1>5, <1>12, <2>1, <2>4, DaysAre
<1>13. IsUnit("month", d, f, g)
    <2>1. Longest("month") = 31 /\ \A k : StartsUnit("month", k) <=> k = FirstOfMonth(k)
        BY DEF Longest, StartsUnit
    <2>2. f \in d - 31 + 1 .. d /\ g \in d + 1 .. d + 31
        <3>1. f <= d /\ d < g
            BY <1>2
        <3> HIDE DEF g, h
        <3> QED BY <1>1, <1>5, <3>1
    <2> HIDE DEF g, h
    <2> QED BY <1>6, <1>7, <1>9, <2>1, <2>2 DEF IsUnit
<1> QED BY <1>5, <1>8, <1>11, <1>12, <1>13 DEF f

\* The year of a day, and the year after it.
LEMMA YearIs ==
    ASSUME NEW d \in Days
    PROVE  IsUnit("year", d, NewYear(Year(d)), NewYear(Year(d) + 1)) /\ NewYear(Year(d)) \in Days /\ NewYear(Year(d) + 1) \in Int
<1>1. d \in NearDays /\ d \in Int
    BY SMTT(30), DaysAre
<1> DEFINE y == Year(d)
           f == NewYear(y)
           g == NewYear(y + 1)
<1>2. y \in Int /\ f <= d /\ d < g
    BY <1>1, YearOf
<1> HIDE DEF y
<1>3. f \in Int /\ g \in Int /\ NewYear(y + 1 + 1) \in Int
    BY <1>2, NewYearIs
<1>4. (g = f + 365 \/ g = f + 366) /\ g < NewYear(y + 1 + 1)
    <2>1. y + 1 \in Int
        BY <1>2
    <2>2. g = f + 365 + (IF IsLeap(y) THEN 1 ELSE 0)
        BY <1>2, NextNewYear
    <2>3. NewYear(y + 1 + 1) = g + 365 + (IF IsLeap(y + 1) THEN 1 ELSE 0)
        BY <2>1, NextNewYear
    <2> HIDE DEF f, g
    <2> QED BY <1>3, <2>2, <2>3
<1>5. NewYear(MinYear) <= f
    <2>1. ASSUME y < MinYear PROVE FALSE
        <3>1. y + 1 <= MinYear /\ MinYear \in Int /\ y + 1 \in Int
            BY <1>2, <2>1 DEF MinYear
        <3>2. g <= NewYear(MinYear)
            BY <3>1, NewYearOrder
        <3> HIDE DEF f, g
        <3> QED BY SMTT(30), <1>1, <1>2, <1>3, <3>2, DaysAre
    <2>2. MinYear <= y /\ MinYear \in Int
        BY <1>2, <2>1 DEF MinYear
    <2> QED BY <1>2, <2>2, NewYearOrder
<1>6. ASSUME NEW k \in Int, f <= k, k < g PROVE k \in NearDays /\ Year(k) = y
    <2>1. k \in NearDays
        <3> HIDE DEF f, g
        <3> QED BY SMTT(30), <1>1, <1>2, <1>3, <1>4, <1>6, DaysAre
    <2> QED BY <1>2, <1>6, <2>1, YearOf
<1>7. NewYear(Year(g)) = g
    <2>1. g \in NearDays
        <3> HIDE DEF f, g
        <3> QED BY SMTT(30), <1>1, <1>2, <1>3, <1>4, DaysAre
    <2>2. y + 1 \in Int /\ NewYear(y + 1) <= g /\ g < NewYear(y + 1 + 1)
        BY <1>2, <1>3, <1>4
    <2>3. y + 1 = Year(g)
        BY <2>1, <2>2, YearOf
    <2> QED BY <2>3
<1>8. NewYear(Year(f)) = f
    <2>1. f <= f /\ f < g
        BY <1>3, <1>4
    <2> QED BY <1>3, <1>6, <2>1
<1>9. \A k \in f + 1 .. g - 1 : NewYear(Year(k)) # k
    <2> TAKE k \in f + 1 .. g - 1
    <2>1. k \in Int /\ f < k /\ k < g
        BY <1>3
    <2>2. Year(k) = y
        BY <1>3, <1>6, <2>1
    <2> QED BY <1>3, <2>1, <2>2
<1>10. f \in Days
    BY SMTT(30), <1>1, <1>2, <1>3, <1>5, DaysAre
<1>11. IsUnit("year", d, f, g)
    <2>1. Longest("year") = 366 /\ \A k : StartsUnit("year", k) <=> k = NewYear(Year(k))
        BY DEF Longest, StartsUnit
    <2> HIDE DEF f, g
    <2>2. f \in d - 366 + 1 .. d /\ g \in d + 1 .. d + 366
        BY <1>1, <1>2, <1>3, <1>4
    <2> QED BY <1>7, <1>8, <1>9, <2>1, <2>2 DEF IsUnit
<1> QED BY <1>3, <1>10, <1>11 DEF y

\* The ticks of a day, and those of a number of days.
LEMMA TicksOfDay ==
    ASSUME NEW d \in Int
    PROVE  /\ Midnight(d) \in Int /\ DayOf(Midnight(d)) = d
           /\ DayOf(Midnight(d) + TicksPerDay - 1) = d
           /\ Midnight(d + 1) = Midnight(d) + TicksPerDay
           /\ Midnight(d) + 7 * TicksPerDay = Midnight(d + 7)
           /\ Midnight(d) + 7 * TicksPerDay - 1 = Midnight(d + 6) + TicksPerDay - 1
<1>1. TicksPerDay \in Nat \ {0}
    BY TicksAssumption
<1>2. Midnight(d) = TicksPerDay * d + 0 /\ Midnight(d) \in Int /\ 0 \in 0 .. TicksPerDay - 1
    BY <1>1 DEF Midnight
<1>3. DayOf(Midnight(d)) = d
    BY <1>1, <1>2, DividedOnce DEF DayOf
<1> DEFINE last == Midnight(d) + TicksPerDay - 1
<1>4. last = TicksPerDay * d + (TicksPerDay - 1) /\ last \in Int /\ TicksPerDay - 1 \in 0 .. TicksPerDay - 1
    BY <1>1, <1>2
<1> HIDE DEF last
<1>5. DayOf(last) = d
    BY <1>1, <1>4, DividedOnce DEF DayOf
<1>6. \A k \in 0 .. 7 : Midnight(d + k) = Midnight(d) + k * TicksPerDay
    BY <1>1 DEF Midnight
<1> QED BY <1>1, <1>2, <1>3, <1>5, <1>6 DEF last

\* Edges that are those of the unit a day is in, and that are refused only where the years end.
AreEdges(unit, d, e) == \E start \in Int, next \in Int :
    /\ IsUnit(unit, d, start, next)
    /\ e.start = Midnights({start}) /\ e.next \subseteq Midnights({next}) /\ e.end \subseteq {Midnight(next) - 1}
    /\ start \in Days /\ next \in Days => e.next # {} /\ e.end # {}

\* The edges of any unit in UTC are those of the unit around the day.
LEMMA UtcUnit ==
    ASSUME NEW unit \in Units, NEW d \in Days
    PROVE  AreEdges(unit, d, UtcEdges(unit, d))
<1>1. d \in Int
    BY SMTT(30), DaysAre
<1> DEFINE e == UtcEdges(unit, d)
<1>2. ASSUME NEW start \in Int, NEW next \in Int, IsUnit(unit, d, start, next),
             e.start = Midnights({start}), e.next \subseteq Midnights({next}), e.end \subseteq {Midnight(next) - 1},
             start \in Days /\ next \in Days => e.next # {} /\ e.end # {}
      PROVE  AreEdges(unit, d, e)
    BY <1>2 DEF AreEdges
<1>3. CASE unit = "day"
    <2>1. e = [start |-> {Midnight(d)}, end |-> {LastTick(d)}, next |-> Midnights({d + 1})]
        BY <1>3 DEF UtcEdges, DayEdges, Edges
    <2>2. IsUnit(unit, d, d, d + 1)
        BY <1>1, <1>3, DayIs
    <2>3. Midnights({d}) = {Midnight(d)}
        BY DEF Midnights
    <2>4. LastTick(d) = Midnight(d + 1) - 1
        BY <1>1, TicksOfDay, TicksAssumption DEF LastTick
    <2>5. d + 1 \in Days => Midnights({d + 1}) # {}
        BY DEF Midnights
    <2> HIDE DEF e
    <2>6. /\ d \in Int /\ (d + 1) \in Int /\ IsUnit(unit, d, d, (d + 1))
          /\ e.start = Midnights({d}) /\ e.next \subseteq Midnights({(d + 1)}) /\ e.end \subseteq {Midnight((d + 1)) - 1}
          /\ d \in Days /\ (d + 1) \in Days => e.next # {} /\ e.end # {}
        <3>1. d \in Int /\ d + 1 \in Int
            BY <1>1
        <3>2. e.start = Midnights({d}) /\ e.next = Midnights({d + 1}) /\ e.end = {Midnight(d + 1) - 1}
            BY <2>1, <2>3, <2>4
        <3> QED BY <2>2, <2>5, <3>1, <3>2
    <2> QED BY <1>2, <2>6 DEF e
<1>4. CASE unit = "week"
    <2> DEFINE f == d - (d % 7)
    <2>1. IsUnit(unit, d, f, f + 7) /\ f \in Int
        BY <1>1, <1>4, WeekIs
    <2>2. /\ e.start = Midnights({f})
          /\ e.end = UNION {Checked(t + 7 * TicksPerDay - 1) : t \in Midnights({f})}
          /\ e.next = UNION {Checked(t + 7 * TicksPerDay) : t \in Midnights({f})}
        BY <1>4 DEF UtcEdges, WeekEdges, Edges
    <2> HIDE DEF f, e
    <2>3. Midnights({f}) = IF f \in Days THEN {Midnight(f)} ELSE {}
        BY DEF Midnights
    <2>4. Midnight(f) + 7 * TicksPerDay = Midnight(f + 7) /\ DayOf(Midnight(f + 7)) = f + 7
        BY <2>1, TicksOfDay
    <2>5. Midnight(f) + 7 * TicksPerDay - 1 = Midnight(f + 7) - 1 /\ DayOf(Midnight(f) + 7 * TicksPerDay - 1) = f + 6
        <3>1. f + 6 \in Int
            BY <2>1
        <3>2. DayOf(Midnight(f + 6) + TicksPerDay - 1) = f + 6
            BY <3>1, TicksOfDay
        <3>3. Midnight(f) + 7 * TicksPerDay - 1 = Midnight(f + 6) + TicksPerDay - 1
            BY <2>1, TicksOfDay
        <3>4. Midnight(f) \in Int /\ TicksPerDay \in Int
            BY <2>1, TicksOfDay, TicksAssumption
        <3>5. Midnight(f) + 7 * TicksPerDay - 1 = Midnight(f + 7) - 1
            BY <2>4, <3>4
        <3>6. DayOf(Midnight(f) + 7 * TicksPerDay - 1) = f + 6
            BY <3>2, <3>3
        <3> QED BY <3>5, <3>6
    <2>6. e.next = IF f \in Days /\ f + 7 \in Days THEN {Midnight(f + 7)} ELSE {}
        BY <2>2, <2>3, <2>4 DEF Checked, Known
    <2>7. e.end = IF f \in Days /\ f + 6 \in Days THEN {Midnight(f + 7) - 1} ELSE {}
        BY <2>2, <2>3, <2>5 DEF Checked, Known
    <2>8. f \in Days /\ f + 7 \in Days => f + 6 \in Days
        BY SMTT(30), <2>1, DaysAre
    <2>9. Midnights({f + 7}) = IF f + 7 \in Days THEN {Midnight(f + 7)} ELSE {}
        BY DEF Midnights
    <2>10. /\ f \in Int /\ (f + 7) \in Int /\ IsUnit(unit, d, f, (f + 7))
           /\ e.start = Midnights({f}) /\ e.next \subseteq Midnights({(f + 7)}) /\ e.end \subseteq {Midnight((f + 7)) - 1}
           /\ f \in Days /\ (f + 7) \in Days => e.next # {} /\ e.end # {}
        <3>1. f \in Int /\ f + 7 \in Int /\ IsUnit(unit, d, f, f + 7) /\ e.start = Midnights({f})
            BY <2>1, <2>2
        <3>2. e.next \subseteq Midnights({f + 7}) /\ e.end \subseteq {Midnight(f + 7) - 1}
            BY <2>6, <2>7, <2>9
        <3>3. f \in Days /\ f + 7 \in Days => e.next # {} /\ e.end # {}
            BY <2>6, <2>7, <2>8
        <3> QED BY <3>1, <3>2, <3>3
    <2> QED BY <1>2, <2>10 DEF e
<1>5. CASE unit = "month"
    <2> DEFINE f == FirstOfMonth(d)
    <2> HIDE DEF f
    <2>8. f \in Days => f \in Int
        BY SMTT(30), DaysAre
    <2>1. PICK next : /\ IsUnit("month", d, f, next) /\ f \in Days /\ next \in Int
                      /\ FirstOfMonth(f + 31) = next
                      /\ next \in Days => f + 31 \in Days
        BY MonthIs DEF f
    <2>2. /\ e.start = {Midnight(f)} /\ e.end = {t - 1 : t \in Midnights(NextMonth(d))} /\ e.next = Midnights(NextMonth(d))
        BY <1>5 DEF UtcEdges, MonthEdges, Edges, f
    <2>3. NextMonth(d) = {FirstOfMonth(n) : n \in {f + 31} \cap Days}
        BY DEF NextMonth, f
    <2> HIDE DEF e
    <2>4. NextMonth(d) = IF f + 31 \in Days THEN {next} ELSE {}
        BY <2>1, <2>3
    <2>5. Midnights({f}) = {Midnight(f)}
        BY <2>1 DEF Midnights
    <2>6. Midnights({next}) = (IF next \in Days THEN {Midnight(next)} ELSE {}) /\ Midnights({}) = {}
        BY DEF Midnights
    <2>7. /\ e.next \subseteq Midnights({next}) /\ e.end \subseteq {Midnight(next) - 1}
          /\ next \in Days => e.next # {} /\ e.end # {}
        <3>1. CASE f + 31 \in Days
            <4>1. e.next = Midnights({next}) /\ e.end = {t - 1 : t \in Midnights({next})}
                BY <2>2, <2>4, <3>1
            <4> QED BY <2>6, <4>1
        <3>2. CASE f + 31 \notin Days
            <4>1. e.next = Midnights({}) /\ e.end = {t - 1 : t \in Midnights({})} /\ next \notin Days
                BY <2>1, <2>2, <2>4, <3>2
            <4> QED BY <2>6, <4>1
        <3> QED BY <3>1, <3>2
    <2>9. /\ f \in Int /\ next \in Int /\ IsUnit(unit, d, f, next)
          /\ e.start = Midnights({f}) /\ e.next \subseteq Midnights({next}) /\ e.end \subseteq {Midnight(next) - 1}
          /\ f \in Days /\ next \in Days => e.next # {} /\ e.end # {}
        BY <1>5, <2>1, <2>2, <2>5, <2>7, <2>8
    <2> QED BY <1>2, <2>9 DEF e
<1>6. CASE unit = "year"
    <2> DEFINE f == NewYear(Year(d))
               g == NewYear(Year(d) + 1)
    <2>1. IsUnit(unit, d, f, g) /\ f \in Days /\ f \in Int /\ g \in Int
        <3>1. IsUnit("year", d, f, g) /\ f \in Days /\ g \in Int
            BY YearIs
        <3> HIDE DEF f, g
        <3> QED BY SMTT(30), <1>6, <3>1, DaysAre
    <2>2. e.start = {Midnight(f)} /\ e.end = {t - 1 : t \in Midnights({g})} /\ e.next = Midnights({g})
        BY <1>6 DEF UtcEdges, YearEdges, Edges
    <2> HIDE DEF f, g, e
    <2>3. Midnights({f}) = {Midnight(f)}
        BY <2>1 DEF Midnights
    <2>4. Midnights({g}) = IF g \in Days THEN {Midnight(g)} ELSE {}
        BY DEF Midnights
    <2>5. /\ e.next = Midnights({g}) /\ e.end \subseteq {Midnight(g) - 1}
          /\ g \in Days => e.next # {} /\ e.end # {}
        BY <2>2, <2>4
    <2>6. /\ f \in Int /\ g \in Int /\ IsUnit(unit, d, f, g)
          /\ e.start = Midnights({f}) /\ e.next \subseteq Midnights({g}) /\ e.end \subseteq {Midnight(g) - 1}
          /\ f \in Days /\ g \in Days => e.next # {} /\ e.end # {}
        BY <2>1, <2>2, <2>3, <2>5
    <2> QED BY <1>2, <2>6 DEF e
<1> QED BY <1>3, <1>4, <1>5, <1>6 DEF Units

\* Of any date, the edges of its day, week, month and year are those of the unit it is in; and
\* they are refused only where the years end.
THEOREM EdgesRightCorrect == \A unit \in Units, d \in Days : EdgesRight(unit, d)
<1> SUFFICES ASSUME NEW unit \in Units, NEW d \in Days PROVE EdgesRight(unit, d)
    OBVIOUS
<1>1. d \in Int
    BY SMTT(30), DaysAre
<1> DEFINE e == UtcEdges(unit, d)
           first == {n \in d - Longest(unit) + 1 .. d : StartsUnit(unit, n) /\ \A k \in n + 1 .. d : ~StartsUnit(unit, k)}
           after == {n \in d + 1 .. d + Longest(unit) : StartsUnit(unit, n) /\ \A k \in d + 1 .. n - 1 : ~StartsUnit(unit, k)}
<1>2. PICK start \in Int, next \in Int :
          /\ IsUnit(unit, d, start, next)
          /\ e.start = Midnights({start}) /\ e.next \subseteq Midnights({next}) /\ e.end \subseteq {Midnight(next) - 1}
          /\ start \in Days /\ next \in Days => e.next # {} /\ e.end # {}
    BY UtcUnit DEF AreEdges
<1>3. first = {start} /\ after = {next}
    BY <1>1, <1>2, OneUnit
<1> HIDE DEF first, after, e
<1>4. /\ e.start = Midnights(first)
      /\ e.next \subseteq Midnights(after) /\ e.end \subseteq {Midnight(n) - 1 : n \in after}
      /\ first \union after \subseteq Days => e.next # {} /\ e.end # {}
    BY <1>2, <1>3
<1> QED BY <1>4 DEF EdgesRight, first, after, e

----------------------------------------------------------------------------
(* The edges in a zone.                                                     *)

\* The readings that are taken for edges.
LocalReadings(unit, d) == CASE unit = "day" -> LocalDay(d)
                            [] unit = "week" -> LocalWeek(d)
                            [] unit = "month" -> LocalMonth(d)
                            [] unit = "year" -> LocalYear(d)

\* So are the readings of the edges that a zone looks up.
LEMMA LocalUnit ==
    ASSUME NEW unit \in Units, NEW d \in Days
    PROVE  AreEdges(unit, d, LocalReadings(unit, d))
<1>1. d \in Int
    BY SMTT(30), DaysAre
<1>2. CASE unit = "day"
    <2>1. LocalReadings(unit, d) = UtcEdges(unit, d)
        BY <1>2 DEF LocalReadings, UtcEdges, LocalDay, DayEdges
    <2> QED BY <2>1, UtcUnit
<1>3. CASE unit = "month" \/ unit = "year"
    <2>1. LocalReadings(unit, d) = UtcEdges(unit, d)
        BY <1>3 DEF LocalReadings, UtcEdges, LocalMonth, LocalYear
    <2> QED BY <2>1, UtcUnit
<1>4. CASE unit = "week"
    <2> DEFINE r == d % 7
               f == d - r
               e == LocalReadings(unit, d)
    <2>1. IsUnit(unit, d, f, f + 7) /\ f \in Int /\ r \in Int
        BY <1>1, <1>4, WeekIs
    <2>2. /\ e.start = Midnights({f})
          /\ e.end = {LastTick(n) : n \in {d + (6 - r)} \cap Days}
          /\ e.next = Midnights({d + (7 - r)})
        BY <1>4 DEF LocalReadings, LocalWeek, Edges
    <2> HIDE DEF r, e
    <2>3. d + (6 - r) = f + 6 /\ d + (7 - r) = f + 7 /\ f + 6 \in Int /\ f + 7 \in Int /\ f + 6 + 1 = f + 7
        BY <1>1, <2>1
    <2> HIDE DEF f
    <2>4. LastTick(f + 6) = Midnight(f + 7) - 1
        <3>1. Midnight(f + 6 + 1) = Midnight(f + 6) + TicksPerDay /\ Midnight(f + 6) \in Int
            BY <2>3, TicksOfDay
        <3> QED BY <2>3, <3>1, TicksAssumption DEF LastTick
    <2>5. e.end = IF f + 6 \in Days THEN {Midnight(f + 7) - 1} ELSE {}
        BY <2>2, <2>3, <2>4
    <2>6. e.next = Midnights({f + 7}) /\ f + 7 \in Days => e.next # {}
        BY <2>2, <2>3 DEF Midnights
    <2>7. f \in Days /\ f + 7 \in Days => f + 6 \in Days
        BY SMTT(30), <2>1, DaysAre
    <2>8. f \in Int /\ f + 7 \in Int /\ IsUnit(unit, d, f, f + 7) /\ e.start = Midnights({f}) /\ e.next \subseteq Midnights({f + 7})
        BY <2>1, <2>2, <2>3
    <2>9. e.end \subseteq {Midnight(f + 7) - 1}
        BY <2>5
    <2>10. f \in Days /\ f + 7 \in Days => e.next # {} /\ e.end # {}
        BY <2>2, <2>3, <2>5, <2>7 DEF Midnights
    <2> QED BY <2>8, <2>9, <2>10 DEF AreEdges, e
<1> QED BY <1>2, <1>3, <1>4 DEF Units

\* A day ends before a later one begins.
LEMMA DaysInOrder ==
    ASSUME NEW a \in Int, NEW b \in Int, a <= b
    PROVE  Midnight(a) \in Int /\ Midnight(b) \in Int /\ Midnight(a) <= Midnight(b)
<1>1. TicksPerDay \in Nat \ {0}
    BY TicksAssumption
<1>2. PICK k \in Nat : b = a + k
    <2>1. b - a \in Nat /\ b = a + (b - a)
        OBVIOUS
    <2> QED BY <2>1
<1>3. Midnight(b) = Midnight(a) + k * TicksPerDay /\ k * TicksPerDay \in Nat /\ Midnight(a) \in Int
    BY <1>1, <1>2 DEF Midnight
<1> QED BY <1>3

\* An instant is in its day.
LEMMA TickIn ==
    ASSUME NEW t \in Int
    PROVE  DayOf(t) \in Int /\ Midnight(DayOf(t)) <= t /\ t < Midnight(DayOf(t) + 1)
<1>1. TicksPerDay \in Nat \ {0}
    BY TicksAssumption
<1> DEFINE q == t \div TicksPerDay
           r == t % TicksPerDay
<1>2. q \in Int /\ r \in 0 .. TicksPerDay - 1 /\ t = TicksPerDay * q + r
    BY <1>1, Divided
<1> HIDE DEF q, r
<1>3. Midnight(q) = TicksPerDay * q /\ Midnight(q + 1) = TicksPerDay * q + TicksPerDay /\ TicksPerDay * q \in Int
    BY <1>1, <1>2 DEF Midnight
<1> QED BY <1>1, <1>2, <1>3 DEF DayOf, q

\* The readings: the start is not after the clock, the end not before it, and the next start is
\* after it, one tick after the end.
LEMMA ReadingsAround ==
    ASSUME NEW unit \in Units, NEW clock \in Int, DayOf(clock) \in Days
    PROVE  LET e == LocalReadings(unit, DayOf(clock)) IN
           /\ \A r \in e.start : r \in Int /\ r <= clock
           /\ \A r \in e.end : r \in Int /\ clock <= r
           /\ \A r \in e.next : r \in Int /\ clock < r
           /\ \A r \in e.end, s \in e.next : s = r + 1
<1> DEFINE d == DayOf(clock)
           e == LocalReadings(unit, d)
<1>1. PICK start \in Int, next \in Int :
          /\ IsUnit(unit, d, start, next)
          /\ e.start = Midnights({start}) /\ e.next \subseteq Midnights({next}) /\ e.end \subseteq {Midnight(next) - 1}
    BY LocalUnit DEF AreEdges
<1>2. d \in Int /\ Midnight(d) <= clock /\ clock < Midnight(d + 1)
    BY TickIn
<1> HIDE DEF d, e
<1>3. start <= d /\ d + 1 <= next
    <2>1. Longest(unit) \in Int
        BY DEF Longest, Units
    <2> QED BY <1>1, <1>2, <2>1 DEF IsUnit
<1>4. /\ Midnight(start) \in Int /\ Midnight(next) \in Int /\ Midnight(d) \in Int /\ Midnight(d + 1) \in Int
      /\ Midnight(start) <= Midnight(d) /\ Midnight(d + 1) <= Midnight(next)
    <2>1. d + 1 \in Int
        BY <1>2
    <2> QED BY <1>2, <1>3, <2>1, DaysInOrder
<1>5. Midnight(start) <= clock /\ clock < Midnight(next) /\ clock <= Midnight(next) - 1 /\ Midnight(next) - 1 \in Int
      /\ Midnight(next) = Midnight(next) - 1 + 1
    BY <1>2, <1>4
<1>6. (\A r \in e.start : r = Midnight(start)) /\ (\A r \in e.next : r = Midnight(next)) /\ (\A r \in e.end : r = Midnight(next) - 1)
    BY <1>1 DEF Midnights
<1> QED BY <1>4, <1>5, <1>6 DEF e, d

IsZone(zone) == zone.before \in Int /\ zone.after \in Int /\ zone.at \in Int

\* A reading that the clocks show once.
LEMMA ShownOnce ==
    ASSUME NEW zone, IsZone(zone), NEW clock \in Int, Cardinality(Resolve(zone, clock)) = 1, NEW s \in Resolve(zone, clock)
    PROVE  /\ s \in Int /\ s + Offset(zone, s) = clock
           /\ \A t \in {clock - zone.before, clock - zone.after} : t + Offset(zone, t) = clock => t = s
<1>1. /\ s \in {clock - zone.before, clock - zone.after} /\ s \in Int /\ s + Offset(zone, s) = clock
      /\ \A t \in {clock - zone.before, clock - zone.after} : t + Offset(zone, t) = clock => t \in Resolve(zone, clock)
    BY DEF Resolve, IsZone
<1>2. IsFiniteSet(Resolve(zone, clock))
    <2>1. IsFiniteSet({clock - zone.before, clock - zone.after})
        <3>1. IsFiniteSet({clock - zone.before})
            BY FS_Singleton
        <3>2. {clock - zone.before, clock - zone.after} = {clock - zone.before} \union {clock - zone.after}
            OBVIOUS
        <3> QED BY <3>1, <3>2, FS_AddElement
    <2>2. Resolve(zone, clock) \subseteq {clock - zone.before, clock - zone.after}
        BY DEF Resolve
    <2> QED BY <2>1, <2>2, FS_Subset
<1>3. PICK x : Resolve(zone, clock) = {x}
    BY <1>2, FS_Singleton
<1> QED BY <1>1, <1>3

\* What the clocks of a zone leave no doubt about is in order: a reading that is not after that
\* of an instant is of an instant that is not after it.
LEMMA SureOrder ==
    ASSUME NEW zone, IsZone(zone), NEW t \in Int, NEW clock \in Int, Cardinality(Resolve(zone, clock)) = 1, NEW s \in Resolve(zone, clock)
    PROVE  /\ clock <= t + Offset(zone, t) => s <= t
           /\ t + Offset(zone, t) <= clock => t <= s
           /\ t + Offset(zone, t) < clock => t < s
<1> DEFINE before == zone.before
           after == zone.after
           at == zone.at
<1>1. before \in Int /\ after \in Int /\ at \in Int
    BY DEF IsZone
<1>2. \A x : Offset(zone, x) = IF x < at THEN before ELSE after
    BY DEF Offset
<1>3. /\ s \in Int /\ s + Offset(zone, s) = clock
      /\ (clock - before) + Offset(zone, clock - before) = clock => clock - before = s
      /\ (clock - after) + Offset(zone, clock - after) = clock => clock - after = s
    BY ShownOnce
<1> HIDE DEF before, after, at
<1>4. ASSUME clock <= t + Offset(zone, t), t < s PROVE FALSE
    BY <1>1, <1>2, <1>3, <1>4
<1>5. ASSUME t + Offset(zone, t) <= clock, s < t PROVE FALSE
    BY <1>1, <1>2, <1>3, <1>5
<1>6. ASSUME t + Offset(zone, t) < clock, s = t PROVE FALSE
    BY <1>1, <1>2, <1>3, <1>6
<1>7. Offset(zone, t) \in Int
    BY <1>1, <1>2
<1> QED BY <1>1, <1>3, <1>4, <1>5, <1>6, <1>7

\* Where the clocks leave no doubt, the instant lies in its day, week, month or year: wherever
\* and however the clocks are changed.
THEOREM LocalRightCorrect ==
    ASSUME NEW zone, IsZone(zone), NEW unit \in Units, NEW t \in Int
    PROVE  LocalRight(zone, unit, t)
<1> DEFINE e == LocalEdges(zone, unit, t)
           clock == t + Offset(zone, t)
           readings == LocalReadings(unit, DayOf(clock))
           Sure(edge) == {x : x \in UNION {r \in e[edge] : Cardinality(r) = 1}}
<1>1. clock \in Int
    BY DEF Offset, IsZone
\* An edge without doubt is what a reading resolves to.
<1>2. ASSUME NEW edge \in {"start", "end", "next"}, NEW x \in Sure(edge)
      PROVE  DayOf(clock) \in Days /\ \E r \in readings[edge] : x \in Resolve(zone, r) /\ Cardinality(Resolve(zone, r)) = 1
    <2>1. e[edge] = UNION {{Resolve(zone, r) : r \in LocalReadings(unit, DayOf(c))[edge]} : c \in ToLocal(zone, t)}
        BY DEF LocalEdges, LocalReadings
    <2>2. ToLocal(zone, t) = IF DayOf(clock) \in Days THEN {clock} ELSE {}
        BY DEF ToLocal, Checked, Known
    <2> HIDE DEF e, readings, clock
    <2>3. PICK s \in e[edge] : x \in s /\ Cardinality(s) = 1
        BY <1>2
    <2>4. PICK c \in ToLocal(zone, t) : \E r \in LocalReadings(unit, DayOf(c))[edge] : s = Resolve(zone, r)
        BY <2>1, <2>3
    <2>5. c = clock /\ DayOf(clock) \in Days
        BY <2>2, <2>4
    <2> QED BY <2>3, <2>4, <2>5 DEF readings
<1> HIDE DEF e, Sure
<1>3. ASSUME DayOf(clock) \in Days
      PROVE  /\ \A r \in readings["start"] : r \in Int /\ r <= clock
             /\ \A r \in readings["end"] : r \in Int /\ clock <= r
             /\ \A r \in readings["next"] : r \in Int /\ clock < r
             /\ \A r \in readings["end"], s \in readings["next"] : s = r + 1
    <2> HIDE DEF clock
    <2>1. LET x == LocalReadings(unit, DayOf(clock)) IN
          /\ \A r \in x.start : r \in Int /\ r <= clock
          /\ \A r \in x.end : r \in Int /\ clock <= r
          /\ \A r \in x.next : r \in Int /\ clock < r
          /\ \A r \in x.end, s \in x.next : s = r + 1
        BY <1>1, <1>3, ReadingsAround
    <2> QED BY <2>1
<1> HIDE DEF readings
<1>4. ASSUME NEW s \in Sure("start") PROVE s <= t
    <2>1. PICK r \in readings["start"] : s \in Resolve(zone, r) /\ Cardinality(Resolve(zone, r)) = 1
        BY <1>2
    <2>2. r \in Int /\ r <= clock
        BY <1>2, <1>3
    <2> QED BY <2>1, <2>2, SureOrder
<1>5. ASSUME NEW n \in Sure("next") PROVE t < n
    <2>1. PICK r \in readings["next"] : n \in Resolve(zone, r) /\ Cardinality(Resolve(zone, r)) = 1
        BY <1>2
    <2>2. r \in Int /\ clock < r
        BY <1>2, <1>3
    <2> QED BY <2>1, <2>2, SureOrder
<1>6. ASSUME NEW m \in Sure("end") PROVE t <= m
    <2>1. PICK r \in readings["end"] : m \in Resolve(zone, r) /\ Cardinality(Resolve(zone, r)) = 1
        BY <1>2
    <2>2. r \in Int /\ clock <= r
        BY <1>2, <1>3
    <2> QED BY <2>1, <2>2, SureOrder
<1>7. ASSUME NEW m \in Sure("end"), NEW n \in Sure("next") PROVE m < n
    <2>1. PICK r \in readings["end"] : m \in Resolve(zone, r) /\ Cardinality(Resolve(zone, r)) = 1
        BY <1>2
    <2>2. PICK q \in readings["next"] : n \in Resolve(zone, q) /\ Cardinality(Resolve(zone, q)) = 1
        BY <1>2
    <2>3. r \in Int /\ q \in Int /\ q = r + 1
        BY <1>2, <1>3
    <2>4. m \in Int /\ m + Offset(zone, m) = r
        BY <2>1, <2>3, ShownOnce
    <2>5. m + Offset(zone, m) < q
        BY <2>3, <2>4
    <2> QED BY <2>2, <2>3, <2>4, <2>5, SureOrder
<1> QED BY <1>4, <1>5, <1>6, <1>7 DEF LocalRight, e, Sure

----------------------------------------------------------------------------
(* What is written and read.                                                *)

\* What is below the last digit is lost, and nothing else.
LEMMA FloorIs ==
    ASSUME NEW n \in Int, NEW unit \in Nat \ {0}
    PROVE  /\ Floor(n, unit) \in Int /\ Floor(n, unit) <= n /\ n < Floor(n, unit) + unit
           /\ Floor(n, unit) = (n \div unit) * unit
           /\ \A q \in Int : unit * q <= n /\ n < unit * q + unit => Floor(n, unit) = unit * q
<1> DEFINE q == n \div unit
           r == n % unit
<1>1. q \in Int /\ r \in 0 .. unit - 1 /\ n = unit * q + r
    BY Divided
<1>2. Floor(n, unit) = n - r
    BY DEF Floor
<1> HIDE DEF q, r
<1>3. Floor(n, unit) = unit * q /\ unit * q \in Int
    BY <1>1, <1>2
<1>4. unit * q = q * unit
    BY <1>1
<1>5. ASSUME NEW p \in Int, unit * p <= n, n < unit * p + unit PROVE Floor(n, unit) = unit * p
    <2>1. unit * p \in Int
        OBVIOUS
    <2>2. n - unit * p \in 0 .. unit - 1 /\ n = unit * p + (n - unit * p)
        BY <1>5, <2>1
    <2>3. n \div unit = p
        BY <2>2, DividedOnce
    <2> QED BY <1>3, <2>3 DEF q
<1>6. Floor(n, unit) \in Int /\ Floor(n, unit) <= n /\ n < Floor(n, unit) + unit
    BY <1>1, <1>3
<1> QED BY <1>3, <1>4, <1>5, <1>6 DEF q

\* Rounding down keeps the order.
LEMMA FloorOrder ==
    ASSUME NEW a \in Int, NEW b \in Int, a <= b, NEW unit \in Nat \ {0}
    PROVE  Floor(a, unit) <= Floor(b, unit)
<1> DEFINE p == a \div unit
           q == b \div unit
<1>1. p \in Int /\ a % unit \in 0 .. unit - 1 /\ a = unit * p + (a % unit)
    BY Divided
<1>2. q \in Int /\ b % unit \in 0 .. unit - 1 /\ b = unit * q + (b % unit)
    BY Divided
<1>3. Floor(a, unit) = p * unit /\ Floor(b, unit) = q * unit
    BY FloorIs
<1> HIDE DEF p, q
<1>4. ASSUME q < p PROVE FALSE
    <2>1. PICK k \in Nat : p = q + 1 + k
        <3>1. p - q - 1 \in Nat /\ p = q + 1 + (p - q - 1)
            BY <1>1, <1>2, <1>4
        <3> QED BY <3>1
    <2>2. unit * p = unit * q + unit + unit * k /\ unit * k \in Nat /\ unit * q \in Int
        BY <1>1, <1>2, <2>1
    <2> QED BY <1>1, <1>2, <2>2
<1>5. PICK k \in Nat : q = p + k
    <2>1. q - p \in Nat /\ q = p + (q - p)
        BY <1>1, <1>2, <1>4
    <2> QED BY <2>1
<1>6. q * unit = p * unit + k * unit /\ k * unit \in Nat /\ p * unit \in Int
    BY <1>1, <1>2, <1>5
<1> QED BY <1>3, <1>6

\* A multiple can be put aside.
LEMMA FloorShift ==
    ASSUME NEW n \in Int, NEW m \in Int, NEW unit \in Nat \ {0}, m % unit = 0
    PROVE  Floor(n + m, unit) = Floor(n, unit) + m
<1> DEFINE p == n \div unit
           q == m \div unit
<1>1. p \in Int /\ n % unit \in 0 .. unit - 1 /\ n = unit * p + (n % unit)
    BY Divided
<1>2. q \in Int /\ m = unit * q + (m % unit)
    BY Divided
<1>3. Floor(n, unit) = p * unit
    BY FloorIs
<1> HIDE DEF p, q
<1>4. unit * (p + q) = unit * p + m /\ unit * (p + q) \in Int /\ unit * p \in Int /\ p * unit = unit * p /\ p + q \in Int /\ n + m \in Int
    BY <1>1, <1>2
<1>5. unit * (p + q) <= n + m /\ n + m < unit * (p + q) + unit
    BY <1>1, <1>4
<1>6. Floor(n + m, unit) = unit * (p + q)
    <2> DEFINE k == n + m
               s == p + q
    <2>1. k \in Int /\ s \in Int /\ unit * s <= k /\ k < unit * s + unit
        BY <1>4, <1>5
    <2> HIDE DEF k, s
    <2>2. \A x \in Int : unit * x <= k /\ k < unit * x + unit => Floor(k, unit) = unit * x
        BY <2>1, FloorIs, ZenonT(60)
    <2>3. Floor(k, unit) = unit * s
        BY <2>1, <2>2
    <2> QED BY <2>3 DEF k, s
<1> QED BY <1>3, <1>4, <1>6

\* A multiple is rounded to itself.
LEMMA FloorOfMultiple ==
    ASSUME NEW m \in Int, NEW unit \in Nat \ {0}, m % unit = 0
    PROVE  Floor(m, unit) = m
BY DEF Floor

\* A multiple of a multiple.
LEMMA MultipleOf ==
    ASSUME NEW a \in Nat \ {0}, NEW b \in Nat \ {0}, NEW n \in Int, b % a = 0, n % b = 0
    PROVE  n % a = 0
<1> DEFINE p == b \div a
           q == n \div b
<1>1. p \in Int /\ b = a * p
    BY Divided
<1>2. q \in Int /\ n = b * q
    BY Divided
<1> HIDE DEF p, q
<1>3. n = (a * p) * q
    BY <1>1, <1>2
<1>4. (a * p) * q = a * (p * q) /\ p * q \in Int
    BY <1>1, <1>2
<1>5. n = a * (p * q) + 0 /\ 0 \in 0 .. a - 1
    BY <1>3, <1>4
<1> QED BY <1>4, <1>5, DividedOnce

\* What the formats keep: whole seconds, minutes or hours, and all of a day's midnight.
LEMMA UnitsDivide ==
    ASSUME NEW unit \in {TicksPerSecond, 1}
    PROVE  /\ unit \in Nat \ {0} /\ TicksPerSecond % unit = 0 /\ TicksPerMinute % unit = 0 /\ TicksPerDay % unit = 0
<1>1. /\ TicksPerSecond \in Nat \ {0} /\ TicksPerMinute \in Nat \ {0} /\ TicksPerHour \in Nat \ {0} /\ TicksPerDay \in Nat \ {0}
      /\ TicksPerMinute % TicksPerSecond = 0 /\ TicksPerHour % TicksPerMinute = 0 /\ TicksPerDay % TicksPerHour = 0
    BY TicksAssumption
<1>2. CASE unit = 1
    <2>1. \A n \in Nat : n % 1 = 0
        OBVIOUS
    <2> QED BY <1>1, <1>2, <2>1
<1>3. CASE unit = TicksPerSecond
    <2>1. TicksPerSecond % TicksPerSecond = 0
        <3>1. TicksPerSecond = TicksPerSecond * 1 + 0 /\ 0 \in 0 .. TicksPerSecond - 1 /\ 1 \in Int /\ TicksPerSecond \in Int
            BY <1>1
        <3> QED BY <1>1, <3>1, DividedOnce
    <2>2. TicksPerHour % TicksPerSecond = 0
        <3>1. TicksPerHour \in Int
            BY <1>1
        <3> QED BY <1>1, <3>1, MultipleOf
    <2>3. TicksPerDay % TicksPerSecond = 0
        <3>1. TicksPerDay \in Int
            BY <1>1
        <3> QED BY <1>1, <2>2, <3>1, MultipleOf
    <2> QED BY <1>1, <1>3, <2>1, <2>3
<1> QED BY <1>2, <1>3

\* A date stays a date of the same day when its last digits are lost.
LEMMA FloorKnown ==
    ASSUME NEW t \in Int, Known(t), NEW unit \in {TicksPerSecond, 1}
    PROVE  Known(Floor(t, unit))
<1> DEFINE d == DayOf(t)
           f == Floor(t, unit)
<1>1. unit \in Nat \ {0} /\ TicksPerDay % unit = 0 /\ TicksPerDay \in Nat \ {0}
    BY UnitsDivide, TicksAssumption
<1>2. d \in Int /\ Midnight(d) <= t /\ t < Midnight(d + 1)
    BY TickIn
<1>3. f \in Int /\ f <= t
    BY <1>1, FloorIs
<1> HIDE DEF d, f
<1>4. Midnight(d) = TicksPerDay * d /\ Midnight(d) \in Int /\ Midnight(d + 1) = TicksPerDay * d + TicksPerDay
    BY <1>1, <1>2 DEF Midnight
<1>5. Midnight(d) % TicksPerDay = 0
    <2>1. Midnight(d) = TicksPerDay * d + 0 /\ 0 \in 0 .. TicksPerDay - 1
        BY <1>1, <1>4
    <2> QED BY <1>1, <1>2, <1>4, <2>1, DividedOnce
<1>6. Midnight(d) % unit = 0
    BY <1>1, <1>4, <1>5, MultipleOf
<1>7. Midnight(d) <= f
    BY <1>1, <1>2, <1>4, <1>6, FloorOrder, FloorOfMultiple DEF f
<1>8. f - TicksPerDay * d \in 0 .. TicksPerDay - 1 /\ f = TicksPerDay * d + (f - TicksPerDay * d)
    BY <1>1, <1>2, <1>3, <1>4, <1>7
<1>9. f \div TicksPerDay = d
    BY <1>1, <1>2, <1>3, <1>8, DividedOnce
<1> QED BY <1>9 DEF Known, DayOf, d, f

\* The zones there are: whole minutes ahead of UTC, their clocks changed at whole seconds.
RegularZone(zone) == /\ IsZone(zone) /\ zone.at % TicksPerSecond = 0
                     /\ zone.before % TicksPerMinute = 0 /\ zone.after % TicksPerMinute = 0

\* The offsets and the change of a regular zone are multiples of the units that are written.
LEMMA OffsetsDivide ==
    ASSUME NEW zone, RegularZone(zone), NEW t \in Int, NEW unit \in {TicksPerSecond, 1}
    PROVE  /\ Offset(zone, t) \in Int /\ Offset(zone, t) % TicksPerMinute = 0 /\ Offset(zone, t) % unit = 0
           /\ zone.at \in Int /\ zone.at % unit = 0
<1>1. unit \in Nat \ {0} /\ TicksPerSecond % unit = 0 /\ TicksPerMinute % unit = 0 /\ TicksPerSecond \in Nat \ {0} /\ TicksPerMinute \in Nat \ {0}
    BY UnitsDivide, TicksAssumption
<1>2. Offset(zone, t) \in Int /\ Offset(zone, t) % TicksPerMinute = 0 /\ zone.at \in Int /\ zone.at % TicksPerSecond = 0
    BY DEF Offset, RegularZone, IsZone
<1>3. Offset(zone, t) % unit = 0
    BY <1>1, <1>2, MultipleOf
<1>4. zone.at % unit = 0
    BY <1>1, <1>2, MultipleOf
<1> QED BY <1>2, <1>3, <1>4

\* What is written with an offset, and read.
LEMMA ReadBack ==
    ASSUME NEW t \in Int, NEW offset \in Int, NEW unit \in {TicksPerSecond, 1}, offset % TicksPerMinute = 0, offset % unit = 0
    PROVE  /\ WriteOffset(unit, t, offset).clock = Floor(t, unit) + offset
           /\ ParseOffset(WriteOffset(unit, t, offset)) = Floor(t, unit)
<1>1. unit \in Nat \ {0} /\ TicksPerMinute \in Nat \ {0}
    BY UnitsDivide, TicksAssumption
<1>2. WriteOffset(unit, t, offset) = [clock |-> Floor(t + offset, unit), offset |-> Floor(offset, TicksPerMinute)]
    BY DEF WriteOffset, WithOffset
<1>3. Floor(t + offset, unit) = Floor(t, unit) + offset /\ Floor(offset, TicksPerMinute) = offset
    BY <1>1, FloorShift, FloorOfMultiple
<1>4. Floor(t, unit) \in Int
    BY <1>1, FloorIs
<1>5. Floor(t, unit) + offset - offset = Floor(t, unit)
    BY <1>4
<1> DEFINE w == WriteOffset(unit, t, offset)
<1>6. w.clock = Floor(t, unit) + offset /\ w.offset = offset
    BY <1>2, <1>3
<1>7. ParseOffset(w) = w.clock - w.offset
    BY DEF ParseOffset
<1> HIDE DEF w
<1>8. w.clock \in Int /\ w.offset \in Int /\ w.clock - w.offset = Floor(t, unit)
    BY <1>4, <1>6
<1> QED BY <1>6, <1>7, <1>8 DEF w

\* Whatever is written is read back but for what the format drops, in any zone and over any
\* change of its clocks; only next to the ends of the calendar there may be nothing to write.
THEOREM RangesRightCorrect ==
    ASSUME NEW zone, RegularZone(zone), NEW a \in Int, NEW b \in Int, a <= b, Known(a), Known(b)
    PROVE  RangesRight(zone, <<a, b>>)
<1> DEFINE range == <<a, b>>
<1>1. range[1] = a /\ range[2] = b
    OBVIOUS
<1> HIDE DEF range
<1>2. ASSUME NEW s \in Int, NEW e \in Int
      PROVE  /\ s <= e => Ordered(s, e) = {<<s, e>>}
             /\ e < s => Ordered(s, e) = {}
    BY DEF Ordered
<1>3. ASSUME NEW unit \in {TicksPerSecond, 1}
      PROVE  LET kept == [i \in 1 .. 2 |-> Floor(range[i], unit)]
                 text == WriteLocal(zone, unit, range)
             IN
             /\ ReadRange(WriteUtc(unit, range)) = {kept}
             /\ \A x \in text : ReadRange(x) = {kept} /\ ReadLocal(zone, x) = {kept}
             /\ text = {} => \E i \in 1 .. 2, offset \in {zone.before, zone.after} : ~Known(range[i] + offset)
             /\ kept[1] < kept[2] =>
                   \A x \in WriteLocal(zone, unit, <<range[2], range[1]>>) : ReadRange(x) = {} /\ ReadLocal(zone, x) = {}
             /\ \A clock \in ToLocal(zone, range[1]) :
                   kept[1] \in ParseLocal(zone, WriteOffset(unit, range[1], Offset(zone, range[1])))
             /\ FromTimestamp(range[1] \div unit, unit) = {kept[1]}
    <2> DEFINE kept == [i \in 1 .. 2 |-> Floor(range[i], unit)]
    <2>1. unit \in Nat \ {0}
        BY UnitsDivide
    <2>2. kept[1] = Floor(a, unit) /\ kept[2] = Floor(b, unit) /\ kept = <<Floor(a, unit), Floor(b, unit)>>
        BY <1>1
    <2> HIDE DEF kept
    <2>3. kept[1] \in Int /\ kept[2] \in Int /\ kept[1] <= kept[2] /\ Known(kept[1]) /\ Known(kept[2])
        BY <2>1, <2>2, FloorIs, FloorOrder, FloorKnown
    <2>4. ReadRange(WriteUtc(unit, range)) = {kept}
        <3>1. 0 \in Int /\ 0 % TicksPerMinute = 0 /\ 0 % unit = 0
            <4>1. ASSUME NEW size \in Nat \ {0} PROVE 0 % size = 0
                <5>1. 0 = size * 0 + 0 /\ 0 \in 0 .. size - 1 /\ 0 \in Int
                    OBVIOUS
                <5> QED BY <5>1, DividedOnce
            <4> QED BY <2>1, <4>1, TicksAssumption
        <3>2. ParseOffset(WriteOffset(unit, a, 0)) = kept[1] /\ ParseOffset(WriteOffset(unit, b, 0)) = kept[2]
            BY <2>2, <3>1, ReadBack
        <3>3. ReadRange(WriteUtc(unit, range)) = {r \in Ordered(kept[1], kept[2]) : Known(r[1]) /\ Known(r[2])}
            BY <1>1, <3>2 DEF ReadRange, WriteUtc
        <3>4. ReadRange(WriteUtc(unit, range)) = {<<kept[1], kept[2]>>}
            BY <1>2, <2>3, <3>3
        <3> QED BY <2>2, <3>4
    \* What is written of an instant that the zone's clocks can show.
    <2>5. ASSUME NEW t \in {a, b}, NEW clock \in ToLocal(zone, t)
          PROVE  /\ ParseOffset(WriteOffset(unit, t, Offset(zone, t))) = Floor(t, unit)
                 /\ ToLocal(zone, Floor(t, unit)) # {}
                 /\ Floor(t, unit) \in ParseLocal(zone, WriteOffset(unit, t, Offset(zone, t)))
        <3> DEFINE offset == Offset(zone, t)
                   k == Floor(t, unit)
        <3>1. offset \in Int /\ offset % TicksPerMinute = 0 /\ offset % unit = 0 /\ zone.at \in Int /\ zone.at % unit = 0
            BY OffsetsDivide
        <3>2. offset = (IF t < zone.at THEN zone.before ELSE zone.after) /\ zone.before \in Int /\ zone.after \in Int
            BY DEF Offset, RegularZone, IsZone
        <3>3. Known(t + offset)
            BY DEF ToLocal, Checked
        <3> HIDE DEF offset, k
        <3>4. ParseOffset(WriteOffset(unit, t, offset)) = k /\ WriteOffset(unit, t, offset).clock = k + offset
            BY <3>1, ReadBack DEF k
        <3>5. k \in Int /\ k <= t /\ (zone.at <= t => zone.at <= k)
            <4>1. k \in Int /\ k <= t
                BY <2>1, FloorIs DEF k
            <4>2. ASSUME zone.at <= t PROVE zone.at <= k
                <5>1. Floor(zone.at, unit) <= Floor(t, unit) /\ Floor(zone.at, unit) = zone.at
                    BY <2>1, <3>1, <4>2, FloorOrder, FloorOfMultiple
                <5> QED BY <5>1 DEF k
            <4> QED BY <4>1, <4>2
        <3>6. Offset(zone, k) = offset
            BY <3>1, <3>2, <3>5 DEF Offset
        <3>7. Known(k + offset)
            <4>1. t + offset \in Int /\ Floor(t + offset, unit) = k + offset
                BY <2>1, <3>1, FloorShift DEF k
            <4> QED BY <3>3, <4>1, FloorKnown
        <3>8. ToLocal(zone, k) # {}
            BY <3>6, <3>7 DEF ToLocal, Checked
        <3>9. k = (k + offset) - offset /\ offset \in {zone.before, zone.after}
            BY <3>1, <3>2, <3>5
        <3>10. k \in Resolve(zone, k + offset)
            BY <3>6, <3>9 DEF Resolve
        <3> QED BY <3>4, <3>8, <3>10 DEF ParseLocal, k, offset
    <2>6. ASSUME NEW s \in {a, b}, NEW e \in {a, b}, NEW x \in WriteLocal(zone, unit, <<s, e>>)
          PROVE  /\ ReadRange(x) = Ordered(Floor(s, unit), Floor(e, unit))
                 /\ ReadLocal(zone, x) = Ordered(Floor(s, unit), Floor(e, unit))
        <3>1. PICK clocks \in ToLocal(zone, s) \X ToLocal(zone, e) :
                     x = [i \in 1 .. 2 |-> WriteOffset(unit, <<s, e>>[i], Offset(zone, <<s, e>>[i]))]
            BY DEF WriteLocal
        <3>2. x[1] = WriteOffset(unit, s, Offset(zone, s)) /\ x[2] = WriteOffset(unit, e, Offset(zone, e))
            BY <3>1
        <3>3. clocks[1] \in ToLocal(zone, s) /\ clocks[2] \in ToLocal(zone, e)
            BY <3>1
        <3> DEFINE p == Floor(s, unit)
                   q == Floor(e, unit)
        <3>4. ParseOffset(x[1]) = p /\ ParseOffset(x[2]) = q
            BY <2>5, <3>2, <3>3
        <3>5. ToLocal(zone, p) # {} /\ ToLocal(zone, q) # {}
            BY <2>5, <3>3
        <3>6. Known(p) /\ Known(q)
            BY FloorKnown
        <3> HIDE DEF p, q
        <3>7. \A r \in Ordered(p, q) : r[1] = p /\ r[2] = q
            BY DEF Ordered
        <3>8. ReadRange(x) = Ordered(p, q) /\ ReadLocal(zone, x) = Ordered(p, q)
            BY <3>4, <3>5, <3>6, <3>7 DEF ReadRange, ReadLocal
        <3> QED BY <3>8 DEF p, q
    <2>7. ASSUME NEW x \in WriteLocal(zone, unit, range) PROVE ReadRange(x) = {kept} /\ ReadLocal(zone, x) = {kept}
        <3>1. ReadRange(x) = Ordered(kept[1], kept[2]) /\ ReadLocal(zone, x) = Ordered(kept[1], kept[2])
            BY <2>2, <2>6 DEF range
        <3> QED BY <1>2, <2>2, <2>3, <3>1
    <2>8. ASSUME kept[1] < kept[2], NEW x \in WriteLocal(zone, unit, <<range[2], range[1]>>)
          PROVE  ReadRange(x) = {} /\ ReadLocal(zone, x) = {}
        <3>1. ReadRange(x) = Ordered(kept[2], kept[1]) /\ ReadLocal(zone, x) = Ordered(kept[2], kept[1])
            BY <1>1, <2>2, <2>6
        <3> QED BY <1>2, <2>3, <2>8, <3>1
    <2>9. ASSUME NEW clock \in ToLocal(zone, range[1])
          PROVE  kept[1] \in ParseLocal(zone, WriteOffset(unit, range[1], Offset(zone, range[1])))
        BY <1>1, <2>2, <2>5
    <2>11. ASSUME WriteLocal(zone, unit, range) = {}
           PROVE  \E i \in 1 .. 2, offset \in {zone.before, zone.after} : ~Known(range[i] + offset)
        <3>1. SUFFICES ASSUME \A i \in 1 .. 2, offset \in {zone.before, zone.after} : Known(range[i] + offset)
                       PROVE  FALSE
            OBVIOUS
        <3>2. \A t : Offset(zone, t) \in {zone.before, zone.after}
            BY DEF Offset
        <3>3. range[1] + Offset(zone, range[1]) \in ToLocal(zone, range[1]) /\ range[2] + Offset(zone, range[2]) \in ToLocal(zone, range[2])
            BY <3>1, <3>2 DEF ToLocal, Checked
        <3>4. <<range[1] + Offset(zone, range[1]), range[2] + Offset(zone, range[2])>> \in ToLocal(zone, range[1]) \X ToLocal(zone, range[2])
            BY <3>3
        <3>5. WriteLocal(zone, unit, range) # {}
            BY <3>4 DEF WriteLocal
        <3> QED BY <2>11, <3>5
    <2>10. FromTimestamp(range[1] \div unit, unit) = {kept[1]}
        <3>1. (a \div unit) * unit = kept[1]
            BY <2>1, <2>2, FloorIs
        <3>2. Known(kept[1])
            BY <2>2, FloorKnown
        <3> QED BY <1>1, <3>1, <3>2 DEF FromTimestamp, Checked
    <2> QED BY <2>4, <2>7, <2>8, <2>9, <2>10, <2>11 DEF kept
<1>4. \A f \in DOMAIN DateFormats : DateFormats[f] \in {TicksPerSecond, 1}
    BY DEF DateFormats
<1>5. \A f \in DOMAIN TimeFormats : TimeFormats[f] \in Nat \ {0}
    BY TicksAssumption DEF TimeFormats
<1> DEFINE Time(i) == range[i] % TicksPerDay
<1>6. Time(1) \in Int /\ Time(2) \in Int
    BY <1>1, TicksAssumption
<1> HIDE DEF Time
<1>7. ASSUME NEW f \in DOMAIN TimeFormats, Time(1) <= Time(2)
      PROVE  ReadTimes(WriteTimes(TimeFormats[f], <<Time(1), Time(2)>>)) = {<<Floor(Time(1), TimeFormats[f]), Floor(Time(2), TimeFormats[f])>>}
    <2> DEFINE unit == TimeFormats[f]
    <2>1. unit \in Nat \ {0}
        BY <1>5
    <2> HIDE DEF unit
    <2>2. Floor(Time(1), unit) \in Int /\ Floor(Time(2), unit) \in Int /\ Floor(Time(1), unit) <= Floor(Time(2), unit)
        BY <1>6, <1>7, <2>1, FloorIs, FloorOrder
    <2>3. ReadTimes(WriteTimes(unit, <<Time(1), Time(2)>>)) = Ordered(Floor(Time(1), unit), Floor(Time(2), unit))
        BY DEF ReadTimes, WriteTimes
    <2>4. ReadTimes(WriteTimes(unit, <<Time(1), Time(2)>>)) = {<<Floor(Time(1), unit), Floor(Time(2), unit)>>}
        BY <1>2, <2>2, <2>3
    <2> QED BY <2>4 DEF unit
<1>8. UNION {Shift(t, range[1] - range[2]) : t \in Shift(range[1], range[2] - range[1])} = {range[1]}
    <2>1. a + (b - a) = b /\ b + (a - b) = a
        OBVIOUS
    <2>2. Shift(a, b - a) = {b} /\ Shift(b, a - b) = {a}
        BY <2>1 DEF Shift, Checked
    <2> QED BY <1>1, <2>2
<1>9. \A c \in ShiftLocal(zone, range[1], range[2] - range[1]) : range[2] \in Resolve(zone, c)
    <2> TAKE c \in ShiftLocal(zone, range[1], range[2] - range[1])
    <2>1. a + (b - a) = b
        OBVIOUS
    <2>2. c = b + Offset(zone, b)
        BY <1>1, <2>1 DEF ShiftLocal, ToLocal, Checked
    <2>3. zone.before \in Int /\ zone.after \in Int /\ Offset(zone, b) \in {zone.before, zone.after}
        BY DEF Offset, RegularZone, IsZone
    <2>4. b = c - Offset(zone, b)
        BY <2>2, <2>3
    <2> QED BY <1>1, <2>2, <2>3, <2>4 DEF Resolve
<1>10. \A f \in DOMAIN DateFormats :
          LET kept == [i \in 1 .. 2 |-> Floor(range[i], DateFormats[f])]
              text == WriteLocal(zone, DateFormats[f], range)
          IN
          /\ ReadRange(WriteUtc(DateFormats[f], range)) = {kept}
          /\ \A x \in text : ReadRange(x) = {kept} /\ ReadLocal(zone, x) = {kept}
          /\ text = {} => \E i \in 1 .. 2, offset \in {zone.before, zone.after} : ~Known(range[i] + offset)
          /\ kept[1] < kept[2] =>
                \A x \in WriteLocal(zone, DateFormats[f], <<range[2], range[1]>>) : ReadRange(x) = {} /\ ReadLocal(zone, x) = {}
          /\ \A clock \in ToLocal(zone, range[1]) :
                kept[1] \in ParseLocal(zone, WriteOffset(DateFormats[f], range[1], Offset(zone, range[1])))
          /\ FromTimestamp(range[1] \div DateFormats[f], DateFormats[f]) = {kept[1]}
    BY <1>3, <1>4
<1> QED BY <1>7, <1>8, <1>9, <1>10 DEF RangesRight, range, Time

-----------------------------------------------------------------------------
(* Settings of an application.                                              *)

\* A text starts with another one when its first characters are that one's.
LEMMA StartsWithIs ==
    ASSUME NEW Ch, NEW text \in Seq(Ch), NEW head \in Seq(Ch)
    PROVE  StartsWith(text, head) <=> Len(head) <= Len(text) /\ \A i \in 1 .. Len(head) : text[i] = head[i]
<1>1. Len(text) \in Nat /\ Len(head) \in Nat
    BY LenProperties
<1>2. CASE Len(head) <= Len(text)
    <2> DEFINE part == SubSeq(text, 1, Len(head))
    <2>1. \A i \in 1 .. Len(head) : text[i] \in Ch
        BY <1>1, <1>2, ElementOfSeq
    <2>2. part \in Seq(Ch) /\ Len(part) = Len(head) /\ \A i \in 1 .. Len(head) : part[i] = text[i]
        <3>1. /\ part \in Seq(Ch) /\ Len(part) = (IF 1 <= Len(head) THEN Len(head) - 1 + 1 ELSE 0)
              /\ \A i \in 1 .. Len(head) - 1 + 1 : part[i] = text[1 + i - 1]
            BY <1>1, <2>1, SubSeqProperties
        <3> QED BY <1>1, <3>1
    <2> HIDE DEF part
    <2>3. part = head <=> \A i \in 1 .. Len(head) : text[i] = head[i]
        BY <2>2, SeqEqual
    <2> QED BY <1>2, <2>3 DEF StartsWith, part
<1>3. CASE ~(Len(head) <= Len(text))
    BY <1>3 DEF StartsWith
<1> QED BY <1>2, <1>3

\* The case of one character.
LowerChar(c) == IF c \in DOMAIN LowerOf THEN LowerOf[c] ELSE c

\* Case is changed character by character.
LEMMA LowerIs ==
    ASSUME NEW Ch, {"a", "b"} \subseteq Ch, NEW text \in Seq(Ch)
    PROVE  /\ Lower(text) \in Seq(Ch) /\ Len(Lower(text)) = Len(text)
           /\ \A i \in 1 .. Len(text) : Lower(text)[i] = LowerChar(text[i])
<1>1. Len(text) \in Nat /\ DOMAIN text = 1 .. Len(text) /\ \A i \in 1 .. Len(text) : text[i] \in Ch
    BY LenProperties, ElementOfSeq
<1>2. Lower(text) = [i \in 1 .. Len(text) |-> LowerChar(text[i])]
    BY <1>1 DEF Lower, Cased, LowerChar
<1>3. ASSUME NEW c \in Ch PROVE LowerChar(c) \in Ch
    BY DEF LowerChar, LowerOf
<1>4. Lower(text) \in [1 .. Len(text) -> Ch]
    BY <1>1, <1>2, <1>3
<1>5. Lower(text) \in Seq(Ch)
    BY <1>1, <1>4, SeqDef
<1>6. Len(Lower(text)) = Len(text)
    BY <1>1, <1>4, <1>5, LenProperties
<1> QED BY <1>2, <1>5, <1>6

\* A name in upper case is read again in lower case.
LEMMA UpperLower ==
    ASSUME NEW Ch, {"a", "b", "A", "B"} \subseteq Ch, NEW name \in Seq(Ch), IsName(name)
    PROVE  /\ Upper(name) \in Seq(Ch) /\ Len(Upper(name)) = Len(name)
           /\ \A i \in 1 .. Len(name) : LowerChar(Upper(name)[i]) = name[i]
<1>1. Len(name) \in Nat /\ DOMAIN name = 1 .. Len(name) /\ \A i \in 1 .. Len(name) : name[i] \in Ch
    BY LenProperties, ElementOfSeq
<1> DEFINE UpperChar(c) == IF c \in DOMAIN UpperOf THEN UpperOf[c] ELSE c
<1>2. Upper(name) = [i \in 1 .. Len(name) |-> UpperChar(name[i])]
    BY <1>1 DEF Upper, Cased
<1>3. ASSUME NEW c \in Ch PROVE UpperChar(c) \in Ch
    BY DEF UpperOf
<1>4. \A i \in 1 .. Len(name) : name[i] \in {"a", "b", "1", "bar"}
    BY <1>1 DEF IsName, UpperOf
<1>5. \A c \in {"a", "b", "1", "bar"} : LowerChar(UpperChar(c)) = c
    BY DEF UpperOf, LowerOf, LowerChar
<1> HIDE DEF UpperChar
<1>6. Upper(name) \in [1 .. Len(name) -> Ch]
    BY <1>1, <1>2, <1>3
<1>7. Upper(name) \in Seq(Ch)
    BY <1>1, <1>6, SeqDef
<1>8. Len(Upper(name)) = Len(name)
    BY <1>1, <1>6, <1>7, LenProperties
<1>9. ASSUME NEW i \in 1 .. Len(name) PROVE LowerChar(Upper(name)[i]) = name[i]
    BY <1>2, <1>4, <1>5
<1> QED BY <1>7, <1>8, <1>9

\* A prefix with what separates it.
LEMMA WithSep ==
    ASSUME NEW Ch, {"a", "b", "bar"} \subseteq Ch, NEW prefix \in Seq(Ch)
    PROVE  /\ prefix \o Sep \in Seq(Ch) /\ Len(prefix \o Sep) = Len(prefix) + 2
           /\ \A i \in 1 .. Len(prefix) : (prefix \o Sep)[i] = prefix[i]
           /\ (prefix \o Sep)[Len(prefix) + 1] = "bar" /\ (prefix \o Sep)[Len(prefix) + 2] = "bar"
<1> DEFINE sep == Sep
<1>1. sep \in Seq(Ch) /\ Len(sep) = 2 /\ sep[1] = "bar" /\ sep[2] = "bar"
    BY DEF Sep
<1> HIDE DEF sep
<1>2. /\ prefix \o sep \in Seq(Ch) /\ Len(prefix \o sep) = Len(prefix) + Len(sep)
      /\ \A i \in 1 .. Len(prefix) + Len(sep) : (prefix \o sep)[i] = IF i <= Len(prefix) THEN prefix[i] ELSE sep[i - Len(prefix)]
    BY <1>1, ConcatProperties
<1>3. Len(prefix) \in Nat
    BY LenProperties
<1>4. /\ \A i \in 1 .. Len(prefix) : (prefix \o sep)[i] = prefix[i]
      /\ (prefix \o sep)[Len(prefix) + 1] = sep[1] /\ (prefix \o sep)[Len(prefix) + 2] = sep[2]
    BY <1>1, <1>2, <1>3
<1> QED BY <1>1, <1>2, <1>4 DEF sep

\* Whose a variable is: it begins with the prefix and two bars.
LEMMA ReadsIs ==
    ASSUME NEW Ch, {"a", "b", "A", "B", "bar"} \subseteq Ch, NEW prefix \in Seq(Ch), NEW var \in Seq(Ch)
    PROVE  Reads(prefix, var) <=> /\ Len(prefix) + 2 <= Len(var)
                                  /\ \A i \in 1 .. Len(prefix) : LowerChar(var[i]) = LowerChar(prefix[i])
                                  /\ LowerChar(var[Len(prefix) + 1]) = "bar" /\ LowerChar(var[Len(prefix) + 2]) = "bar"
<1> DEFINE head == Lower(prefix \o Sep)
           n == Len(prefix)
<1>1. n \in Nat /\ Len(var) \in Nat
    BY LenProperties
<1>2. prefix \o Sep \in Seq(Ch) /\ Len(prefix \o Sep) = n + 2
    BY WithSep
<1>3. head \in Seq(Ch) /\ Len(head) = n + 2 /\ \A i \in 1 .. n + 2 : head[i] = LowerChar((prefix \o Sep)[i])
    BY <1>2, LowerIs
<1>4. Lower(var) \in Seq(Ch) /\ Len(Lower(var)) = Len(var) /\ \A i \in 1 .. Len(var) : Lower(var)[i] = LowerChar(var[i])
    BY LowerIs
<1>5. LowerChar("bar") = "bar"
    BY DEF LowerChar, LowerOf
<1>6. \A i \in 1 .. n : head[i] = LowerChar(prefix[i])
    BY <1>1, <1>3, WithSep
<1>7. head[n + 1] = "bar" /\ head[n + 2] = "bar"
    <2>1. (prefix \o Sep)[n + 1] = "bar" /\ (prefix \o Sep)[n + 2] = "bar"
        BY WithSep
    <2>2. n + 1 \in 1 .. n + 2 /\ n + 2 \in 1 .. n + 2
        BY <1>1
    <2> HIDE DEF head, n
    <2> QED BY <1>3, <1>5, <2>1, <2>2
<1> HIDE DEF head
<1>8. StartsWith(Lower(var), head) <=> Len(head) <= Len(Lower(var)) /\ \A i \in 1 .. Len(head) : Lower(var)[i] = head[i]
    BY <1>3, <1>4, StartsWithIs
<1> HIDE DEF n
<1>9. StartsWith(Lower(var), head) <=> n + 2 <= Len(var) /\ \A i \in 1 .. n + 2 : Lower(var)[i] = head[i]
    BY <1>3, <1>4, <1>8
<1>10. (n + 2 <= Len(var) /\ \A i \in 1 .. n + 2 : Lower(var)[i] = head[i])
       <=> n + 2 <= Len(var) /\ (\A i \in 1 .. n : LowerChar(var[i]) = LowerChar(prefix[i])) /\ LowerChar(var[n + 1]) = "bar" /\ LowerChar(var[n + 2]) = "bar"
    BY <1>1, <1>4, <1>6, <1>7
<1> QED BY <1>9, <1>10 DEF Reads, head, n

\* Two applications with plain names never read the same variable.
THEOREM EnvironmentsApartCorrect ==
    ASSUME NEW Ch, {"a", "b", "A", "B", "bar"} \subseteq Ch, NEW name1 \in Seq(Ch), NEW name2 \in Seq(Ch), NEW var \in Seq(Ch)
    PROVE  EnvironmentsApart(name1, name2, var)
<1> DEFINE At(name) == /\ Len(name) + 2 <= Len(var) /\ \A i \in 1 .. Len(name) : LowerChar(var[i]) = name[i]
                       /\ LowerChar(var[Len(name) + 1]) = "bar" /\ LowerChar(var[Len(name) + 2]) = "bar"
<1>1. ASSUME NEW name \in Seq(Ch), Plain(name), Reads(Upper(name), var)
      PROVE  At(name) /\ Len(name) \in Nat /\ \A i \in 1 .. Len(name) : name[i] = "bar" => i < Len(name) /\ name[i + 1] # "bar"
    <2>1. IsName(name) /\ \A i \in DOMAIN name : name[i] = "bar" => i < Len(name) /\ name[i + 1] # "bar"
        BY <1>1 DEF Plain
    <2>2. Upper(name) \in Seq(Ch) /\ Len(Upper(name)) = Len(name) /\ \A i \in 1 .. Len(name) : LowerChar(Upper(name)[i]) = name[i]
        BY <2>1, UpperLower
    <2>3. DOMAIN name = 1 .. Len(name) /\ Len(name) \in Nat
        BY LenProperties
    <2> DEFINE upper == Upper(name)
    <2> HIDE DEF upper
    <2>4. /\ Len(upper) + 2 <= Len(var) /\ \A i \in 1 .. Len(upper) : LowerChar(var[i]) = LowerChar(upper[i])
          /\ LowerChar(var[Len(upper) + 1]) = "bar" /\ LowerChar(var[Len(upper) + 2]) = "bar"
        BY <1>1, <2>2, ReadsIs DEF upper
    <2> QED BY <2>1, <2>2, <2>3, <2>4 DEF upper
<1>2. ASSUME NEW x \in Seq(Ch), NEW y \in Seq(Ch), Plain(x), Plain(y), Reads(Upper(x), var), Reads(Upper(y), var), Len(x) < Len(y)
      PROVE  FALSE
    <2>1. /\ At(x) /\ Len(x) \in Nat /\ At(y) /\ Len(y) \in Nat
          /\ \A i \in 1 .. Len(y) : y[i] = "bar" => i < Len(y) /\ y[i + 1] # "bar"
        BY <1>1, <1>2
    <2>2. y[Len(x) + 1] = "bar"
        BY <1>2, <2>1, SMTT(30)
    <2>3. Len(x) + 1 < Len(y) /\ y[Len(x) + 1 + 1] # "bar"
        BY <1>2, <2>1, <2>2
    <2>4. Len(x) + 1 + 1 = Len(x) + 2 /\ Len(x) + 2 \in 1 .. Len(y)
        BY <1>2, <2>1, <2>3
    <2>5. y[Len(x) + 2] = "bar"
        BY <2>1, <2>4
    <2> QED BY <2>3, <2>4, <2>5
<1>3. ASSUME Plain(name1), Plain(name2), Reads(Upper(name1), var), Reads(Upper(name2), var) PROVE name1 = name2
    <2>1. At(name1) /\ At(name2) /\ Len(name1) \in Nat /\ Len(name2) \in Nat
        BY <1>1, <1>3
    <2>2. Len(name1) = Len(name2)
        BY <1>2, <1>3, <2>1
    <2>3. \A i \in 1 .. Len(name1) : name1[i] = name2[i]
        BY <2>1, <2>2
    <2> QED BY <2>2, <2>3, SeqEqual
<1> QED BY <1>3 DEF EnvironmentsApart

\* A variable that is set wins over every default.
THEOREM VariablesWinCorrect == \A given, name, fallback : VariablesWin(given, name, fallback)
<1> SUFFICES ASSUME NEW given, NEW name, NEW fallback PROVE VariablesWin(given, name, fallback)
    OBVIOUS
<1> DEFINE defaults == BuiltinDefaults
<1>1. ASSUME name \in DOMAIN given PROVE EnvGet(given, name, defaults) = {EnvGetOr(given, name, fallback)}
    <2>1. EnvGetOpt(given, name) = {given[name]}
        BY <1>1 DEF EnvGetOpt
    <2>2. EnvGetOr(given, name, fallback) = given[name]
        BY <2>1 DEF EnvGetOr, Given
    <2> QED BY <1>1, <2>2 DEF EnvGet
<1>2. ASSUME name \notin DOMAIN given
      PROVE  EnvGetOr(given, name, fallback) = fallback /\ (EnvGet(given, name, defaults) # {} <=> name \in DOMAIN defaults)
    <2>1. EnvGetOpt(given, name) = {}
        BY <1>2 DEF EnvGetOpt
    <2> HIDE DEF defaults
    <2>2. EnvGet(given, name, defaults) = EnvGetOpt(defaults, name)
        BY <1>2 DEF EnvGet
    <2>3. EnvGetOpt(defaults, name) # {} <=> name \in DOMAIN defaults
        BY DEF EnvGetOpt
    <2> QED BY <2>1, <2>2, <2>3 DEF EnvGetOr, Given
<1> QED BY <1>1, <1>2 DEF VariablesWin

\* The characters that are told apart.
Alphabet(Ch) == {"a", "b", "A", "B", "bar", "="} \subseteq Ch

\* Of what a text consists when it starts with a prefix and two bars, and what follows is a key.
LEMMA KeyFollows ==
    ASSUME NEW Ch, Alphabet(Ch), NEW prefix \in Seq(Ch), NEW k \in Seq(Ch), Lower(k) = k, NEW v \in Seq(Ch)
    PROVE  Reads(prefix, v) /\ KeyOf(prefix, v) = k <=> Lower(v) = Lower(prefix \o Sep \o k)
<1> DEFINE n == Len(prefix)
           m == Len(k)
           head == prefix \o Sep
           all == head \o k
           rest == SubSeq(v, n + 3, Len(v))
           Fits == /\ Len(v) = n + 2 + m
                   /\ \A i \in 1 .. n + 2 : LowerChar(v[i]) = LowerChar(head[i])
                   /\ \A i \in 1 .. m : LowerChar(v[n + 2 + i]) = k[i]
<1>1. n \in Nat /\ m \in Nat /\ Len(v) \in Nat /\ \A i \in 1 .. Len(v) : v[i] \in Ch
    BY LenProperties, ElementOfSeq
<1>2. head \in Seq(Ch) /\ Len(head) = n + 2
    BY WithSep DEF Alphabet
<1>3. \A i \in 1 .. n : head[i] = prefix[i]
    BY WithSep DEF Alphabet
<1>4. head[n + 1] = "bar" /\ head[n + 2] = "bar"
    BY WithSep DEF Alphabet
<1>5. \A i \in 1 .. m : LowerChar(k[i]) = k[i]
    BY LowerIs DEF Alphabet
<1> HIDE DEF head
<1>6. /\ all \in Seq(Ch) /\ Len(all) = n + 2 + m
      /\ \A i \in 1 .. n + 2 : all[i] = head[i]
      /\ \A i \in 1 .. m : all[n + 2 + i] = k[i]
    <2>1. all \in Seq(Ch) /\ Len(all) = Len(head) + Len(k)
          /\ \A i \in 1 .. Len(head) + Len(k) : all[i] = IF i <= Len(head) THEN head[i] ELSE k[i - Len(head)]
        BY <1>2, ConcatProperties
    <2> HIDE DEF all
    <2>2. \A i \in 1 .. n + 2 : all[i] = head[i]
        BY <1>1, <1>2, <2>1
    <2>3. ASSUME NEW i \in 1 .. m PROVE all[n + 2 + i] = k[i]
        <3>1. n + 2 + i \in 1 .. Len(head) + Len(k) /\ ~(n + 2 + i <= Len(head)) /\ (n + 2 + i) - Len(head) = i
            BY <1>1, <1>2
        <3> QED BY <2>1, <3>1
    <2> QED BY <1>1, <1>2, <2>1, <2>2, <2>3
<1>7. Lower(v) = Lower(all) <=> Fits
    <2>1. Lower(v) \in Seq(Ch) /\ Len(Lower(v)) = Len(v) /\ \A i \in 1 .. Len(v) : Lower(v)[i] = LowerChar(v[i])
        BY LowerIs DEF Alphabet
    <2> HIDE DEF all, n, m
    <2>2. Lower(all) \in Seq(Ch) /\ Len(Lower(all)) = n + 2 + m /\ \A i \in 1 .. n + 2 + m : Lower(all)[i] = LowerChar(all[i])
        BY <1>6, LowerIs DEF Alphabet
    <2>3. Lower(v) = Lower(all) <=> Len(v) = n + 2 + m /\ \A i \in 1 .. n + 2 + m : Lower(v)[i] = Lower(all)[i]
        BY <2>1, <2>2, SeqEqual
    <2>4. ASSUME Len(v) = n + 2 + m PROVE (\A i \in 1 .. n + 2 + m : Lower(v)[i] = Lower(all)[i]) <=> Fits
        <3>1. ASSUME NEW i \in 1 .. n + 2 PROVE i \in 1 .. n + 2 + m /\ Lower(all)[i] = LowerChar(head[i]) /\ Lower(v)[i] = LowerChar(v[i])
            <4>1. i \in 1 .. n + 2 + m
                BY <1>1
            <4>2. Lower(all)[i] = LowerChar(all[i]) /\ Lower(v)[i] = LowerChar(v[i])
                BY <2>1, <2>2, <2>4, <4>1
            <4>3. all[i] = head[i]
                BY <1>6
            <4> QED BY <4>1, <4>2, <4>3
        <3>2. ASSUME NEW i \in 1 .. m PROVE n + 2 + i \in 1 .. n + 2 + m /\ Lower(all)[n + 2 + i] = k[i] /\ Lower(v)[n + 2 + i] = LowerChar(v[n + 2 + i])
            <4>1. n + 2 + i \in 1 .. n + 2 + m
                BY <1>1
            <4> QED BY <1>5, <1>6, <2>1, <2>2, <2>4, <4>1
        <3>3. ASSUME NEW i \in 1 .. n + 2 + m PROVE i \in 1 .. n + 2 \/ \E h \in 1 .. m : i = n + 2 + h
            <4>1. i > n + 2 => i - (n + 2) \in 1 .. m /\ i = n + 2 + (i - (n + 2))
                BY <1>1
            <4> QED BY <1>1, <4>1
        <3> QED BY <2>4, <3>1, <3>2, <3>3
    <2> QED BY <2>3, <2>4
<1>8. Reads(prefix, v) /\ KeyOf(prefix, v) = k <=> Fits
    <2>1. Reads(prefix, v) <=> n + 2 <= Len(v) /\ \A i \in 1 .. n + 2 : LowerChar(v[i]) = LowerChar(head[i])
        <3>1. Reads(prefix, v) <=> /\ n + 2 <= Len(v)
                                   /\ \A i \in 1 .. n : LowerChar(v[i]) = LowerChar(prefix[i])
                                   /\ LowerChar(v[n + 1]) = "bar" /\ LowerChar(v[n + 2]) = "bar"
            BY ReadsIs DEF Alphabet
        <3>2. LowerChar("bar") = "bar"
            BY DEF LowerChar, LowerOf
        <3> HIDE DEF n
        <3>3. \A i \in 1 .. n + 2 : i \in 1 .. n \/ i = n + 1 \/ i = n + 2
            BY <1>1
        <3>4. \A i \in 1 .. n : i \in 1 .. n + 2
            BY <1>1
        <3>5. n + 1 \in 1 .. n + 2 /\ n + 2 \in 1 .. n + 2
            BY <1>1
        <3> QED BY <1>3, <1>4, <3>1, <3>2, <3>3, <3>4, <3>5
    <2>2. ASSUME n + 2 <= Len(v) PROVE KeyOf(prefix, v) = k <=> Len(v) = n + 2 + m /\ \A i \in 1 .. m : LowerChar(v[n + 2 + i]) = k[i]
        <3> HIDE DEF n, m
        <3>1. /\ rest \in Seq(Ch) /\ Len(rest) = Len(v) - (n + 2)
              /\ \A i \in 1 .. Len(v) - (n + 2) : rest[i] = v[n + 2 + i]
            <4>1. \A i \in n + 3 .. Len(v) : v[i] \in Ch
                BY <1>1
            <4>2. /\ rest \in Seq(Ch) /\ Len(rest) = (IF n + 3 <= Len(v) THEN Len(v) - (n + 3) + 1 ELSE 0)
                  /\ \A i \in 1 .. Len(v) - (n + 3) + 1 : rest[i] = v[n + 3 + i - 1]
                BY <1>1, <4>1, SubSeqProperties
            <4>3. \A i \in 1 .. Len(v) - (n + 2) : i \in 1 .. Len(v) - (n + 3) + 1 /\ n + 3 + i - 1 = n + 2 + i
                BY <1>1
            <4>4. (IF n + 3 <= Len(v) THEN Len(v) - (n + 3) + 1 ELSE 0) = Len(v) - (n + 2)
                BY <1>1, <2>2
            <4> HIDE DEF rest
            <4> QED BY <4>2, <4>3, <4>4
        <3> HIDE DEF rest
        <3>2. Lower(rest) \in Seq(Ch) /\ Len(Lower(rest)) = Len(rest) /\ \A i \in 1 .. Len(rest) : Lower(rest)[i] = LowerChar(rest[i])
            BY <3>1, LowerIs DEF Alphabet
        <3>3. Lower(rest) = k <=> Len(Lower(rest)) = m /\ \A i \in 1 .. m : Lower(rest)[i] = k[i]
            BY <3>2, SeqEqual DEF m
        <3>4. Len(v) - (n + 2) = m <=> Len(v) = n + 2 + m
            BY <1>1
        <3>5. KeyOf(prefix, v) = Lower(rest)
            BY DEF KeyOf, rest, n
        <3>6. ASSUME Len(rest) = m, NEW i \in 1 .. m PROVE Lower(rest)[i] = LowerChar(v[n + 2 + i])
            BY <3>1, <3>2, <3>6
        <3> QED BY <3>1, <3>2, <3>3, <3>4, <3>5, <3>6
    <2>3. Len(v) = n + 2 + m => n + 2 <= Len(v)
        BY <1>1
    <2> HIDE DEF n, m
    <2> QED BY <2>1, <2>2, <2>3
<1> QED BY <1>7, <1>8 DEF all, head

\* What the environment says of a key.
LEMMA EnvironmentOf ==
    ASSUME NEW prefix, NEW given, NEW k
    PROVE  /\ k \in DOMAIN Environment(prefix, given) <=> \E v \in DOMAIN given : Reads(prefix, v) /\ KeyOf(prefix, v) = k
           /\ k \in DOMAIN Environment(prefix, given) =>
                  \E v \in DOMAIN given : Reads(prefix, v) /\ KeyOf(prefix, v) = k /\ Environment(prefix, given)[k] = given[v]
<1> DEFINE read == {v \in DOMAIN given : Reads(prefix, v)}
           of == CHOOSE v \in read : KeyOf(prefix, v) = k
<1>1. k \in DOMAIN Environment(prefix, given) <=> \E v \in read : KeyOf(prefix, v) = k
    BY DEF Environment
<1>2. k \in DOMAIN Environment(prefix, given) => Environment(prefix, given)[k] = given[of]
    BY DEF Environment
<1>3. (\E v \in read : KeyOf(prefix, v) = k) => of \in read /\ KeyOf(prefix, of) = k
    OBVIOUS
<1> HIDE DEF of
<1> QED BY <1>1, <1>2, <1>3

\* What a --set says of a key.
OverrideIs(raw, k, o) ==
    /\ ParseOverride(raw) = {o}
    /\ o[1] = k <=> StartsWith(raw, k \o <<"=">>)
    /\ o[1] = k => o[2] = SubSeq(raw, Len(k) + 2, Len(raw))

\* An override that is accepted is cut at its first "=", whatever key it has.
LEMMA OverrideOf ==
    ASSUME NEW Ch, Alphabet(Ch), NEW raw \in Seq(Ch), ParseOverride(raw) # {},
           NEW k \in Seq(Ch), k # <<>>, \A i \in 1 .. Len(k) : k[i] # "="
    PROVE  \E o : OverrideIs(raw, k, o)
<1> DEFINE at == {i \in DOMAIN raw : raw[i] = "="}
           m == Len(k)
           eq == <<"=">>
<1>1. Len(raw) \in Nat /\ DOMAIN raw = 1 .. Len(raw) /\ m \in Nat /\ (\A i \in 1 .. Len(raw) : raw[i] \in Ch) /\ "=" \in Ch
    BY LenProperties, ElementOfSeq DEF Alphabet
<1>2. PICK first \in at : \A j \in at : first <= j
    BY DEF ParseOverride
<1>3. {j \in at : \A h \in at : j <= h} = {first}
    BY <1>1, <1>2
<1> DEFINE o == <<SubSeq(raw, 1, first - 1), SubSeq(raw, first + 1, Len(raw))>>
<1>4. ParseOverride(raw) = {o}
    <2>1. ParseOverride(raw) = {x \in {<<SubSeq(raw, 1, i - 1), SubSeq(raw, i + 1, Len(raw))>> : i \in {j \in at : \A h \in at : j <= h}} : x[1] # <<>>}
        BY DEF ParseOverride
    <2>2. {<<SubSeq(raw, 1, i - 1), SubSeq(raw, i + 1, Len(raw))>> : i \in {first}} = {o}
        OBVIOUS
    <2> HIDE DEF o, at
    <2>3. ParseOverride(raw) = {x \in {o} : x[1] # <<>>}
        BY <1>3, <2>1, <2>2
    <2> QED BY <2>3
<1>5. first \in 1 .. Len(raw) /\ raw[first] = "=" /\ \A j \in 1 .. Len(raw) : raw[j] = "=" => first <= j
    BY <1>1, <1>2
<1> HIDE DEF at
<1>6. o[1] = k <=> first = m + 1 /\ \A i \in 1 .. m : raw[i] = k[i]
    <2> DEFINE key == SubSeq(raw, 1, first - 1)
    <2>1. /\ key \in Seq(Ch) /\ Len(key) = first - 1
          /\ \A i \in 1 .. first - 1 : key[i] = raw[i]
        <3>1. \A i \in 1 .. first - 1 : raw[i] \in Ch
            BY <1>1, <1>5
        <3>2. /\ key \in Seq(Ch) /\ Len(key) = (IF 1 <= first - 1 THEN first - 1 - 1 + 1 ELSE 0)
              /\ \A i \in 1 .. first - 1 - 1 + 1 : key[i] = raw[1 + i - 1]
            BY <1>1, <1>5, <3>1, SubSeqProperties
        <3> HIDE DEF key
        <3>3. first \in Int /\ first >= 1
            BY <1>5
        <3> QED BY <3>2, <3>3
    <2> HIDE DEF key
    <2>2. key = k <=> Len(key) = m /\ \A i \in 1 .. m : key[i] = k[i]
        BY <2>1, SeqEqual
    <2>3. first - 1 = m <=> first = m + 1
        BY <1>1, <1>5
    <2>4. key = k <=> first = m + 1 /\ \A i \in 1 .. m : raw[i] = k[i]
        BY <2>1, <2>2, <2>3
    <2> QED BY <2>4 DEF key
<1>7. StartsWith(raw, k \o <<"=">>) <=> m + 1 <= Len(raw) /\ (\A i \in 1 .. m : raw[i] = k[i]) /\ raw[m + 1] = "="
    <2> DEFINE head == k \o eq
    <2>1. eq \in Seq(Ch) /\ Len(eq) = 1 /\ eq[1] = "="
        BY <1>1
    <2> HIDE DEF eq
    <2>2. head \in Seq(Ch) /\ Len(head) = m + 1 /\ (\A i \in 1 .. m : head[i] = k[i]) /\ head[m + 1] = "="
        <3>1. /\ head \in Seq(Ch) /\ Len(head) = Len(k) + Len(eq)
              /\ \A i \in 1 .. Len(k) + Len(eq) : head[i] = IF i <= Len(k) THEN k[i] ELSE eq[i - Len(k)]
            BY <2>1, ConcatProperties
        <3> HIDE DEF head
        <3>2. m + 1 \in 1 .. m + 1 /\ ~(m + 1 <= m) /\ (m + 1) - m = 1
            BY <1>1
        <3> QED BY <1>1, <2>1, <3>1, <3>2
    <2> HIDE DEF head, m
    <2>3. StartsWith(raw, head) <=> Len(head) <= Len(raw) /\ \A i \in 1 .. Len(head) : raw[i] = head[i]
        BY <2>2, StartsWithIs
    <2>4. (\A i \in 1 .. m + 1 : raw[i] = head[i]) <=> (\A i \in 1 .. m : raw[i] = k[i]) /\ raw[m + 1] = "="
        <3>1. \A i \in 1 .. m + 1 : i \in 1 .. m \/ i = m + 1
            BY <1>1
        <3>2. m + 1 \in 1 .. m + 1 /\ \A i \in 1 .. m : i \in 1 .. m + 1
            BY <1>1
        <3> QED BY <2>2, <3>1, <3>2
    <2> QED BY <2>2, <2>3, <2>4 DEF head, eq
<1>8. o[1] = k <=> StartsWith(raw, k \o <<"=">>)
    <2>1. ASSUME m + 1 <= Len(raw), \A i \in 1 .. m : raw[i] = k[i], raw[m + 1] = "=" PROVE first = m + 1
        <3>1. m + 1 \in 1 .. Len(raw)
            BY <1>1, <2>1
        <3>2. first <= m + 1
            BY <1>5, <2>1, <3>1
        <3>3. first \notin 1 .. m
            BY <1>5, <2>1
        <3> QED BY <1>1, <1>5, <3>2, <3>3
    <2> HIDE DEF o, m
    <2>2. first = m + 1 => m + 1 <= Len(raw) /\ raw[m + 1] = "="
        BY <1>5
    <2> QED BY <1>6, <1>7, <2>1, <2>2
<1>9. o[1] = k => o[2] = SubSeq(raw, Len(k) + 2, Len(raw))
    <2>1. first = m + 1 => first + 1 = m + 2
        BY <1>1
    <2>2. o[2] = SubSeq(raw, first + 1, Len(raw))
        OBVIOUS
    <2> HIDE DEF o
    <2> QED BY <1>6, <2>1, <2>2
<1> HIDE DEF o
<1> QED BY <1>4, <1>8, <1>9 DEF OverrideIs

\* What the last of the sources that have a key says of it is merged.
MergedAs(sources, n, k) ==
    /\ k \in DOMAIN Merged(sources) <=> \E i \in 1 .. n : k \in DOMAIN sources[i]
    /\ \A i \in 1 .. n : k \in DOMAIN sources[i] /\ (\A j \in 1 .. n : k \in DOMAIN sources[j] => j <= i) => Merged(sources)[k] = sources[i][k]

\* What is merged has the keys of all sources, each with the value of the last one.
LEMMA MergedIs ==
    ASSUME NEW sources, NEW n \in Nat, DOMAIN sources = 1 .. n, NEW k
    PROVE  MergedAs(sources, n, k)
<1> DEFINE last == CHOOSE i \in DOMAIN sources : k \in DOMAIN sources[i] /\ \A j \in DOMAIN sources : k \in DOMAIN sources[j] => j <= i
<1>1. k \in DOMAIN Merged(sources) <=> \E i \in DOMAIN sources : k \in DOMAIN sources[i]
    BY DEF Merged
<1>2. k \in DOMAIN Merged(sources) => Merged(sources)[k] = sources[last][k]
    BY DEF Merged
<1>3. ASSUME NEW i \in 1 .. n, k \in DOMAIN sources[i], \A j \in 1 .. n : k \in DOMAIN sources[j] => j <= i
      PROVE  Merged(sources)[k] = sources[i][k]
    <2>1. /\ last \in 1 .. n /\ k \in DOMAIN sources[last] /\ \A j \in 1 .. n : k \in DOMAIN sources[j] => j <= last
        BY <1>3
    <2> HIDE DEF last
    <2>2. last <= i /\ i <= last
        BY <1>3, <2>1
    <2>3. last = i
        BY <1>3, <2>1, <2>2
    <2> QED BY <1>1, <1>2, <1>3, <2>3
<1> QED BY <1>1, <1>3 DEF MergedAs

\* Where things are in a sequence of f, one more, and o.
Placed(f, o) ==
    /\ \A i \in 1 .. f : i \in 1 .. f + 1 /\ i \in 1 .. f + 1 + o /\ i <= f /\ i <= f + 1
    /\ f + 1 \in 1 .. f + 1 /\ f + 1 \in 1 .. f + 1 + o /\ ~(f + 1 <= f) /\ f + 1 <= f + 1 /\ (f + 1) - f = 1
    /\ \A i \in 1 .. o : f + 1 + i \in 1 .. f + 1 + o /\ ~(f + 1 + i <= f + 1) /\ (f + 1 + i) - (f + 1) = i /\ f + 1 <= f + 1 + i
    /\ \A j \in 1 .. f + 1 + o : j \in 1 .. f \/ j = f + 1 \/ \E i \in 1 .. o : j = f + 1 + i
    /\ f + 1 + o \in Nat

\* The sources are counted: the files first, then the environment, then the overrides.
LEMMA Places ==
    ASSUME NEW f \in Nat, NEW o \in Nat
    PROVE  Placed(f, o)
<1>1. \A j \in 1 .. f + 1 + o : j > f + 1 => j - (f + 1) \in 1 .. o /\ j = f + 1 + (j - (f + 1))
    OBVIOUS
<1> QED BY <1>1 DEF Placed

\* The sources in their order: the files, the environment, the overrides.
SourcesAs(args, given, disk, f, o) ==
    /\ f \in Nat /\ o \in Nat /\ DOMAIN Sources(args, given, disk) = 1 .. f + 1 + o
    /\ DOMAIN Files(args, given) = 1 .. f /\ DOMAIN args.overrides = 1 .. o
    /\ \A i \in 1 .. f : Sources(args, given, disk)[i] = disk[Files(args, given)[i]]
    /\ Sources(args, given, disk)[f + 1] = Environment(Prefix(args), given)
    /\ \A i \in 1 .. o : Sources(args, given, disk)[f + 1 + i] = Written(args)[i]

\* What stands at each of these places.
LEMMA SourcesAre ==
    ASSUME NEW B, NEW args, args.configs \in Seq(B), NEW Y, args.overrides \in Seq(Y), NEW given, NEW disk, NEW f, NEW o,
           f = 1 + Len(args.configs), o = Len(args.overrides)
    PROVE  SourcesAs(args, given, disk, f, o)
<1> DEFINE files == Contents(args, given, disk)
           env == <<Environment(Prefix(args), given)>>
           set == Written(args)
           T == {files[i] : i \in 1 .. f} \union {Environment(Prefix(args), given)} \union {set[i] : i \in 1 .. o}
<1>1. f \in Nat /\ o \in Nat /\ DOMAIN args.overrides = 1 .. o
    BY LenProperties
<1>2. DOMAIN Files(args, given) = 1 .. f
    BY DEF Files
<1>3. files = [i \in 1 .. f |-> disk[Files(args, given)[i]]]
    BY <1>2 DEF Contents
<1>4. DOMAIN set = 1 .. o
    BY <1>1 DEF Written
<1>5. files \in Seq(T) /\ Len(files) = f
    <2>1. files \in [1 .. f -> T]
        <3>1. \A i \in 1 .. f : files[i] \in T
            OBVIOUS
        <3> HIDE DEF T
        <3> QED BY <1>3, <3>1
    <2>2. files \in Seq(T)
        <3> HIDE DEF T, files
        <3> QED BY <1>1, <2>1, SeqDef
    <2> HIDE DEF T, files
    <2> QED BY <1>1, <2>1, <2>2, LenProperties
<1>6. set \in Seq(T) /\ Len(set) = o
    <2>1. set \in [1 .. o -> T]
        <3>1. \A i \in 1 .. o : set[i] \in T
            OBVIOUS
        <3>2. set = [i \in 1 .. o |-> set[i]]
            BY <1>1 DEF Written
        <3> HIDE DEF T, set
        <3> QED BY <3>1, <3>2
    <2>2. set \in Seq(T)
        <3> HIDE DEF T, set
        <3> QED BY <1>1, <2>1, SeqDef
    <2> HIDE DEF T, set
    <2> QED BY <1>1, <2>1, <2>2, LenProperties
<1>7. env \in Seq(T) /\ Len(env) = 1 /\ env[1] = Environment(Prefix(args), given)
    <2> DEFINE e == Environment(Prefix(args), given)
    <2>1. e \in T
        OBVIOUS
    <2> HIDE DEF e, T
    <2>2. <<e>> \in Seq(T) /\ Len(<<e>>) = 1 /\ <<e>>[1] = e
        BY <2>1
    <2> QED BY <2>2 DEF e
<1> HIDE DEF files, env, set, T
<1> DEFINE front == files \o env
           all == front \o set
<1>8. /\ front \in Seq(T) /\ Len(front) = Len(files) + Len(env)
      /\ \A i \in 1 .. Len(files) + Len(env) : front[i] = IF i <= Len(files) THEN files[i] ELSE env[i - Len(files)]
    BY <1>5, <1>7, ConcatProperties
<1>9. /\ all \in Seq(T) /\ Len(all) = Len(front) + Len(set)
      /\ \A i \in 1 .. Len(front) + Len(set) : all[i] = IF i <= Len(front) THEN front[i] ELSE set[i - Len(front)]
    <2> HIDE DEF front
    <2>1. front \in Seq(T) /\ set \in Seq(T)
        BY <1>6, <1>8
    <2> QED BY <2>1, ConcatProperties
<1>10. all = Sources(args, given, disk)
    BY DEF all, front, files, env, set, Sources
<1> HIDE DEF front, all
<1>11. /\ Len(front) = f + 1 /\ all \in Seq(T) /\ Len(all) = f + 1 + o
       /\ \A i \in 1 .. f + 1 : front[i] = IF i <= f THEN files[i] ELSE env[i - f]
       /\ \A i \in 1 .. f + 1 + o : all[i] = IF i <= f + 1 THEN front[i] ELSE set[i - (f + 1)]
    <2>1. Len(front) = f + 1
        BY <1>5, <1>7, <1>8
    <2> QED BY <1>5, <1>6, <1>7, <1>8, <1>9, <2>1
<1>12. DOMAIN all = 1 .. f + 1 + o
    BY <1>11, LenProperties
<1>16. /\ \A i \in 1 .. f : i \in 1 .. f + 1 /\ i \in 1 .. f + 1 + o /\ i <= f /\ i <= f + 1
       /\ f + 1 \in 1 .. f + 1 /\ f + 1 \in 1 .. f + 1 + o /\ ~(f + 1 <= f) /\ f + 1 <= f + 1 /\ (f + 1) - f = 1
       /\ \A i \in 1 .. o : f + 1 + i \in 1 .. f + 1 + o /\ ~(f + 1 + i <= f + 1) /\ (f + 1 + i) - (f + 1) = i
    <2>1. Placed(f, o)
        BY <1>1, Places
    <2> QED BY <2>1 DEF Placed
<1>13. ASSUME NEW i \in 1 .. f PROVE all[i] = disk[Files(args, given)[i]]
    <2>1. all[i] = front[i]
        BY <1>11, <1>16
    <2>2. front[i] = files[i]
        BY <1>11, <1>16
    <2> QED BY <1>3, <2>1, <2>2
<1>14. all[f + 1] = Environment(Prefix(args), given)
    <2>1. all[f + 1] = front[f + 1]
        BY <1>11, <1>16
    <2>2. front[f + 1] = env[(f + 1) - f]
        BY <1>11, <1>16
    <2> QED BY <1>7, <1>16, <2>1, <2>2
<1>15. ASSUME NEW i \in 1 .. o PROVE all[f + 1 + i] = set[i]
    <2>1. all[f + 1 + i] = set[(f + 1 + i) - (f + 1)]
        BY <1>11, <1>16
    <2> QED BY <1>16, <2>1
<1> QED BY <1>1, <1>2, <1>10, <1>12, <1>13, <1>14, <1>15 DEF set, SourcesAs

\* Keys as programs have them: in lower case and without an equals sign.
IsKey(Ch, k) == k \in Seq(Ch) /\ k # <<>> /\ Lower(k) = k /\ \A i \in 1 .. Len(k) : k[i] # "="

\* What somebody set takes effect.
THEOREM SettingsWinCorrect ==
    ASSUME NEW Ch, Alphabet(Ch), \A k \in KnownKeys : IsKey(Ch, k),
           NEW args, args.overrides \in Seq(Seq(Ch)), NEW S, args.configs \in Seq(S), Prefix(args) \in Seq(Ch),
           NEW given, DOMAIN given \subseteq Seq(Ch), NEW disk
    PROVE  SettingsWin(args, given, disk)
<1> DEFINE sources == Sources(args, given, disk)
           config == Merged(sources)
           registry == RegistryConfig(config)
           raws == args.overrides
           f == 1 + Len(args.configs)
           o == Len(args.overrides)
           File(i) == disk[Files(args, given)[i]]
           env == Environment(Prefix(args), given)
           Set(k) == {i \in DOMAIN raws : StartsWith(raws[i], k \o <<"=">>)}
           In(k) == {v \in DOMAIN given : Lower(v) = Lower(Prefix(args) \o Sep \o k)}
           On(k) == {i \in DOMAIN Files(args, given) : k \in DOMAIN disk[Files(args, given)[i]]}
           Right(k) ==
               /\ \A i \in Set(k) : (\A j \in Set(k) : j <= i) => config[k] = SubSeq(args.overrides[i], Len(k) + 2, Len(args.overrides[i]))
               /\ Set(k) = {} /\ In(k) # {} => \E v \in In(k) : config[k] = given[v]
               /\ Set(k) = {} /\ In(k) = {} => \A i \in On(k) : (\A j \in On(k) : j <= i) => config[k] = disk[Files(args, given)[i]][k]
               /\ k \in DOMAIN registry => \/ k \in DOMAIN config /\ registry[k] = config[k]
                                           \/ Set(k) = {} /\ In(k) = {} /\ On(k) = {} /\ registry[k] = DefaultRegistry[k]
<1>1. ASSUME \A i \in DOMAIN raws : ParseOverride(raws[i]) # {}, NEW k \in KnownKeys
      PROVE  Right(k)
    <2> DEFINE n == f + 1 + o
    <2>1. /\ f \in Nat /\ o \in Nat /\ DOMAIN sources = 1 .. n
          /\ DOMAIN Files(args, given) = 1 .. f /\ DOMAIN raws = 1 .. o
          /\ \A i \in 1 .. f : sources[i] = File(i)
          /\ sources[f + 1] = env
          /\ \A i \in 1 .. o : sources[f + 1 + i] = Written(args)[i]
        <3>1. f = 1 + Len(args.configs) /\ o = Len(args.overrides)
            OBVIOUS
        <3> HIDE DEF f, o
        <3>2. SourcesAs(args, given, disk, f, o)
            BY <3>1, SourcesAre
        <3> QED BY <3>2 DEF SourcesAs
    <2>2. IsKey(Ch, k) /\ k \in Seq(Ch)
        BY DEF IsKey
    <2>3. ASSUME NEW i \in 1 .. o
          PROVE  /\ k \in DOMAIN Written(args)[i] <=> i \in Set(k)
                 /\ k \in DOMAIN Written(args)[i] => Written(args)[i][k] = SubSeq(raws[i], Len(k) + 2, Len(raws[i]))
        <3>1. raws[i] \in Seq(Ch) /\ ParseOverride(raws[i]) # {} /\ i \in DOMAIN raws
            <4>1. i \in DOMAIN raws
                BY <2>1
            <4>2. i \in 1 .. Len(raws)
                BY <2>1
            <4>3. raws[i] \in Seq(Ch)
                <5> DEFINE Texts == Seq(Ch)
                <5>1. raws \in Seq(Texts)
                    OBVIOUS
                <5> HIDE DEF Texts, raws
                <5>2. raws[i] \in Texts
                    BY <4>2, <5>1, ElementOfSeq
                <5> QED BY <5>2 DEF Texts
            <4> QED BY <1>1, <4>1, <4>3
        <3>2. PICK x : OverrideIs(raws[i], k, x)
            BY <2>2, <3>1, OverrideOf DEF IsKey
        <3>3. Written(args)[i] = [h \in {y[1] : y \in ParseOverride(raws[i])} |-> (CHOOSE y \in ParseOverride(raws[i]) : TRUE)[2]]
            BY <3>1 DEF Written
        <3>4. /\ ParseOverride(raws[i]) = {x}
              /\ x[1] = k <=> StartsWith(raws[i], k \o <<"=">>)
              /\ x[1] = k => x[2] = SubSeq(raws[i], Len(k) + 2, Len(raws[i]))
            BY <3>2 DEF OverrideIs
        <3>5. (CHOOSE y \in {x} : TRUE) = x
            OBVIOUS
        <3>6. Written(args)[i] = [h \in {x[1]} |-> x[2]]
            BY <3>3, <3>4, <3>5
        <3>7. DOMAIN Written(args)[i] = {x[1]} /\ (k = x[1] => Written(args)[i][k] = x[2])
            BY <3>6
        <3> QED BY <3>1, <3>4, <3>7
    <2>4. /\ k \in DOMAIN env <=> In(k) # {}
          /\ k \in DOMAIN env => \E v \in In(k) : env[k] = given[v]
        <3>1. ASSUME NEW v \in DOMAIN given PROVE Reads(Prefix(args), v) /\ KeyOf(Prefix(args), v) = k <=> v \in In(k)
            <4>1. v \in Seq(Ch) /\ Lower(k) = k
                BY <2>2 DEF IsKey
            <4> QED BY <2>2, <4>1, KeyFollows
        <3>2. /\ k \in DOMAIN env <=> \E v \in DOMAIN given : Reads(Prefix(args), v) /\ KeyOf(Prefix(args), v) = k
              /\ k \in DOMAIN env => \E v \in DOMAIN given : Reads(Prefix(args), v) /\ KeyOf(Prefix(args), v) = k /\ env[k] = given[v]
            BY EnvironmentOf
        <3> HIDE DEF env
        <3> QED BY <3>1, <3>2
    <2>5. \A i \in 1 .. f : k \in DOMAIN File(i) <=> i \in On(k)
        BY <2>1
    <2>6. /\ k \in DOMAIN config <=> \E i \in 1 .. n : k \in DOMAIN sources[i]
          /\ \A i \in 1 .. n : k \in DOMAIN sources[i] /\ (\A j \in 1 .. n : k \in DOMAIN sources[j] => j <= i) => config[k] = sources[i][k]
        <3> HIDE DEF sources, f, o
        <3>1. n \in Nat
            BY <2>1
        <3> HIDE DEF n
        <3>2. MergedAs(sources, n, k)
            BY <2>1, <3>1, MergedIs
        <3> QED BY <3>2 DEF MergedAs, config
    <2>7. Set(k) \subseteq 1 .. o /\ On(k) \subseteq 1 .. f
        BY <2>1
    <2> HIDE DEF sources, config, n, f, o, File, env, Set, In, On, raws
    <2>8. \A j \in 1 .. n : j \in 1 .. f \/ j = f + 1 \/ \E i \in 1 .. o : j = f + 1 + i
        <3>1. Placed(f, o)
            BY <2>1, Places
        <3> QED BY <3>1 DEF Placed, n
    <2>9. f + 1 \in 1 .. n /\ (\A i \in 1 .. f : i \in 1 .. n /\ i <= f + 1) /\ \A i \in 1 .. o : f + 1 + i \in 1 .. n /\ f + 1 <= f + 1 + i
        <3>1. Placed(f, o)
            BY <2>1, Places
        <3> QED BY <3>1 DEF Placed, n
    <2>10. \A i \in Set(k) : (\A j \in Set(k) : j <= i) => config[k] = SubSeq(raws[i], Len(k) + 2, Len(raws[i]))
        <3> SUFFICES ASSUME NEW i \in Set(k), \A j \in Set(k) : j <= i PROVE config[k] = SubSeq(raws[i], Len(k) + 2, Len(raws[i]))
            OBVIOUS
        <3>1. i \in 1 .. o /\ k \in DOMAIN sources[f + 1 + i] /\ sources[f + 1 + i] = Written(args)[i]
            BY <2>1, <2>3, <2>7
        <3>2. ASSUME NEW j \in 1 .. n, k \in DOMAIN sources[j] PROVE j <= f + 1 + i
            <4>1. CASE j \in 1 .. f \/ j = f + 1
                BY <2>1, <3>1, <4>1
            <4>2. ASSUME NEW h \in 1 .. o, j = f + 1 + h PROVE j <= f + 1 + i
                <5>1. h <= i
                    BY <2>1, <2>3, <3>2, <4>2
                <5> QED BY <2>1, <3>1, <4>2, <5>1
            <4> QED BY <2>8, <4>1, <4>2
        <3>3. config[k] = sources[f + 1 + i][k]
            BY <2>6, <2>9, <3>1, <3>2
        <3> QED BY <2>3, <3>1, <3>3
    <2>11. ASSUME Set(k) = {}, NEW j \in 1 .. n, k \in DOMAIN sources[j] PROVE j <= f + 1 /\ (j = f + 1 \/ j \in 1 .. f)
        <3>1. ASSUME NEW h \in 1 .. o, j = f + 1 + h PROVE FALSE
            BY <2>1, <2>3, <2>11, <3>1
        <3>2. j \in 1 .. f \/ j = f + 1
            BY <2>8, <3>1
        <3>3. \A i \in 1 .. f : i <= f + 1
            BY <2>9
        <3>4. f + 1 <= f + 1
            BY <2>1
        <3> QED BY <3>2, <3>3, <3>4
    <2>12. Set(k) = {} /\ In(k) # {} => \E v \in In(k) : config[k] = given[v]
        <3> SUFFICES ASSUME Set(k) = {}, In(k) # {} PROVE \E v \in In(k) : config[k] = given[v]
            OBVIOUS
        <3>1. k \in DOMAIN sources[f + 1]
            BY <2>1, <2>4
        <3>2. config[k] = env[k]
            BY <2>1, <2>6, <2>9, <2>11, <3>1
        <3> QED BY <2>1, <2>4, <3>1, <3>2
    <2>13. Set(k) = {} /\ In(k) = {} => \A i \in On(k) : (\A j \in On(k) : j <= i) => config[k] = File(i)[k]
        <3> SUFFICES ASSUME Set(k) = {}, In(k) = {}, NEW i \in On(k), \A j \in On(k) : j <= i PROVE config[k] = File(i)[k]
            OBVIOUS
        <3>1. i \in 1 .. f /\ sources[i] = File(i) /\ k \in DOMAIN sources[i]
            BY <2>1, <2>5, <2>7
        <3>2. ASSUME NEW j \in 1 .. n, k \in DOMAIN sources[j] PROVE j <= i
            <4>1. j # f + 1
                BY <2>1, <2>4, <3>2
            <4>2. j \in 1 .. f
                BY <2>11, <3>2, <4>1
            <4> QED BY <2>1, <2>5, <3>2, <4>2
        <3> QED BY <2>6, <2>9, <3>1, <3>2
    <2>14. k \in DOMAIN config <=> Set(k) # {} \/ In(k) # {} \/ On(k) # {}
        <3>1. ASSUME k \in DOMAIN config PROVE Set(k) # {} \/ In(k) # {} \/ On(k) # {}
            <4>1. PICK j \in 1 .. n : k \in DOMAIN sources[j]
                BY <2>6, <3>1
            <4>2. CASE Set(k) = {}
                BY <2>1, <2>4, <2>5, <2>11, <4>1, <4>2
            <4> QED BY <4>2
        <3>2. ASSUME NEW i \in Set(k) PROVE k \in DOMAIN config
            BY <2>1, <2>3, <2>6, <2>7, <2>9
        <3>3. In(k) # {} => k \in DOMAIN config
            BY <2>1, <2>4, <2>6, <2>9
        <3>4. ASSUME NEW i \in On(k) PROVE k \in DOMAIN config
            BY <2>1, <2>5, <2>6, <2>7, <2>9
        <3> QED BY <3>1, <3>2, <3>3, <3>4
    <2>15. k \in DOMAIN registry => \/ k \in DOMAIN config /\ registry[k] = config[k]
                                    \/ Set(k) = {} /\ In(k) = {} /\ On(k) = {} /\ registry[k] = DefaultRegistry[k]
        <3>1. k \in DOMAIN registry => registry[k] = IF k \in DOMAIN config THEN config[k] ELSE DefaultRegistry[k]
            BY DEF RegistryConfig
        <3> HIDE DEF registry
        <3> QED BY <2>14, <3>1
    <2> HIDE DEF registry
    <2> QED BY <2>10, <2>12, <2>13, <2>15 DEF raws, File
<1>2. ASSUME NEW loaded \in LoadConfig(args, given, disk)
      PROVE  loaded = config /\ \A i \in DOMAIN raws : ParseOverride(raws[i]) # {}
    BY DEF LoadConfig
<1>3. ASSUME NEW loaded \in LoadConfig(args, given, disk)
      PROVE  \A k \in KnownKeys : Right(k)
    BY <1>1, <1>2
<1>4. SettingsWin(args, given, disk) <=> \A loaded \in LoadConfig(args, given, disk) :
          \A k \in KnownKeys :
              /\ \A i \in Set(k) : (\A j \in Set(k) : j <= i) => loaded[k] = SubSeq(args.overrides[i], Len(k) + 2, Len(args.overrides[i]))
              /\ Set(k) = {} /\ In(k) # {} => \E v \in In(k) : loaded[k] = given[v]
              /\ Set(k) = {} /\ In(k) = {} => \A i \in On(k) : (\A j \in On(k) : j <= i) => loaded[k] = disk[Files(args, given)[i]][k]
              /\ k \in DOMAIN RegistryConfig(loaded) =>
                     \/ k \in DOMAIN loaded /\ RegistryConfig(loaded)[k] = loaded[k]
                     \/ Set(k) = {} /\ In(k) = {} /\ On(k) = {} /\ RegistryConfig(loaded)[k] = DefaultRegistry[k]
    BY Zenon DEF SettingsWin
<1> HIDE DEF config, Set, In, On
<1> QED BY <1>2, <1>3, <1>4, Zenon DEF registry, Right

-----------------------------------------------------------------------------
(* Logging.                                                                 *)

\* A prefix and a suffix, character by character.
LEMMA FrontIs ==
    ASSUME NEW S, NEW s \in Seq(S), NEW t \in Seq(S)
    PROVE  IsPrefix(s, t) <=> Len(s) <= Len(t) /\ \A i \in 1 .. Len(s) : s[i] = t[i]
<1> DEFINE front == SubSeq(s, 1, Len(s))
           part == SubSeq(t, 1, Len(s))
<1>1. Len(s) \in Nat /\ Len(t) \in Nat /\ (\A i \in 1 .. Len(s) : s[i] \in S) /\ \A i \in 1 .. Len(t) : t[i] \in S
    BY LenProperties, ElementOfSeq
<1>2. CASE Len(s) <= Len(t)
    <2>1. /\ front \in Seq(S) /\ Len(front) = (IF 1 <= Len(s) THEN Len(s) - 1 + 1 ELSE 0)
          /\ \A i \in 1 .. Len(s) - 1 + 1 : front[i] = s[1 + i - 1]
        BY <1>1, SubSeqProperties
    <2>2. \A i \in 1 .. Len(s) : t[i] \in S
        BY <1>1, <1>2
    <2>3. /\ part \in Seq(S) /\ Len(part) = (IF 1 <= Len(s) THEN Len(s) - 1 + 1 ELSE 0)
          /\ \A i \in 1 .. Len(s) - 1 + 1 : part[i] = t[1 + i - 1]
        BY <1>1, <2>2, SubSeqProperties
    <2> HIDE DEF front, part
    <2>4. Len(front) = Len(s) /\ \A i \in 1 .. Len(s) : front[i] = s[i]
        BY <1>1, <2>1
    <2>5. Len(part) = Len(s) /\ \A i \in 1 .. Len(s) : part[i] = t[i]
        BY <1>1, <2>3
    <2>6. front = part <=> \A i \in 1 .. Len(s) : front[i] = part[i]
        BY <2>1, <2>3, <2>4, <2>5, SeqEqual
    <2> QED BY <1>2, <2>4, <2>5, <2>6 DEF IsPrefix, front, part
<1>3. CASE ~(Len(s) <= Len(t))
    BY <1>3 DEF IsPrefix
<1> QED BY <1>2, <1>3

\* A suffix is compared from the back.
LEMMA BackIs ==
    ASSUME NEW S, NEW s \in Seq(S), NEW t \in Seq(S)
    PROVE  IsSuffix(s, t) <=> Len(s) <= Len(t) /\ \A i \in 1 .. Len(s) : s[Len(s) - i + 1] = t[Len(t) - i + 1]
<1>1. ASSUME NEW u \in Seq(S)
      PROVE  /\ Reverse(u) \in Seq(S) /\ Len(Reverse(u)) = Len(u)
             /\ \A i \in 1 .. Len(u) : Reverse(u)[i] = u[Len(u) - i + 1]
    <2>1. Len(u) \in Nat /\ \A i \in 1 .. Len(u) : u[i] \in S
        BY LenProperties, ElementOfSeq
    <2>2. \A i \in 1 .. Len(u) : Len(u) - i + 1 \in 1 .. Len(u)
        BY <2>1
    <2>3. Reverse(u) = [i \in 1 .. Len(u) |-> u[(Len(u) - i) + 1]]
        BY DEF Reverse
    <2>4. Reverse(u) \in [1 .. Len(u) -> S]
        BY <2>1, <2>2, <2>3
    <2>5. Reverse(u) \in Seq(S)
        BY <2>1, <2>4, SeqDef
    <2>6. Len(Reverse(u)) = Len(u)
        BY <2>1, <2>4, <2>5, LenProperties
    <2> QED BY <2>3, <2>5, <2>6
<1> DEFINE rs == Reverse(s)
           rt == Reverse(t)
<1>2. /\ rs \in Seq(S) /\ Len(rs) = Len(s)
      /\ \A i \in 1 .. Len(s) : rs[i] = s[Len(s) - i + 1]
    BY <1>1
<1>3. /\ rt \in Seq(S) /\ Len(rt) = Len(t)
      /\ \A i \in 1 .. Len(t) : rt[i] = t[Len(t) - i + 1]
    BY <1>1
<1> HIDE DEF rs, rt
<1>4. IsPrefix(rs, rt) <=> Len(rs) <= Len(rt) /\ \A i \in 1 .. Len(rs) : rs[i] = rt[i]
    BY <1>2, <1>3, FrontIs
<1>5. Len(s) \in Nat /\ Len(t) \in Nat
    BY LenProperties
<1>6. Len(s) <= Len(t) => \A i \in 1 .. Len(s) : i \in 1 .. Len(t)
    BY <1>5
<1>7. IsSuffix(s, t) <=> IsPrefix(rs, rt)
    BY DEF IsSuffix, rs, rt
<1> QED BY <1>2, <1>3, <1>4, <1>6, <1>7

\* Nothing is at the front and at the end of everything.
LEMMA NothingFits ==
    ASSUME NEW S, NEW e \in Seq(S), NEW s \in Seq(S)
    PROVE  Len(e) = 0 => IsPrefix(e, s) /\ IsSuffix(e, s)
<1>1. Len(s) \in Nat
    BY LenProperties
<1>2. IsPrefix(e, s) <=> Len(e) <= Len(s) /\ \A k \in 1 .. Len(e) : e[k] = s[k]
    BY FrontIs
<1>3. IsSuffix(e, s) <=> Len(e) <= Len(s) /\ \A k \in 1 .. Len(e) : e[Len(e) - k + 1] = s[Len(s) - k + 1]
    BY BackIs
<1> QED BY <1>1, <1>2, <1>3

\* A part of a name.
IsPart(S, part) == part \in Seq(S)

\* The parts of a name, together.
Joint(S, a, b) ==
    /\ Dotted(a, b) \in Seq(S)
    /\ a = <<>> => Dotted(a, b) = b
    /\ b = <<>> => Dotted(a, b) = a
    /\ a # <<>> /\ b # <<>> => Dotted(a, b) = (a \o <<".">>) \o b /\ Dotted(a, b) = a \o (<<".">> \o b)
    /\ a # <<>> \/ b # <<>> => Dotted(a, b) # <<>>

LEMMA DottedIs ==
    ASSUME NEW S, "." \in S, NEW a \in Seq(S), NEW b \in Seq(S)
    PROVE  Joint(S, a, b)
<1>1. <<".">> \in Seq(S) /\ Len(<<".">>) = 1
    OBVIOUS
<1> DEFINE stop == <<".">>
<1>2. stop \in Seq(S) /\ Len(stop) = 1
    BY <1>1
<1>3. Dotted(a, b) = IF a = <<>> THEN b ELSE IF b = <<>> THEN a ELSE (a \o stop) \o b
    BY DEF Dotted
<1> HIDE DEF stop
<1>4. (a \o stop) \o b = a \o (stop \o b)
    <2>1. a \in Seq(S) /\ stop \in Seq(S) /\ b \in Seq(S)
        BY <1>2
    <2> QED BY ONLY <2>1, ConcatAssociative
<1>5. a \o stop \in Seq(S) /\ Len(a \o stop) = Len(a) + 1
    <2>1. a \o stop \in Seq(S) /\ Len(a \o stop) = Len(a) + Len(stop)
        BY <1>2, ConcatProperties
    <2> QED BY <1>2, <2>1
<1>6. (a \o stop) \o b \in Seq(S) /\ Len((a \o stop) \o b) = Len(a \o stop) + Len(b)
    BY <1>5, ConcatProperties
<1>7. Len(a) \in Nat /\ Len(b) \in Nat
    BY LenProperties
<1>8. (a \o stop) \o b # <<>>
    <2> DEFINE all == (a \o stop) \o b
    <2>1. Len(all) = Len(a) + 1 + Len(b)
        BY <1>5, <1>6
    <2>2. Len(all) # 0
        BY <1>7, <2>1
    <2> HIDE DEF all
    <2>3. all # <<>>
        BY <2>2, EmptySeq
    <2> QED BY <2>3 DEF all
<1>9. a = <<>> \/ b = <<>> => Dotted(a, b) \in Seq(S) /\ (a # <<>> \/ b # <<>> => Dotted(a, b) # <<>>)
    BY <1>3
<1>10. a # <<>> /\ b # <<>> => Dotted(a, b) \in Seq(S) /\ Dotted(a, b) # <<>>
    BY <1>3, <1>6, <1>8
<1>11. a # <<>> /\ b # <<>> => Dotted(a, b) = (a \o stop) \o b /\ Dotted(a, b) = a \o (stop \o b)
    BY <1>3, <1>4
<1>12. (a = <<>> => Dotted(a, b) = b) /\ (b = <<>> => Dotted(a, b) = a)
    BY <1>3
<1>13. Dotted(a, b) \in Seq(S) /\ (a # <<>> \/ b # <<>> => Dotted(a, b) # <<>>)
    BY <1>9, <1>10
<1> QED BY <1>11, <1>12, <1>13, Zenon DEF Joint, stop

\* A text that is another one, or goes on after it, or before it, with a full stop.
GoesOn(S, text, front) == text = front \/ \E rest \in Seq(S) : text = (front \o <<".">>) \o rest
ComesBefore(S, text, back) == text = back \/ \E rest \in Seq(S) : text = rest \o (<<".">> \o back)

\* Four texts after each other.
LEMMA FourParts ==
    ASSUME NEW S, NEW a \in Seq(S), NEW b \in Seq(S), NEW c \in Seq(S), NEW d \in Seq(S)
    PROVE  ((a \o b) \o c) \o d = a \o ((b \o c) \o d) /\ (b \o c) \o d \in Seq(S)
<1>1. a \in Seq(S) /\ b \in Seq(S) /\ c \in Seq(S)
    OBVIOUS
<1>2. (a \o b) \o c = a \o (b \o c)
    BY ONLY <1>1, ConcatAssociative, SMTT(30)
<1> DEFINE mid == b \o c
<1>3. a \in Seq(S) /\ mid \in Seq(S) /\ d \in Seq(S)
    BY ConcatProperties
<1> HIDE DEF mid
<1>4. (a \o mid) \o d = a \o (mid \o d)
    BY ONLY <1>3, ConcatAssociative, SMTT(30)
<1>5. mid \o d \in Seq(S)
    BY <1>3, ConcatProperties
<1> QED BY <1>2, <1>4, <1>5, Zenon DEF mid

\* A name begins and ends with the parts it is made of.
LEMMA FilesAre ==
    ASSUME NEW S, "." \in S, Dates \subseteq Seq(S), NEW layer, IsPart(S, layer.prefix), IsPart(S, layer.suffix), NEW file \in FileNames(layer)
    PROVE  /\ file \in Seq(S)
           /\ layer.prefix # <<>> => GoesOn(S, file, layer.prefix)
           /\ layer.suffix # <<>> => ComesBefore(S, file, layer.suffix)
<1> DEFINE p == layer.prefix
           s == layer.suffix
<1>1. p \in Seq(S) /\ s \in Seq(S)
    BY DEF IsPart
<1>2. (\E date \in Dates : file = Dotted(Dotted(p, date), s)) \/ file = Dotted(p, s)
    BY DEF FileNames
<1> HIDE DEF p, s
<1>3. ASSUME NEW a \in Seq(S), NEW b \in Seq(S)
      PROVE  /\ Dotted(a, b) \in Seq(S)
             /\ a # <<>> => GoesOn(S, Dotted(a, b), a)
             /\ b # <<>> => ComesBefore(S, Dotted(a, b), b)
    <2>0. Joint(S, a, b)
        BY DottedIs
    <2>1. Dotted(a, b) \in Seq(S)
        BY <2>0, Zenon DEF Joint
    <2>2. a # <<>> => GoesOn(S, Dotted(a, b), a)
        BY <2>0, Zenon DEF Joint, GoesOn
    <2>3. b # <<>> => ComesBefore(S, Dotted(a, b), b)
        BY <2>0, Zenon DEF Joint, ComesBefore
    <2> QED BY <2>1, <2>2, <2>3
<1>4. ASSUME NEW date \in Seq(S), file = Dotted(Dotted(p, date), s)
      PROVE  /\ file \in Seq(S)
             /\ p # <<>> => GoesOn(S, file, p)
             /\ s # <<>> => ComesBefore(S, file, s)
    <2> DEFINE front == Dotted(p, date)
    <2>0. Joint(S, p, date)
        BY <1>1, DottedIs
    <2>1. front \in Seq(S) /\ (p # <<>> => GoesOn(S, front, p) /\ front # <<>>)
        <3>1. p # <<>> => front # <<>>
            BY <2>0, Zenon DEF Joint
        <3> QED BY <1>1, <1>3, <3>1
    <2>2. file = Dotted(front, s)
        BY <1>4
    <2> HIDE DEF front
    <2>3. file \in Seq(S) /\ (front # <<>> => GoesOn(S, file, front)) /\ (s # <<>> => ComesBefore(S, file, s))
        BY <1>1, <1>3, <2>1, <2>2
    <2>4. ASSUME p # <<>> PROVE GoesOn(S, file, p)
        <3> DEFINE stop == <<".">>
        <3>1. stop \in Seq(S)
            OBVIOUS
        <3>2. (front = p \/ \E rest \in Seq(S) : front = (p \o stop) \o rest) /\ (file = front \/ \E rest \in Seq(S) : file = (front \o stop) \o rest)
            BY <2>1, <2>3, <2>4 DEF GoesOn
        <3> HIDE DEF stop
        <3>3. p \o stop \in Seq(S)
            BY <1>1, <3>1, ConcatProperties
        <3> DEFINE pp == p \o stop
        <3>4. pp \in Seq(S)
            BY <3>3
        <3>5. (front = p \/ \E rest \in Seq(S) : front = pp \o rest) /\ (file = front \/ \E rest \in Seq(S) : file = (front \o stop) \o rest)
            BY <3>2
        <3>6. ASSUME NEW r1 \in Seq(S), NEW r2 \in Seq(S), front = pp \o r1, file = (front \o stop) \o r2
              PROVE  file = pp \o ((r1 \o stop) \o r2) /\ (r1 \o stop) \o r2 \in Seq(S)
            <4>1. pp \in Seq(S) /\ stop \in Seq(S)
                BY <3>1, <3>4
            <4> HIDE DEF pp
            <4>2. ((pp \o r1) \o stop) \o r2 = pp \o ((r1 \o stop) \o r2) /\ (r1 \o stop) \o r2 \in Seq(S)
                BY <4>1, FourParts, Zenon
            <4>3. file = ((pp \o r1) \o stop) \o r2
                BY <3>6
            <4> QED BY <4>2, <4>3, Zenon
        <3>7. file = p \/ \E rest \in Seq(S) : file = pp \o rest
            <4> HIDE DEF pp
            <4>1. CASE front = p
                BY <3>5, <4>1 DEF pp
            <4>2. CASE file = front
                BY <3>5, <4>2
            <4>3. CASE front # p /\ file # front
                <5>1. PICK r1 \in Seq(S) : front = pp \o r1
                    BY <3>5, <4>3
                <5>2. PICK r2 \in Seq(S) : file = (front \o stop) \o r2
                    BY <3>5, <4>3
                <5> QED BY <3>6, <5>1, <5>2
            <4> QED BY <4>1, <4>2, <4>3
        <3> QED BY <3>7 DEF GoesOn, stop
    <2> QED BY <2>3, <2>4
<1>5. CASE file = Dotted(p, s)
    BY <1>1, <1>3, <1>5 DEF p, s
<1>6. CASE \E date \in Dates : file = Dotted(Dotted(p, date), s)
    BY <1>4, <1>6 DEF p, s
<1> QED BY <1>2, <1>5, <1>6

\* What begins a name, but not its prefix, goes past that.
LEMMA PastFront ==
    ASSUME NEW S, "." \in S, NEW p \in Seq(S), NEW q \in Seq(S), NEW file \in Seq(S), q # <<>> => GoesOn(S, file, q),
           IsPrefix(p, file), ~IsPrefix(p, q)
    PROVE  Past(p, q)
<1>1. CASE q = <<>>
    <2>1. <<>> \in Seq(S) /\ Len(<<>>) = 0
        BY EmptySeq
    <2>2. IsPrefix(<<>>, q)
        BY <2>1, NothingFits
    <2> QED BY <1>1, <2>2 DEF Past
<1>2. CASE q # <<>> /\ file = q
    BY <1>2
<1>3. ASSUME q # <<>>, NEW rest \in Seq(S), file = (q \o <<".">>) \o rest PROVE IsPrefix(q \o <<".">>, p)
    <2> DEFINE stop == <<".">>
               pre == q \o stop
    <2>1. stop \in Seq(S) /\ Len(stop) = 1 /\ stop[1] = "."
        OBVIOUS
    <2>2. file = pre \o rest
        BY <1>3
    <2> HIDE DEF stop
    <2>0. /\ pre \in Seq(S) /\ Len(pre) = Len(q) + Len(stop)
          /\ \A i \in 1 .. Len(q) + Len(stop) : pre[i] = IF i <= Len(q) THEN q[i] ELSE stop[i - Len(q)]
        BY <2>1, ConcatProperties
    <2> HIDE DEF pre
    <2>3. /\ pre \in Seq(S) /\ Len(pre) = Len(q) + 1
          /\ \A i \in 1 .. Len(q) + 1 : pre[i] = IF i <= Len(q) THEN q[i] ELSE stop[i - Len(q)]
        BY <2>0, <2>1
    <2> HIDE DEF pre
    <2>4. /\ Len(file) = Len(pre) + Len(rest)
          /\ \A i \in 1 .. Len(pre) + Len(rest) : file[i] = IF i <= Len(pre) THEN pre[i] ELSE rest[i - Len(pre)]
        BY <2>2, <2>3, ConcatProperties
    <2>5. Len(p) <= Len(file) /\ \A i \in 1 .. Len(p) : p[i] = file[i]
        BY FrontIs
    <2>6. ~(Len(p) <= Len(q) /\ \A i \in 1 .. Len(p) : p[i] = q[i])
        BY FrontIs
    <2>7. Len(p) \in Nat /\ Len(q) \in Nat /\ Len(rest) \in Nat
        BY LenProperties
    <2>8. Len(p) > Len(q)
        <3> SUFFICES ASSUME Len(p) <= Len(q) PROVE FALSE
            BY <2>7
        <3>1. ASSUME NEW i \in 1 .. Len(p) PROVE p[i] = q[i]
            <4>1. i \in 1 .. Len(q) + 1 /\ i <= Len(q) /\ i <= Len(pre) /\ i \in 1 .. Len(pre) + Len(rest)
                BY <2>3, <2>7
            <4> QED BY <2>3, <2>4, <2>5, <4>1
        <3> QED BY <2>6, <3>1
    <2>9. Len(pre) <= Len(p)
        BY <2>3, <2>7, <2>8
    <2>10. ASSUME NEW i \in 1 .. Len(pre) PROVE pre[i] = p[i]
        <3>1. i \in 1 .. Len(p) /\ i \in 1 .. Len(pre) + Len(rest) /\ i <= Len(pre)
            BY <2>3, <2>7, <2>9
        <3> QED BY <2>4, <2>5, <3>1
    <2>11. IsPrefix(pre, p)
        BY <2>3, <2>9, <2>10, FrontIs
    <2> QED BY <2>11 DEF pre, stop
<1>4. q # <<>> /\ file # q => \E rest \in Seq(S) : file = (q \o <<".">>) \o rest
    BY DEF GoesOn
<1>5. CASE q # <<>> /\ file # q
    <2>1. PICK rest \in Seq(S) : file = (q \o <<".">>) \o rest
        BY <1>4, <1>5
    <2>2. IsPrefix(q \o <<".">>, p)
        BY <1>3, <1>5, <2>1
    <2> QED BY <1>5, <2>2 DEF Past
<1> QED BY <1>1, <1>2, <1>5

\* And what ends one, but not its suffix.
LEMMA PastEnd ==
    ASSUME NEW S, "." \in S, NEW p \in Seq(S), NEW q \in Seq(S), NEW file \in Seq(S), q # <<>> => ComesBefore(S, file, q),
           IsSuffix(p, file), ~IsSuffix(p, q)
    PROVE  PastBack(p, q)
<1>1. CASE q = <<>>
    <2>1. <<>> \in Seq(S) /\ Len(<<>>) = 0
        BY EmptySeq
    <2>2. IsSuffix(<<>>, q)
        BY <2>1, NothingFits
    <2> QED BY <1>1, <2>2 DEF PastBack
<1>2. CASE q # <<>> /\ file = q
    BY <1>2
<1>3. ASSUME q # <<>>, NEW rest \in Seq(S), file = rest \o (<<".">> \o q) PROVE IsSuffix(<<".">> \o q, p)
    <2> DEFINE stop == <<".">>
               back == stop \o q
    <2>1. stop \in Seq(S) /\ Len(stop) = 1 /\ stop[1] = "."
        OBVIOUS
    <2>2. file = rest \o back
        BY <1>3
    <2> HIDE DEF stop
    <2>0. /\ back \in Seq(S) /\ Len(back) = Len(stop) + Len(q)
          /\ \A i \in 1 .. Len(stop) + Len(q) : back[i] = IF i <= Len(stop) THEN stop[i] ELSE q[i - Len(stop)]
        BY <2>1, ConcatProperties
    <2> HIDE DEF back
    <2>3. /\ back \in Seq(S) /\ Len(back) = 1 + Len(q)
          /\ \A i \in 1 .. 1 + Len(q) : back[i] = IF i <= 1 THEN stop[i] ELSE q[i - 1]
        BY <2>0, <2>1
    <2> HIDE DEF back
    <2>4. /\ Len(file) = Len(rest) + Len(back)
          /\ \A i \in 1 .. Len(rest) + Len(back) : file[i] = IF i <= Len(rest) THEN rest[i] ELSE back[i - Len(rest)]
        BY <2>2, <2>3, ConcatProperties
    <2>5. Len(p) <= Len(file) /\ \A i \in 1 .. Len(p) : p[Len(p) - i + 1] = file[Len(file) - i + 1]
        BY BackIs
    <2>6. ~(Len(p) <= Len(q) /\ \A i \in 1 .. Len(p) : p[Len(p) - i + 1] = q[Len(q) - i + 1])
        BY BackIs
    <2>7. Len(p) \in Nat /\ Len(q) \in Nat /\ Len(rest) \in Nat
        BY LenProperties
    <2>8. Len(p) > Len(q)
        <3> SUFFICES ASSUME Len(p) <= Len(q) PROVE FALSE
            BY <2>7
        <3>1. ASSUME NEW i \in 1 .. Len(p) PROVE p[Len(p) - i + 1] = q[Len(q) - i + 1]
            <4> DEFINE k == Len(file) - i + 1
                       m == k - Len(rest)
            <4>1. k \in 1 .. Len(rest) + Len(back) /\ ~(k <= Len(rest)) /\ m = Len(q) - i + 2
                BY <2>3, <2>4, <2>7
            <4>2. m \in 1 .. 1 + Len(q) /\ ~(m <= 1) /\ m - 1 = Len(q) - i + 1
                BY <2>7, <4>1
            <4>3. file[k] = back[m]
                BY <2>4, <4>1
            <4>4. back[m] = q[m - 1]
                BY <2>3, <4>2
            <4>5. p[Len(p) - i + 1] = file[k]
                BY <2>5
            <4> HIDE DEF k, m
            <4> QED BY <4>2, <4>3, <4>4, <4>5
        <3> QED BY <2>6, <3>1
    <2>9. Len(back) <= Len(p)
        BY <2>3, <2>7, <2>8
    <2>10. ASSUME NEW i \in 1 .. Len(back) PROVE back[Len(back) - i + 1] = p[Len(p) - i + 1]
        <3> DEFINE k == Len(file) - i + 1
        <3>1. i \in 1 .. Len(p) /\ k \in 1 .. Len(rest) + Len(back) /\ ~(k <= Len(rest)) /\ k - Len(rest) = Len(back) - i + 1
            BY <2>3, <2>4, <2>7, <2>9
        <3>2. p[Len(p) - i + 1] = file[k]
            BY <2>5, <3>1
        <3>3. file[k] = back[k - Len(rest)]
            BY <2>4, <3>1
        <3> HIDE DEF k
        <3> QED BY <3>1, <3>2, <3>3
    <2>11. IsSuffix(back, p)
        BY <2>3, <2>9, <2>10, BackIs
    <2> QED BY <2>11 DEF back, stop
<1>4. q # <<>> /\ file # q => \E rest \in Seq(S) : file = rest \o (<<".">> \o q)
    BY DEF ComesBefore
<1>5. CASE q # <<>> /\ file # q
    <2>1. PICK rest \in Seq(S) : file = rest \o (<<".">> \o q)
        BY <1>4, <1>5
    <2>2. IsSuffix(<<".">> \o q, p)
        BY <1>3, <1>5, <2>1
    <2> QED BY <1>5, <2>2 DEF PastBack
<1> QED BY <1>1, <1>2, <1>5

\* A name with a full stop between two parts is no date.
LEMMA StopsAreNoDates ==
    ASSUME NEW S, "." \in S, Dates \subseteq Seq(S), NEW a \in Seq(S), NEW b \in Seq(S), a # <<>>, b # <<>>
    PROVE  Dotted(a, b) \notin Dates
<1> DEFINE stop == <<".">>
           pre == a \o stop
           name == pre \o b
<1>1. stop \in Seq(S) /\ Len(stop) = 1 /\ stop[1] = "."
    OBVIOUS
<1>2. Dotted(a, b) = name
    <2>1. Joint(S, a, b)
        BY DottedIs
    <2> QED BY <2>1, Zenon DEF Joint
<1> HIDE DEF stop
<1>0. /\ pre \in Seq(S) /\ Len(pre) = Len(a) + Len(stop)
      /\ \A i \in 1 .. Len(a) + Len(stop) : pre[i] = IF i <= Len(a) THEN a[i] ELSE stop[i - Len(a)]
    BY <1>1, ConcatProperties
<1> HIDE DEF pre
<1>3. /\ pre \in Seq(S) /\ Len(pre) = Len(a) + 1
      /\ \A i \in 1 .. Len(a) + 1 : pre[i] = IF i <= Len(a) THEN a[i] ELSE stop[i - Len(a)]
    BY <1>0, <1>1
<1>31. pre \in Seq(S)
    BY <1>0
<1>4. /\ name \in Seq(S) /\ Len(name) = Len(pre) + Len(b)
      /\ \A i \in 1 .. Len(pre) + Len(b) : name[i] = IF i <= Len(pre) THEN pre[i] ELSE b[i - Len(pre)]
    BY <1>31, ConcatProperties
<1> HIDE DEF name
<1>5. Len(a) \in Nat /\ Len(b) \in Nat
    BY LenProperties
<1> DEFINE k == Len(a) + 1
<1>6. k \in 1 .. Len(a) + 1 /\ ~(k <= Len(a)) /\ k - Len(a) = 1 /\ k \in 1 .. Len(pre) + Len(b) /\ k <= Len(pre)
    BY <1>3, <1>5
<1>7. name[k] = pre[k] /\ pre[k] = stop[k - Len(a)]
    BY <1>3, <1>4, <1>6
<1>8. k \in 1 .. Len(name)
    BY <1>3, <1>4, <1>5
<1> HIDE DEF k
<1>9. name[k] = "."
    BY <1>1, <1>6, <1>7
<1>10. DOMAIN name = 1 .. Len(name)
    BY <1>4, LenProperties
<1>11. ASSUME name \in Dates PROVE FALSE
    BY <1>8, <1>9, <1>10, <1>11, DatesAssumption
<1> QED BY <1>2, <1>11

\* What one layer's clean-up takes of another's, if their names are said to be apart, are names
\* that are taken wrongly.
LEMMA FilesApart ==
    ASSUME NEW S, "." \in S, Dates \subseteq Seq(S), NEW a, NEW b,
           IsPart(S, a.prefix), IsPart(S, a.suffix), IsPart(S, b.prefix), IsPart(S, b.suffix), ~NameMatches(a, b),
           NEW file \in FileNames(b), CleansUp(a, file)
    PROVE  \/ Past(a.prefix, b.prefix) \/ PastBack(a.suffix, b.suffix)
           \/ a.prefix = <<>> /\ a.suffix = <<>> /\ b.prefix \o b.suffix \in Dates
<1> DEFINE p == b.prefix
           s == b.suffix
<1>1. p \in Seq(S) /\ s \in Seq(S) /\ a.prefix \in Seq(S) /\ a.suffix \in Seq(S)
    BY DEF IsPart
<1>2. file \in Seq(S) /\ (p # <<>> => GoesOn(S, file, p)) /\ (s # <<>> => ComesBefore(S, file, s))
    BY FilesAre
<1>3. CASE a.prefix = <<>> /\ a.suffix = <<>>
    <2>1. file \in Dates /\ ~(p = <<>> /\ s = <<>>)
        BY <1>3 DEF CleansUp, NameMatches
    <2>2. (\E date \in Dates : file = Dotted(Dotted(p, date), s)) \/ file = Dotted(p, s)
        BY DEF FileNames
    <2> HIDE DEF p, s
    <2>3. ASSUME NEW date \in Dates, file = Dotted(Dotted(p, date), s) PROVE FALSE
        <3>1. date \in Seq(S) /\ date # <<>>
            BY DatesAssumption
        <3>0. Joint(S, p, date) /\ Joint(S, p, s)
            BY <1>1, <3>1, DottedIs
        <3>2. Dotted(p, date) \in Seq(S) /\ Dotted(p, date) # <<>>
            BY <3>0, <3>1, Zenon DEF Joint
        <3>3. CASE s # <<>>
            BY <1>1, <2>1, <2>3, <3>2, <3>3, StopsAreNoDates
        <3>4. CASE s = <<>>
            <4>0. Joint(S, Dotted(p, date), s)
                BY <1>1, <3>2, DottedIs
            <4>1. p # <<>> /\ file = Dotted(p, date)
                BY <2>1, <2>3, <3>4, <4>0, Zenon DEF Joint
            <4> QED BY <1>1, <2>1, <3>1, <4>1, StopsAreNoDates
        <3> QED BY <3>3, <3>4
    <2>4. CASE file = Dotted(p, s)
        <3>1. p = <<>> \/ s = <<>>
            BY <1>1, <2>1, <2>4, StopsAreNoDates
        <3>0. Joint(S, p, s)
            BY <1>1, DottedIs
        <3>5. <<>> \o s = s /\ p \o <<>> = p
            BY <1>1, ConcatEmptySeq
        <3>2. p = <<>> => file = s /\ p \o s = s
            BY <2>4, <3>0, <3>5, Zenon DEF Joint
        <3>3. s = <<>> => file = p /\ p \o s = p
            BY <2>4, <3>0, <3>5, Zenon DEF Joint
        <3>4. p \o s \in Dates
            BY <2>1, <3>1, <3>2, <3>3
        <3> QED BY <1>3, <3>4 DEF p, s
    <2> QED BY <2>2, <2>3, <2>4
<1>4. CASE ~(a.prefix = <<>> /\ a.suffix = <<>>)
    <2>1. IsPrefix(a.prefix, file) /\ IsSuffix(a.suffix, file)
        BY <1>4 DEF CleansUp
    <2>2. ~IsPrefix(a.prefix, p) \/ ~IsSuffix(a.suffix, s)
        BY <1>4 DEF NameMatches
    <2> HIDE DEF p, s
    <2>3. ~IsPrefix(a.prefix, p) => Past(a.prefix, p)
        BY <1>1, <1>2, <2>1, PastFront
    <2>4. ~IsSuffix(a.suffix, s) => PastBack(a.suffix, s)
        BY <1>1, <1>2, <2>1, PastEnd
    <2> QED BY <2>2, <2>3, <2>4 DEF p, s
<1> QED BY <1>3, <1>4

\* What goes on after a text, or comes before it, begins or ends with it.
LEMMA BeginsAndEnds ==
    ASSUME NEW S, "." \in S, NEW p \in Seq(S), NEW q \in Seq(S), NEW file \in Seq(S)
    PROVE  /\ GoesOn(S, file, q) /\ IsPrefix(p, q) => IsPrefix(p, file)
           /\ ComesBefore(S, file, q) /\ IsSuffix(p, q) => IsSuffix(p, file)
<1> DEFINE stop == <<".">>
<1>1. stop \in Seq(S) /\ Len(stop) = 1
    OBVIOUS
<1>2. Len(p) \in Nat /\ Len(q) \in Nat
    BY LenProperties
<1>3. ASSUME NEW rest \in Seq(S), file = (q \o stop) \o rest, IsPrefix(p, q) PROVE IsPrefix(p, file)
    <2> HIDE DEF stop
    <2> DEFINE more == stop \o rest
    <2>1. more \in Seq(S)
        BY <1>1, ConcatProperties
    <2>2. file = q \o more
        <3>1. q \in Seq(S) /\ stop \in Seq(S) /\ rest \in Seq(S)
            BY <1>1
        <3> HIDE DEF more
        <3>2. (q \o stop) \o rest = q \o (stop \o rest)
            BY ONLY <3>1, ConcatAssociative, SMTT(30)
        <3> QED BY <1>3, <3>2 DEF more
    <2> HIDE DEF more
    <2>3. /\ Len(file) = Len(q) + Len(more) /\ Len(more) \in Nat
          /\ \A i \in 1 .. Len(q) + Len(more) : file[i] = IF i <= Len(q) THEN q[i] ELSE more[i - Len(q)]
        BY <2>1, <2>2, ConcatProperties, LenProperties
    <2>4. Len(p) <= Len(q) /\ \A i \in 1 .. Len(p) : p[i] = q[i]
        BY <1>3, FrontIs
    <2>5. ASSUME NEW i \in 1 .. Len(p) PROVE p[i] = file[i]
        <3>1. i \in 1 .. Len(q) + Len(more) /\ i <= Len(q)
            BY <1>2, <2>3, <2>4
        <3> QED BY <2>3, <2>4, <3>1
    <2>6. Len(p) <= Len(file)
        BY <1>2, <2>3, <2>4
    <2> QED BY <2>5, <2>6, FrontIs
<1>4. ASSUME NEW rest \in Seq(S), file = rest \o (stop \o q), IsSuffix(p, q) PROVE IsSuffix(p, file)
    <2> HIDE DEF stop
    <2> DEFINE more == rest \o stop
    <2>1. more \in Seq(S)
        BY <1>1, ConcatProperties
    <2>2. file = more \o q
        <3>1. rest \in Seq(S) /\ stop \in Seq(S) /\ q \in Seq(S)
            BY <1>1
        <3> HIDE DEF more
        <3>2. (rest \o stop) \o q = rest \o (stop \o q)
            BY ONLY <3>1, ConcatAssociative, SMTT(30)
        <3> QED BY <1>4, <3>2 DEF more
    <2> HIDE DEF more
    <2>3. /\ Len(file) = Len(more) + Len(q) /\ Len(more) \in Nat
          /\ \A i \in 1 .. Len(more) + Len(q) : file[i] = IF i <= Len(more) THEN more[i] ELSE q[i - Len(more)]
        BY <2>1, <2>2, ConcatProperties, LenProperties
    <2>4. Len(p) <= Len(q) /\ \A i \in 1 .. Len(p) : p[Len(p) - i + 1] = q[Len(q) - i + 1]
        BY <1>4, BackIs
    <2>5. ASSUME NEW i \in 1 .. Len(p) PROVE p[Len(p) - i + 1] = file[Len(file) - i + 1]
        <3> DEFINE k == Len(file) - i + 1
        <3>1. k \in 1 .. Len(more) + Len(q) /\ ~(k <= Len(more)) /\ k - Len(more) = Len(q) - i + 1
            BY <1>2, <2>3, <2>4
        <3>2. file[k] = q[k - Len(more)]
            BY <2>3, <3>1
        <3> HIDE DEF k
        <3>3. p[Len(p) - i + 1] = q[k - Len(more)]
            BY <2>4, <3>1
        <3>4. p[Len(p) - i + 1] = file[k]
            BY <3>2, <3>3
        <3> QED BY <3>4 DEF k
    <2>6. Len(p) <= Len(file)
        BY <1>2, <2>3, <2>4
    <2> QED BY <2>5, <2>6, BackIs
<1>5. GoesOn(S, file, q) => file = q \/ \E rest \in Seq(S) : file = (q \o stop) \o rest
    BY DEF GoesOn
<1>6. ComesBefore(S, file, q) => file = q \/ \E rest \in Seq(S) : file = rest \o (stop \o q)
    BY DEF ComesBefore
<1> HIDE DEF stop
<1> QED BY <1>3, <1>4, <1>5, <1>6

\* Of two layers whose names are said to overlap one removes a file of the other's.
LEMMA FilesTogether ==
    ASSUME NEW S, "." \in S, Dates \subseteq Seq(S), NEW a, NEW b,
           IsPart(S, a.prefix), IsPart(S, a.suffix), IsPart(S, b.prefix), IsPart(S, b.suffix), NameMatches(a, b)
    PROVE  \E file \in FileNames(b) : CleansUp(a, file)
<1>1. a.prefix \in Seq(S) /\ a.suffix \in Seq(S) /\ b.prefix \in Seq(S) /\ b.suffix \in Seq(S)
    BY DEF IsPart
<1>2. PICK date \in Dates : date \in Seq(S) /\ date # <<>>
    BY DatesAssumption
<1> DEFINE file == Dotted(Dotted(b.prefix, date), b.suffix)
<1>3. file \in FileNames(b)
    BY DEF FileNames
<1>4. CASE a.prefix = <<>> /\ a.suffix = <<>>
    <2>1. b.prefix = <<>> /\ b.suffix = <<>>
        BY <1>4 DEF NameMatches
    <2>0. Joint(S, b.prefix, date) /\ Joint(S, date, b.suffix)
        BY <1>1, <1>2, DottedIs
    <2>2. Dotted(b.prefix, date) = date
        BY <2>0, <2>1, Zenon DEF Joint
    <2>3. Dotted(date, b.suffix) = date
        BY <2>0, <2>1, Zenon DEF Joint
    <2>4. file = date
        BY <2>2, <2>3
    <2>5. CleansUp(a, file)
        BY <1>2, <1>4, <2>4 DEF CleansUp
    <2> QED BY <1>3, <2>5
<1>5. CASE ~(a.prefix = <<>> /\ a.suffix = <<>>)
    <2>1. IsPrefix(a.prefix, b.prefix) /\ IsSuffix(a.suffix, b.suffix)
        BY <1>5 DEF NameMatches
    <2> HIDE DEF file
    <2>2. file \in Seq(S) /\ (b.prefix # <<>> => GoesOn(S, file, b.prefix)) /\ (b.suffix # <<>> => ComesBefore(S, file, b.suffix))
        BY <1>3, FilesAre
    <2>3. ASSUME NEW t \in Seq(S), IsPrefix(t, <<>>) \/ IsSuffix(t, <<>>) PROVE IsPrefix(t, file) /\ IsSuffix(t, file)
        <3>1. <<>> \in Seq(S) /\ Len(<<>>) = 0
            BY EmptySeq
        <3>2. Len(t) <= 0
            BY <2>3, <3>1, FrontIs, BackIs
        <3>3. Len(t) = 0
            BY <3>2, LenProperties
        <3> QED BY <2>2, <3>3, NothingFits
    <2>4. IsPrefix(a.prefix, file)
        <3>1. CASE b.prefix = <<>>
            BY <1>1, <2>1, <2>3, <3>1
        <3>2. CASE b.prefix # <<>>
            BY <1>1, <2>1, <2>2, <3>2, BeginsAndEnds
        <3> QED BY <3>1, <3>2
    <2>5. IsSuffix(a.suffix, file)
        <3>1. CASE b.suffix = <<>>
            BY <1>1, <2>1, <2>3, <3>1
        <3>2. CASE b.suffix # <<>>
            BY <1>1, <2>1, <2>2, <3>2, BeginsAndEnds
        <3> QED BY <3>1, <3>2
    <2>6. CleansUp(a, file)
        BY <1>5, <2>4, <2>5 DEF CleansUp
    <2> QED BY <1>3, <2>6
<1> QED BY <1>4, <1>5

\* Directories while they are made, and what holds of them: what was there stays, what is noted is
\* new, and everything new lies in or under something noted.
MakeStates(D) == [there : SUBSET Seq(D), created : SUBSET Seq(D), failed : BOOLEAN]
Kept(there, state) ==
    /\ there \subseteq state.there
    /\ \A c \in state.created : c \notin there /\ c # <<>>
    /\ ~state.failed => \A d \in state.there : d \in there \/ \E c \in state.created : IsPrefix(c, d)

\* The directories on the way to one.
LEMMA AncestorsAre ==
    ASSUME NEW D, NEW dir \in Seq(D), NEW d \in Ancestors(dir)
    PROVE  /\ d \in Seq(D) /\ Len(d) \in 1 .. Len(dir) /\ \A i \in 1 .. Len(d) : d[i] = dir[i]
           /\ d # <<>>
<1>1. PICK n \in 1 .. Len(dir) : d = SubSeq(dir, 1, n)
    BY DEF Ancestors
<1>2. Len(dir) \in Nat /\ \A i \in 1 .. Len(dir) : dir[i] \in D
    BY LenProperties, ElementOfSeq
<1>3. \A i \in 1 .. n : dir[i] \in D
    BY <1>1, <1>2
<1>4. n \in Nat /\ n >= 1
    BY <1>1, <1>2
<1>5. /\ SubSeq(dir, 1, n) \in Seq(D) /\ Len(SubSeq(dir, 1, n)) = (IF 1 <= n THEN n - 1 + 1 ELSE 0)
      /\ \A i \in 1 .. n - 1 + 1 : SubSeq(dir, 1, n)[i] = dir[1 + i - 1]
    BY <1>3, <1>4, SubSeqProperties
<1>6. Len(d) = n /\ d \in Seq(D) /\ \A i \in 1 .. n : d[i] = dir[i]
    BY <1>1, <1>4, <1>5
<1>7. d # <<>>
    BY <1>4, <1>6, EmptySeq
<1> QED BY <1>1, <1>6, <1>7

\* Making one directory keeps what was there, and knows what it made.
LEMMA MakeKeeps ==
    ASSUME NEW D, NEW there, NEW state \in MakeStates(D), Kept(there, state), NEW dir \in Seq(D), dir # <<>>
    PROVE  /\ Make(state, dir) \in MakeStates(D) /\ Kept(there, Make(state, dir)) /\ state.there \subseteq Make(state, dir).there
           /\ ~Make(state, dir).failed => ~state.failed /\ dir \in Make(state, dir).there
<1> DEFINE missing == Ancestors(dir) \ state.there
           bad == {d \in missing : d[Len(d)] = BadDir}
           made == {d \in missing : \A b \in bad : Len(d) < Len(b)}
           first == CHOOSE d \in missing : \A e \in missing : Len(d) <= Len(e)
           created == IF bad # {} \/ missing = {} THEN state.created ELSE state.created \union {first}
           next == [there |-> state.there \union made, failed |-> bad # {}, created |-> created]
<1>1. Make(state, dir) = IF state.failed THEN state ELSE next
    BY DEF Make
<1>2. CASE state.failed
    BY <1>1, <1>2
<1>3. CASE ~state.failed
    <2>1. ASSUME NEW d \in missing PROVE d \in Seq(D) /\ Len(d) \in 1 .. Len(dir) /\ (\A i \in 1 .. Len(d) : d[i] = dir[i]) /\ d # <<>>
        BY AncestorsAre
    <2>2. missing # {} => first \in missing /\ \A e \in missing : Len(first) <= Len(e)
        <3> SUFFICES ASSUME NEW x \in missing PROVE \E d \in missing : \A e \in missing : Len(d) <= Len(e)
            OBVIOUS
        <3> DEFINE lengths == {Len(d) : d \in missing}
        <3>0. x \in missing /\ \A d \in missing : Len(d) \in Nat
            BY <2>1
        <3> HIDE DEF missing
        <3>1. lengths \in SUBSET Nat /\ lengths # {}
            BY <3>0
        <3>2. PICK n \in lengths : \A m \in lengths : n <= m
            <4> HIDE DEF lengths
            <4> QED BY <3>1, LeastOf
        <3> QED BY <3>2
    <2>3. ASSUME missing # {}, NEW d \in missing PROVE IsPrefix(first, d)
        <3> HIDE DEF first, missing
        <3>1. first \in Seq(D) /\ Len(first) \in 1 .. Len(dir) /\ (\A i \in 1 .. Len(first) : first[i] = dir[i])
            BY <2>1, <2>2, <2>3
        <3>2. d \in Seq(D) /\ Len(d) \in 1 .. Len(dir) /\ (\A i \in 1 .. Len(d) : d[i] = dir[i])
            BY <2>1, <2>3
        <3>3. Len(first) <= Len(d)
            BY <2>2, <2>3
        <3>4. \A i \in 1 .. Len(first) : first[i] = d[i]
            BY <3>1, <3>2, <3>3
        <3> QED BY <3>1, <3>2, <3>3, <3>4, FrontIs
    <2>4. dir \in Ancestors(dir)
        <3>1. Len(dir) \in Nat /\ Len(dir) # 0
            BY EmptySeq, LenProperties
        <3>2. SubSeq(dir, 1, Len(dir)) = dir
            BY <3>1, SubSeqFull
        <3>3. Len(dir) \in 1 .. Len(dir)
            BY <3>1
        <3> QED BY <3>2, <3>3 DEF Ancestors
    <2>5. state.there \in SUBSET Seq(D) /\ state.created \in SUBSET Seq(D)
        BY DEF MakeStates
    <2>6. made \subseteq missing /\ missing \cap state.there = {} /\ (bad = {} => made = missing)
        OBVIOUS
    <2>7. dir \in state.there \/ dir \in missing
        BY <2>4
    <2> HIDE DEF missing, bad, made, first
    <2>8. created \in SUBSET Seq(D)
        BY <2>1, <2>2, <2>5
    <2>9. next \in MakeStates(D)
        <3>1. state.there \union made \in SUBSET Seq(D)
            BY <2>1, <2>5, <2>6
        <3> HIDE DEF created
        <3> QED BY <2>8, <3>1 DEF MakeStates
    <2>10. /\ next.there = state.there \union made /\ next.created = created /\ next.failed = (bad # {})
        OBVIOUS
    <2>11. /\ there \subseteq state.there
           /\ \A c \in state.created : c \notin there /\ c # <<>>
           /\ \A d \in state.there : d \in there \/ \E c \in state.created : IsPrefix(c, d)
        BY <1>3 DEF Kept
    <2>12. \A c \in created : c \notin there /\ c # <<>>
        BY <2>1, <2>2, <2>6, <2>11
    <2>13. ASSUME bad = {}, NEW d \in state.there \union made PROVE d \in there \/ \E c \in created : IsPrefix(c, d)
        <3>1. CASE d \in state.there
            <4>1. state.created \subseteq created
                OBVIOUS
            <4> HIDE DEF created
            <4> QED BY <2>11, <3>1, <4>1
        <3>2. CASE d \in made
            <4>1. d \in missing /\ missing # {}
                BY <2>6, <3>2
            <4>2. first \in created /\ IsPrefix(first, d)
                BY <2>3, <2>13, <4>1
            <4> QED BY <4>2
        <3> QED BY <2>13, <3>1, <3>2
    <2> HIDE DEF created, next
    <2>14. Kept(there, next)
        BY <2>10, <2>11, <2>12, <2>13 DEF Kept
    <2>15. ~next.failed => dir \in next.there
        BY <2>6, <2>7, <2>10
    <2>16. Make(state, dir) = next
        BY <1>1, <1>3
    <2> QED BY <1>3, <2>9, <2>10, <2>14, <2>15, <2>16
<1> QED BY <1>2, <1>3

\* A configuration of layers with parts of names.
Layered(D, S, cfg) ==
    /\ DOMAIN cfg.layers = 1 .. Len(cfg.layers) /\ Len(cfg.layers) \in Nat
    /\ "logs" \in D /\ cfg.root \in Seq(D)
    /\ \A i \in Enabled(cfg) : cfg.layers[i].dir \in Seq(D) /\ IsPart(S, cfg.layers[i].prefix) /\ IsPart(S, cfg.layers[i].suffix)

\* What holds when the directories of all layers have been made.
AllMade(D, there, cfg, state) ==
    /\ state \in MakeStates(D) /\ Kept(there, state)
    /\ ~state.failed => \A i \in Enabled(cfg) : LayerDir(cfg, i) \in state.there

\* So does making those of all layers, in their order.
LEMMA MakeAllKeeps ==
    ASSUME NEW D, NEW S, NEW there \in SUBSET Seq(D), NEW cfg, Layered(D, S, cfg)
    PROVE  AllMade(D, there, cfg, MakeAll(there, cfg))
<1> DEFINE n == Len(cfg.layers)
           states == MakeStates(D)
           start == [there |-> there, created |-> {}, failed |-> FALSE]
           next == [k \in 1 .. n |-> [state \in states |-> IF k \in Enabled(cfg) THEN Make(state, LayerDir(cfg, k)) ELSE state]]
           good == {state \in states : Kept(there, state)}
           step == [k \in 1 .. n |-> [state \in good |-> IF k \in Enabled(cfg) THEN Make(state, LayerDir(cfg, k)) ELSE state]]
           Def(f) == f = [k \in 0 .. n |-> IF k = 0 THEN start
                                           ELSE IF k \in Enabled(cfg) THEN Make(f[k - 1], LayerDir(cfg, k)) ELSE f[k - 1]]
           after == CHOOSE f : Def(f)
<1>1. n \in Nat /\ Enabled(cfg) \subseteq 1 .. n
    BY DEF Layered, Enabled
<1>2. ASSUME NEW i \in Enabled(cfg) PROVE LayerDir(cfg, i) \in Seq(D) /\ LayerDir(cfg, i) # <<>>
    <2>1. Root(cfg) \in Seq(D) /\ Root(cfg) # <<>> /\ cfg.layers[i].dir \in Seq(D)
        <3>1. <<"logs">> \in Seq({"logs"}) /\ Len(<<"logs">>) = 1 /\ {"logs"} \subseteq D
            BY DEF Layered
        <3>2. <<"logs">> \in Seq(D)
            BY <3>1, WiderSeq
        <3>3. <<"logs">> # <<>>
            OBVIOUS
        <3> QED BY <3>2, <3>3 DEF Layered, Root
    <2> DEFINE r == Root(cfg)
               d == cfg.layers[i].dir
    <2> HIDE DEF r, d
    <2>2. r \in Seq(D) /\ r # <<>> /\ d \in Seq(D)
        BY <2>1 DEF r, d
    <2>3. r \o d \in Seq(D) /\ Len(r \o d) = Len(r) + Len(d)
        BY <2>2, ConcatProperties
    <2>4. Len(r) \in Nat /\ Len(d) \in Nat /\ Len(r) # 0
        BY <2>2, LenProperties, EmptySeq
    <2>5. r \o d # <<>>
        BY <2>3, <2>4, EmptySeq
    <2> QED BY <2>3, <2>5 DEF LayerDir, r, d
<1>3. start \in good
    <2>1. start \in states
        BY DEF MakeStates
    <2>2. Kept(there, start)
        BY DEF Kept
    <2> HIDE DEF start, states
    <2> QED BY <2>1, <2>2
<1>4. ASSUME NEW state \in good, NEW k \in Enabled(cfg)
      PROVE  /\ Make(state, LayerDir(cfg, k)) \in good
             /\ ~Make(state, LayerDir(cfg, k)).failed => ~state.failed /\ LayerDir(cfg, k) \in Make(state, LayerDir(cfg, k)).there
             /\ state.there \subseteq Make(state, LayerDir(cfg, k)).there
    <2>1. state \in MakeStates(D) /\ Kept(there, state)
        OBVIOUS
    <2>2. LayerDir(cfg, k) \in Seq(D) /\ LayerDir(cfg, k) # <<>>
        BY <1>2
    <2> DEFINE dir == LayerDir(cfg, k)
    <2> HIDE DEF dir
    <2>3. dir \in Seq(D) /\ dir # <<>>
        BY <2>2 DEF dir
    <2> HIDE DEF good
    <2>4. /\ Make(state, dir) \in MakeStates(D) /\ Kept(there, Make(state, dir)) /\ state.there \subseteq Make(state, dir).there
          /\ ~Make(state, dir).failed => ~state.failed /\ dir \in Make(state, dir).there
        BY <2>1, <2>3, MakeKeeps
    <2> QED BY <2>4 DEF dir, good
<1> HIDE DEF good, start
<1>5. Steps(n, good, step)
    <2>1. ASSUME NEW k \in 1 .. n, NEW state \in good PROVE (IF k \in Enabled(cfg) THEN Make(state, LayerDir(cfg, k)) ELSE state) \in good
        BY <1>4
    <2>2. ASSUME NEW k \in 1 .. n PROVE step[k] \in [good -> good]
        BY <2>1
    <2> HIDE DEF step
    <2> QED BY <2>2 DEF Steps
<1>6. PICK g : Leads(n, good, step, start, g)
    <2> HIDE DEF n, step
    <2> QED BY <1>1, <1>3, <1>5, StepByStep
<1>7. Def(g)
    <2>1. g \in [0 .. n -> good] /\ g[0] = start /\ \A k \in 1 .. n : g[k] = step[k][g[k - 1]]
        BY <1>6 DEF Leads
    <2>2. ASSUME NEW k \in 1 .. n PROVE g[k] = IF k \in Enabled(cfg) THEN Make(g[k - 1], LayerDir(cfg, k)) ELSE g[k - 1]
        <3>1. k - 1 \in 0 .. n
            BY <1>1
        <3>2. g[k - 1] \in good
            BY <2>1, <3>1
        <3> QED BY <2>1, <3>2
    <2>3. \A k \in 0 .. n : k # 0 => k \in 1 .. n
        BY <1>1
    <2> HIDE DEF n, step
    <2> QED BY <2>1, <2>2, <2>3
<1>8. Def(after)
    <2> HIDE DEF Def
    <2> QED BY <1>7
<1>9. MakeAll(there, cfg) = after[n]
    BY DEF MakeAll, start
<1> HIDE DEF after
<1>10. after[0] = start /\ \A k \in 1 .. n : after[k] = IF k \in Enabled(cfg) THEN Make(after[k - 1], LayerDir(cfg, k)) ELSE after[k - 1]
    <2>1. 0 \in 0 .. n /\ \A k \in 1 .. n : k \in 0 .. n /\ k # 0
        BY <1>1
    <2> HIDE DEF n
    <2> QED BY <1>8, <2>1
<1> DEFINE Done(k) == /\ after[k] \in good
                      /\ ~after[k].failed => \A i \in Enabled(cfg) : i <= k => LayerDir(cfg, i) \in after[k].there
           Right == {k \in 0 .. n : Done(k)}
<1>11. 0 \in Right
    <2>1. \A i \in Enabled(cfg) : ~(i <= 0)
        BY <1>1
    <2> QED BY <1>1, <1>3, <1>10, <2>1
<1>12. ASSUME NEW k \in 0 .. n - 1, k \in Right PROVE k + 1 \in Right
    <2>1. k + 1 \in 1 .. n /\ k + 1 \in 0 .. n /\ (k + 1) - 1 = k
        BY <1>1
    <2>2. after[k + 1] = IF k + 1 \in Enabled(cfg) THEN Make(after[k], LayerDir(cfg, k + 1)) ELSE after[k]
        BY <1>10, <2>1
    <2>3. Done(k)
        BY <1>12
    <2>4. \A i \in Enabled(cfg) : i <= k + 1 => i <= k \/ i = k + 1
        BY <1>1
    <2> HIDE DEF n
    <2>5. Done(k + 1)
        <3>1. CASE k + 1 \in Enabled(cfg)
            <4>1. after[k + 1] = Make(after[k], LayerDir(cfg, k + 1))
                BY <2>2, <3>1
            <4>2. /\ after[k + 1] \in good
                  /\ ~after[k + 1].failed => ~after[k].failed /\ LayerDir(cfg, k + 1) \in after[k + 1].there
                  /\ after[k].there \subseteq after[k + 1].there
                BY <1>4, <2>3, <3>1, <4>1
            <4> QED BY <2>3, <2>4, <4>2
        <3>2. CASE k + 1 \notin Enabled(cfg)
            BY <2>2, <2>3, <2>4, <3>2
        <3> QED BY <3>1, <3>2
    <2> HIDE DEF Done
    <2> QED BY <2>1, <2>5
<1>13. n \in Right
    <2> HIDE DEF Right, n
    <2>1. \A k \in 0 .. n : k \in Right
        BY <1>1, <1>11, <1>12, UpTo
    <2> QED BY <1>1, <2>1
<1>14. after[n] \in MakeStates(D) /\ Kept(there, after[n])
    BY <1>13 DEF good
<1>15. ~after[n].failed => \A i \in Enabled(cfg) : LayerDir(cfg, i) \in after[n].there
    <2>1. \A i \in Enabled(cfg) : i <= n
        BY <1>1
    <2> QED BY <1>13, <2>1
<1> QED BY <1>9, <1>14, <1>15 DEF AllMade

\* What is removed again is what was made.
LEMMA RemovedAgain ==
    ASSUME NEW D, NEW there \in SUBSET Seq(D), \A d \in there : Ancestors(d) \subseteq there,
           NEW state, Kept(there, state), state.created \subseteq Seq(D)
    PROVE  /\ there \subseteq RemoveDirs(state.there, state.created)
           /\ ~state.failed => RemoveDirs(state.there, state.created) = there
<1>1. ASSUME NEW d \in there, NEW c \in state.created, IsPrefix(c, d) PROVE FALSE
    <2>1. c \in Seq(D) /\ c \notin there /\ c # <<>> /\ d \in Seq(D)
        BY DEF Kept
    <2>2. Len(c) \in Nat /\ Len(d) \in Nat /\ Len(c) # 0
        BY <2>1, LenProperties, EmptySeq
    <2>3. Len(c) <= Len(d) /\ SubSeq(c, 1, Len(c)) = SubSeq(d, 1, Len(c))
        BY <1>1 DEF IsPrefix
    <2>4. SubSeq(c, 1, Len(c)) = c
        BY <2>1, SubSeqFull
    <2>5. Len(c) \in 1 .. Len(d)
        BY <2>2, <2>3
    <2>6. c \in Ancestors(d)
        BY <2>3, <2>4, <2>5 DEF Ancestors
    <2> QED BY <2>1, <2>6
<1> QED BY <1>1 DEF Kept, RemoveDirs

\* What logging is set up with: nothing is there without what it lies in.
LogInput(D, S, cfg, there, installed) ==
    /\ "." \in S /\ Dates \subseteq Seq(S)
    /\ there \in SUBSET Seq(D) /\ (\A d \in there : Ancestors(d) \subseteq there)
    /\ Layered(D, S, cfg) /\ installed \in BOOLEAN

\* Setting up logging leaves nothing behind when it fails for what is written, and has apart
\* outputs when it works.
THEOREM LogsKeptCorrect ==
    ASSUME NEW D, NEW S, NEW cfg, NEW there, NEW refused, NEW installed, NEW taken \in BOOLEAN, LogInput(D, S, cfg, there, installed)
    PROVE  LogsKept(cfg, there, refused, installed, taken)
<1> DEFINE made == MakeAll(there, cfg)
           b == BuildAndInstall(cfg, there, refused, taken)
           r == InitTracing(cfg, there, refused, installed, taken)
           files == FilesOpened(cfg, refused)
           layers == cfg.layers
           Together(i, j) == i # j /\ LayerDir(cfg, i) = LayerDir(cfg, j)
           Mistaken(mine, its) == \/ Past(mine.prefix, its.prefix) \/ PastBack(mine.suffix, its.suffix)
                                  \/ mine.prefix = <<>> /\ mine.suffix = <<>> /\ its.prefix \o its.suffix \in Dates
           Used == /\ \A i \in Enabled(cfg) : layers[i].filter # "" => <<LayerDir(cfg, i), layers[i].filter>> \in Outputs(cfg)
                   /\ ~cfg.console.disable /\ cfg.console.filter # "" => <<<<"console">>, cfg.console.filter>> \in Outputs(cfg)
           Legal == BadFilter \notin {layers[i].filter : i \in Enabled(cfg)} \union {cfg.console.filter}
           Kind == \A i, j \in Enabled(cfg) : Together(i, j) =>
                       \A file \in FileNames(layers[j]) : CleansUp(layers[i], file) => Mistaken(layers[i], layers[j])
           Meet == \E i, j \in Enabled(cfg) : Together(i, j) /\ \E file \in FileNames(layers[j]) : CleansUp(layers[i], file)
           Right ==
               /\ r.result # "ok" => r.installed = installed
               /\ r.result # "ok" /\ ~made.failed => r.there = there
               /\ there \subseteq r.there
               /\ r.opened # {} => ~installed /\ r.result \in {"ok", "AppenderFailed", "InstallFailed"}
               /\ r.opened # {} /\ r.result = "AppenderFailed" => refused # {}
               /\ r.opened # {} /\ r.result = "InstallFailed" => taken
               /\ r.result = "ok" =>
                      /\ \A i \in Enabled(cfg) : LayerDir(cfg, i) \in r.there /\ i \in r.opened \ refused
                      /\ \A i \in Enabled(cfg) : layers[i].filter # "" => <<LayerDir(cfg, i), layers[i].filter>> \in Outputs(cfg)
                      /\ ~cfg.console.disable /\ cfg.console.filter # "" => <<<<"console">>, cfg.console.filter>> \in Outputs(cfg)
                      /\ Legal /\ Outputs(cfg) # {}
               /\ r.opened # {} => Kind
               /\ r.result = "FileNameOverlap" => Meet
<1>1. LogsKept(cfg, there, refused, installed, taken) <=> Right
    BY Zenon DEF LogsKept
<1>2. /\ "." \in S /\ Dates \subseteq Seq(S)
      /\ there \in SUBSET Seq(D) /\ (\A d \in there : Ancestors(d) \subseteq there)
      /\ Layered(D, S, cfg) /\ installed \in BOOLEAN
    BY DEF LogInput
<1>3. made \in MakeStates(D) /\ Kept(there, made) /\ (~made.failed => \A i \in Enabled(cfg) : LayerDir(cfg, i) \in made.there)
    BY <1>2, MakeAllKeeps DEF AllMade
<1>4. made.created \subseteq Seq(D) /\ there \subseteq made.there
    BY <1>3 DEF MakeStates, Kept
<1>5. there \subseteq RemoveDirs(made.there, made.created) /\ (~made.failed => RemoveDirs(made.there, made.created) = there)
    BY <1>2, <1>3, <1>4, RemovedAgain
<1>6. RemoveDirs(there, {}) = there
    BY DEF RemoveDirs
<1>7. b = LET Result(e, state, opened) == [result |-> e, there |-> state.there, created |-> state.created, opened |-> opened]
          IN  IF BadFilter \in Filters(cfg) THEN Result("InvalidFilter", [there |-> there, created |-> {}], {})
              ELSE IF made.failed THEN Result("AppenderFailed", made, {})
              ELSE IF Overlap(cfg) THEN Result("FileNameOverlap", made, {})
              ELSE IF files # Enabled(cfg) THEN Result("AppenderFailed", made, files)
              ELSE IF Outputs(cfg) = {} THEN Result("NoOutput", made, files)
              ELSE Result(IF taken THEN "InstallFailed" ELSE "ok", made, files)
    BY DEF BuildAndInstall
<1>8. /\ installed => r = [result |-> "InstallFailed", there |-> there, opened |-> {}, installed |-> TRUE]
      /\ ~installed => r = [result |-> b.result, installed |-> b.result = "ok", opened |-> b.opened,
                            there |-> IF b.result = "ok" THEN b.there ELSE RemoveDirs(b.there, b.created)]
    BY DEF InitTracing
<1>9. /\ Outputs(cfg) = {} => Enabled(cfg) = {}
      /\ files \subseteq Enabled(cfg)
    BY DEF Outputs, FilesOpened
<1>10. files # {} /\ files # Enabled(cfg) => refused # {}
    BY DEF FilesOpened
<1>11. files = Enabled(cfg) => \A i \in Enabled(cfg) : i \in files \ refused
    <2> SUFFICES ASSUME files = Enabled(cfg), NEW i \in Enabled(cfg), i \in refused PROVE FALSE
        OBVIOUS
    <2>1. i < i
        BY DEF FilesOpened
    <2>2. i \in Nat
        BY <1>2 DEF Enabled, Layered
    <2> QED BY <2>1, <2>2
<1>12. BadFilter \notin Filters(cfg) => Legal
    BY DEF Filters
<1>13. Used
    BY DEF Outputs, FilterOf
<1>14. ASSUME ~Overlap(cfg) PROVE Kind
    <2> SUFFICES ASSUME NEW i \in Enabled(cfg), NEW j \in Enabled(cfg), Together(i, j), NEW file \in FileNames(layers[j]), CleansUp(layers[i], file)
                 PROVE  Mistaken(layers[i], layers[j])
        OBVIOUS
    <2>1. i \in Int /\ j \in Int /\ i # j
        BY <1>2 DEF Enabled, Layered
    <2>2. i < j \/ j < i
        BY <2>1
    <2>3. ~NameMatches(layers[i], layers[j])
        BY <1>14, <2>2 DEF Overlap
    <2>4. IsPart(S, layers[i].prefix) /\ IsPart(S, layers[i].suffix) /\ IsPart(S, layers[j].prefix) /\ IsPart(S, layers[j].suffix)
        BY <1>2 DEF Layered
    <2> QED BY <1>2, <2>3, <2>4, FilesApart
<1>15. ASSUME Overlap(cfg) PROVE Meet
    <2>1. PICK i \in Enabled(cfg), j \in Enabled(cfg) :
              /\ i < j /\ LayerDir(cfg, i) = LayerDir(cfg, j)
              /\ NameMatches(layers[i], layers[j]) \/ NameMatches(layers[j], layers[i])
        BY <1>15 DEF Overlap
    <2>2. i # j
        BY <1>2, <2>1 DEF Enabled, Layered
    <2>3. Together(i, j) /\ Together(j, i)
        BY <2>1, <2>2
    <2>4. IsPart(S, layers[i].prefix) /\ IsPart(S, layers[i].suffix) /\ IsPart(S, layers[j].prefix) /\ IsPart(S, layers[j].suffix)
        BY <1>2 DEF Layered
    <2>5. CASE NameMatches(layers[i], layers[j])
        <3>1. \E file \in FileNames(layers[j]) : CleansUp(layers[i], file)
            BY <1>2, <2>4, <2>5, FilesTogether
        <3> QED BY <2>3, <3>1
    <2>6. CASE NameMatches(layers[j], layers[i])
        <3>1. \E file \in FileNames(layers[i]) : CleansUp(layers[j], file)
            BY <1>2, <2>4, <2>6, FilesTogether
        <3> QED BY <2>3, <3>1
    <2> QED BY <2>1, <2>5, <2>6
<1> DEFINE Bad == BadFilter \in Filters(cfg)
           Over == Overlap(cfg)
           None == Outputs(cfg) = {}
           all == files = Enabled(cfg)
           back == RemoveDirs(b.there, b.created)
           dirs == \A i \in Enabled(cfg) : LayerDir(cfg, i) \in made.there
\* What the attempt comes to, by its first fault.
<1>16. /\ b.result = "ok" => ~taken /\ all /\ b.opened = files /\ b.there = made.there /\ ~made.failed /\ ~Bad /\ ~None
       /\ b.result # "ok" /\ ~made.failed => back = there
       /\ b.result # "ok" => there \subseteq back
       /\ b.opened # {} => b.opened = files /\ ~Over /\ b.result \in {"ok", "AppenderFailed", "InstallFailed"}
       /\ b.opened # {} /\ b.result = "AppenderFailed" => ~all
       /\ b.opened # {} /\ b.result = "InstallFailed" => taken
       /\ b.result = "FileNameOverlap" => Over
    <2> DEFINE enabled == Enabled(cfg)
    <2>1. /\ Bad => b = [result |-> "InvalidFilter", there |-> there, created |-> {}, opened |-> {}]
          /\ ~Bad /\ made.failed => b = [result |-> "AppenderFailed", there |-> made.there, created |-> made.created, opened |-> {}]
          /\ ~Bad /\ ~made.failed /\ Over => b = [result |-> "FileNameOverlap", there |-> made.there, created |-> made.created, opened |-> {}]
          /\ ~Bad /\ ~made.failed /\ ~Over /\ ~all => b = [result |-> "AppenderFailed", there |-> made.there, created |-> made.created, opened |-> files]
          /\ ~Bad /\ ~made.failed /\ ~Over /\ all /\ None => b = [result |-> "NoOutput", there |-> made.there, created |-> made.created, opened |-> files]
          /\ ~Bad /\ ~made.failed /\ ~Over /\ all /\ ~None =>
                 b = [result |-> IF taken THEN "InstallFailed" ELSE "ok", there |-> made.there, created |-> made.created, opened |-> files]
        <3> HIDE DEF made, files, b
        <3> QED BY <1>7
    <2>2. None /\ all => files = {}
        BY <1>9
    <2> HIDE DEF made, b, files, Bad, Over, None, all
    <2>3. CASE Bad
        BY <1>6, <2>1, <2>3
    <2>4. CASE ~Bad /\ made.failed
        BY <1>5, <2>1, <2>4
    <2>5. CASE ~Bad /\ ~made.failed /\ Over
        BY <1>5, <2>1, <2>5
    <2>6. CASE ~Bad /\ ~made.failed /\ ~Over /\ ~all
        BY <1>5, <2>1, <2>6
    <2>7. CASE ~Bad /\ ~made.failed /\ ~Over /\ all /\ None
        BY <1>5, <2>1, <2>2, <2>7
    <2>8. CASE ~Bad /\ ~made.failed /\ ~Over /\ all /\ ~None
        BY <1>5, <2>1, <2>8
    <2> QED BY <2>3, <2>4, <2>5, <2>6, <2>7, <2>8
<1>17. CASE installed
    <2>1. r.result = "InstallFailed" /\ r.there = there /\ r.opened = {} /\ r.installed = TRUE
        <3> HIDE DEF r
        <3> QED BY <1>8, <1>17
    <2>2. installed = TRUE
        BY <1>2, <1>17
    <2> HIDE DEF r, made, Kind, Meet, Legal
    <2>3. Right
        BY <2>1, <2>2
    <2> QED BY <1>1, <2>3
<1>18. CASE ~installed
    <2>1. r.result = b.result /\ r.installed = (b.result = "ok") /\ r.opened = b.opened /\ r.there = IF b.result = "ok" THEN b.there ELSE back
        BY <1>8, <1>18
    <2>2. installed = FALSE
        BY <1>2, <1>18
    <2>3. b.opened # {} => Kind
        <3> HIDE DEF b, files, Kind
        <3> QED BY <1>14, <1>16
    <2>4. b.opened # {} /\ b.result = "AppenderFailed" => refused # {}
        <3> HIDE DEF b, files
        <3> QED BY <1>10, <1>16
    <2>5. b.result = "ok" => \A i \in Enabled(cfg) : LayerDir(cfg, i) \in b.there /\ i \in b.opened \ refused
        <3> HIDE DEF b, files, made
        <3> QED BY <1>3, <1>11, <1>16
    <2>6. b.result = "ok" => there \subseteq b.there /\ Legal /\ Used /\ ~None
        <3> HIDE DEF b, files, made, Legal, Used
        <3> QED BY <1>4, <1>12, <1>13, <1>16
    <2>7. b.result = "FileNameOverlap" => Meet
        <3> HIDE DEF b, Meet
        <3> QED BY <1>15, <1>16
    <2> HIDE DEF r, made, b, back, Kind, Meet, Legal
    <2>8. Right
        BY <1>16, <2>1, <2>2, <2>3, <2>4, <2>5, <2>6, <2>7
    <2> QED BY <1>1, <2>8
<1> QED BY <1>17, <1>18
=============================================================================
