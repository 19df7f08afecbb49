------------------------------ MODULE LockKeys ------------------------------
(***************************************************************************)
(* hygiea-core, lock/key.rs, and hygiea-db, sql/*/lock.rs: the numbers and *)
(* names that locks are taken with, and how long one is waited for.        *)
(*                                                                         *)
(* Integers have Ints values where the code has those of 32 bits, and      *)
(* Ints * Ints where it has 64.  What is refused is the empty set.  A name *)
(* is the sequence of its parts, and what a caller asks for is [kind, ...] *)
(* with the kinds key, i64 and pair.                                       *)
(***************************************************************************)
EXTENDS Integers, Sequences, FiniteSets

CONSTANTS Ints,             \* how many values an i32 has
          MaxNameChars,     \* of a name in MySQL
          MaxMillis,        \* i32::MAX milliseconds
          NoCase(_)         \* what MySQL makes of a character of a name

\* Half of the values are negative.
Signed(values) == -(values \div 2) .. values \div 2 - 1

\* The same bits, read without and with a sign.
AsUnsigned(n, values) == n % values
AsSigned(n, values) == IF n < values \div 2 THEN n ELSE n - values

\* The i64 of two i32: the first above the bits of the second.
FromPair(key1, key2) == key1 * Ints + AsUnsigned(key2, Ints)

----------------------------------------------------------------------------
(* Which lock it is.                                                        *)

KeyName(chars) == {c \in {chars} : Len(c) <= MaxNameChars}
I64Name(key) == <<"i64:", key>>
PairName(key1, key2) == <<"i32:", key1, ":", key2>>

\* MySQL has one space of names, which it does not tell apart by their case; numbers have none.
Fold(text) == [i \in DOMAIN text |-> NoCase(text[i])]
MySqlLock(ask) == CASE ask.kind = "key" -> {Fold(name) : name \in KeyName(ask.text)}
                    [] ask.kind = "i64" -> {I64Name(ask.number)}
                    [] ask.kind = "pair" -> {PairName(ask.first, ask.second)}

\* PostgreSQL has one for bigint, one for pairs of int, and a table for keys.
PgLock(ask) == CASE ask.kind = "key" -> {<<"row">> \o ask.text}
                 [] ask.kind = "i64" -> {<<"bigint", ask.number>>}
                 [] ask.kind = "pair" -> {<<"int", ask.first, ask.second>>}

----------------------------------------------------------------------------
(* Timeouts: in milliseconds for PostgreSQL, whole seconds for MySQL; a     *)
(* duration is a number of halves of a millisecond.                         *)

\* A bug: a duration is rounded down to milliseconds.
TimeoutRounded(d) == {m \in {d \div 2} : m <= MaxMillis}

TimeoutMillis(d) == {m \in {d \div 2} : d % 2 = 0 /\ m # 0 /\ m <= MaxMillis}
TimeoutSecs(d) == {s \in {d \div 2000} : d % 2000 = 0 /\ s # 0}

NoWait == [waits |-> FALSE, limit |-> 0]
Wait(limit) == [waits |-> TRUE, limit |-> limit]

\* Without a timeout it is a try.  A try for a row of the table waits as little as it can.
PgWait(d) == IF d = 0 THEN {NoWait} ELSE {Wait(m) : m \in TimeoutMillis(d)}
PgRowWait(d) == IF d = 0 THEN {Wait(1)} ELSE {Wait(m) : m \in TimeoutMillis(d)}
WaitSecs(d) == IF d = 0 THEN {NoWait} ELSE {Wait(s) : s \in TimeoutSecs(d)}

----------------------------------------------------------------------------
(* What they promise.                                                       *)

\* Two numbers are the same bits only when they are the same; two pairs are one number only when
\* they are the same.
NumbersApart(a, b) ==
    /\ a # b => AsSigned(AsUnsigned(a[1], Ints), Ints) = a[1] /\ FromPair(a[1], a[2]) # FromPair(b[1], b[2])
    /\ FromPair(a[1], a[2]) \in Signed(Ints * Ints)

\* Two callers take the same lock only when they ask for the same; in MySQL also when the texts of
\* their keys differ in case alone.
SameButCase(ask1, ask2) == ask1.kind = "key" /\ ask2.kind = "key" /\ Fold(ask1.text) = Fold(ask2.text)
LocksApart(ask1, ask2) ==
    ask1 # ask2 => /\ PgLock(ask1) \intersect PgLock(ask2) = {}
                   /\ MySqlLock(ask1) \intersect MySqlLock(ask2) = {} \/ SameButCase(ask1, ask2)

\* A lock is waited for exactly as long as the caller says, or the call is refused: never
\* rounded, and never without a limit, which is what zero means to PostgreSQL.
TimeoutsExact(d) ==
    /\ \A w \in PgWait(d) \union PgRowWait(d) : w.waits => w.limit # 0 /\ (2 * w.limit = d \/ (d = 0 /\ w.limit = 1))
    /\ \A w \in WaitSecs(d) : w.waits => w.limit # 0 /\ 2000 * w.limit = d
    /\ d % 2 = 0 /\ d <= 2 * MaxMillis => PgWait(d) # {} /\ PgRowWait(d) # {}
    /\ d % 2000 = 0 => WaitSecs(d) # {}
=============================================================================
