---------------------------- MODULE ValuesProofs ----------------------------
(***************************************************************************)
(* Proofs about the other pure parts of the system, for every argument:    *)
(* the numbers, names, timeouts, pages, tables and settings of hygiea-db,  *)
(* the codes and messages of the macros, redaction, the texts of the HTTP  *)
(* client, Redis, S3 and servers; and about all calls of MC_Values, with   *)
(* what CoreProofs shows of hygiea-core.                                   *)
(***************************************************************************)
EXTENDS MC_Values, CoreProofs

-----------------------------------------------------------------------------
(* The numbers of locks.                                                    *)

\* Of pairs of an i32 none is taken for another one, and all are i64; an i32 that is sent
\* without its sign is read as it was.
THEOREM NumbersApartCorrect ==
    \A a, b \in L!Signed(Ints) \X L!Signed(Ints) : L!NumbersApart(a, b)
<1> DEFINE half == Ints \div 2
<1>1. Ints \in Nat \ {0} /\ half \in Nat /\ Ints = 2 * half
    BY NumbersAssumption
<1>2. L!Signed(Ints) = -half .. half - 1
    BY DEF L!Signed
<1>3. L!Signed(Ints * Ints) = -(Ints * half) .. Ints * half - 1
    <2>1. Ints * Ints = 2 * (Ints * half) /\ Ints * half \in Nat
        BY <1>1
    <2>2. (Ints * Ints) \div 2 = Ints * half
        BY <2>1
    <2> QED BY <2>2 DEF L!Signed
<1> HIDE DEF half
\* An i32 without its sign.
<1>4. ASSUME NEW n \in L!Signed(Ints)
      PROVE  /\ L!AsUnsigned(n, Ints) = (IF n < 0 THEN n + Ints ELSE n)
             /\ L!AsUnsigned(n, Ints) \in 0 .. Ints - 1
    <2>1. CASE n < 0
        <3>1. n + Ints \in 0 .. Ints - 1 /\ n \in Int /\ n = Ints * (-1) + (n + Ints)
            BY <1>1, <1>2, <2>1
        <3>2. n % Ints = n + Ints
            BY <1>1, <3>1, DividedOnce, SMTT(30)
        <3> QED BY <2>1, <3>1, <3>2 DEF L!AsUnsigned
    <2>2. CASE ~ (n < 0)
        <3>1. n \in 0 .. Ints - 1 /\ n \in Int /\ n = Ints * 0 + n
            BY <1>1, <1>2, <2>2
        <3>2. n % Ints = n
            BY <1>1, <3>1, DividedOnce
        <3> QED BY <2>2, <3>1, <3>2 DEF L!AsUnsigned
    <2> QED BY <2>1, <2>2
<1>5. ASSUME NEW n \in L!Signed(Ints) PROVE L!AsSigned(L!AsUnsigned(n, Ints), Ints) = n
    BY <1>1, <1>2, <1>4 DEF L!AsSigned, half
\* The parts of a pair are what its number is divided into.
<1>6. ASSUME NEW a \in L!Signed(Ints) \X L!Signed(Ints)
      PROVE  /\ L!FromPair(a[1], a[2]) \div Ints = a[1]
             /\ L!FromPair(a[1], a[2]) % Ints = L!AsUnsigned(a[2], Ints)
    <2> DEFINE q == a[1]
               r == L!AsUnsigned(a[2], Ints)
               n == L!FromPair(q, a[2])
    <2>1. q \in Int /\ r \in 0 .. Ints - 1
        BY <1>1, <1>2, <1>4
    <2>2. n = Ints * q + r /\ n \in Int
        BY <1>1, <2>1 DEF L!FromPair
    <2> HIDE DEF q, r, n
    <2>3. n \div Ints = q /\ n % Ints = r
        BY <1>1, <2>1, <2>2, DividedOnce
    <2> QED BY <2>3 DEF q, r, n
<1>7. ASSUME NEW a \in L!Signed(Ints) \X L!Signed(Ints), NEW b \in L!Signed(Ints) \X L!Signed(Ints),
             L!FromPair(a[1], a[2]) = L!FromPair(b[1], b[2])
      PROVE  a = b
    <2>1. a[1] = b[1] /\ L!AsUnsigned(a[2], Ints) = L!AsUnsigned(b[2], Ints)
        BY <1>6, <1>7
    <2>2. a[2] = b[2]
        BY <1>5, <2>1
    <2> QED BY <2>1, <2>2
<1>8. ASSUME NEW a \in L!Signed(Ints) \X L!Signed(Ints)
      PROVE  L!FromPair(a[1], a[2]) \in L!Signed(Ints * Ints)
    <2> DEFINE r == L!AsUnsigned(a[2], Ints)
    <2>1. a[1] \in -half .. half - 1 /\ r \in 0 .. Ints - 1
        BY <1>2, <1>4
    <2>2. -(Ints * half) <= Ints * a[1] /\ Ints * a[1] + Ints <= Ints * half /\ Ints * a[1] \in Int
        <3>1. PICK k \in Nat : a[1] = k - half
            <4>1. a[1] + half \in Nat /\ a[1] = (a[1] + half) - half
                BY <1>1, <2>1
            <4> QED BY <4>1
        <3>2. PICK l \in Nat : half = a[1] + 1 + l
            <4>1. half - a[1] - 1 \in Nat /\ half = a[1] + 1 + (half - a[1] - 1)
                BY <1>1, <2>1
            <4> QED BY <4>1
        <3>3. Ints * a[1] = Ints * k - Ints * half /\ Ints * k \in Nat
            BY <1>1, <3>1
        <3>4. Ints * half = Ints * a[1] + Ints + Ints * l /\ Ints * l \in Nat
            BY <1>1, <2>1, <3>2
        <3>5. Ints * a[1] \in Int /\ Ints * half \in Int
            BY <1>1, <2>1
        <3> QED BY <1>1, <3>3, <3>4, <3>5
    <2>3. L!FromPair(a[1], a[2]) = Ints * a[1] + r
        BY <1>1, <2>1 DEF L!FromPair
    <2> HIDE DEF r
    <2> QED BY <1>1, <1>3, <2>1, <2>2, <2>3
<1> QED BY <1>5, <1>7, <1>8 DEF L!NumbersApart

----------------------------------------------------------------------------
(* The names of locks and their timeouts.                                  *)

\* What callers may ask for: a key, a number or a pair of numbers.
AnyAsk(texts) ==
    [kind : {"key"}, text : texts] \union [kind : {"i64"}, number : Int]
      \union [kind : {"pair"}, first : Int, second : Int]

\* Two callers take the same lock only when they ask for the same, whatever is rendered into
\* the text of a key: it begins with the code of the key, which is none of the marks of the
\* numbers, also without its case.  In MySQL they also do when the texts of their keys differ in
\* case alone.
THEOREM LocksApartCorrect ==
    ASSUME NEW Char, NEW texts \in SUBSET Seq(Char),
           \A t \in texts : Len(t) # 0 /\ NoCase(t[1]) \notin {"i64:", "i32:"}
    PROVE  \A ask1, ask2 \in AnyAsk(texts) : L!LocksApart(ask1, ask2)
<1> SUFFICES ASSUME NEW ask1 \in AnyAsk(texts), NEW ask2 \in AnyAsk(texts), ask1 # ask2
             PROVE  /\ L!PgLock(ask1) \cap L!PgLock(ask2) = {}
                    /\ L!MySqlLock(ask1) \cap L!MySqlLock(ask2) = {} \/ L!SameButCase(ask1, ask2)
    BY DEF L!LocksApart
<1> DEFINE Is(ask) ==
        \/ /\ ask.kind = "key" /\ ask.text \in texts /\ ask = [kind |-> "key", text |-> ask.text]
           /\ L!MySqlLock(ask) \subseteq {L!Fold(ask.text)} /\ L!PgLock(ask) = {<<"row">> \o ask.text}
        \/ /\ ask.kind = "i64" /\ ask = [kind |-> "i64", number |-> ask.number]
           /\ L!MySqlLock(ask) = {<<"i64:", ask.number>>} /\ L!PgLock(ask) = {<<"bigint", ask.number>>}
        \/ /\ ask.kind = "pair" /\ ask = [kind |-> "pair", first |-> ask.first, second |-> ask.second]
           /\ L!MySqlLock(ask) = {<<"i32:", ask.first, ":", ask.second>>}
           /\ L!PgLock(ask) = {<<"int", ask.first, ask.second>>}
<1>1. ASSUME NEW ask \in AnyAsk(texts) PROVE Is(ask)
    <2>1. CASE ask \in [kind : {"key"}, text : texts]
        <3>1. ask.kind = "key" /\ ask.text \in texts /\ ask = [kind |-> "key", text |-> ask.text]
            BY <2>1
        <3>2. L!MySqlLock(ask) = {L!Fold(name) : name \in L!KeyName(ask.text)}
            BY <3>1 DEF L!MySqlLock
        <3>3. L!KeyName(ask.text) \subseteq {ask.text}
            BY DEF L!KeyName
        <3>4. L!MySqlLock(ask) \subseteq {L!Fold(ask.text)}
            BY <3>2, <3>3
        <3> QED BY <3>1, <3>4 DEF L!PgLock
    <2>2. CASE ask \in [kind : {"i64"}, number : Int]
        BY <2>2 DEF L!MySqlLock, L!PgLock, L!I64Name
    <2>3. CASE ask \in [kind : {"pair"}, first : Int, second : Int]
        BY <2>3 DEF L!MySqlLock, L!PgLock, L!PairName
    <2> QED BY <1>1, <2>1, <2>2, <2>3 DEF AnyAsk
\* A row begins with its own mark, and the texts behind it differ.
<1>2. ASSUME NEW t \in texts
      PROVE  t \in Seq(Char) /\ L!Fold(t)[1] # "i64:" /\ L!Fold(t)[1] # "i32:" /\ (<<"row">> \o t)[1] = "row"
    <2>1. 1 \in DOMAIN t
        BY <1>2
    <2>2. L!Fold(t)[1] = NoCase(t[1])
        BY <2>1 DEF L!Fold
    <2> QED BY <1>2, <2>2
<1>3. ASSUME NEW t \in texts, NEW u \in texts, <<"row">> \o t = <<"row">> \o u PROVE t = u
    <2> DEFINE S == Char \union {"row"}
    <2>1. <<"row">> \in Seq(S) /\ t \in Seq(S) /\ u \in Seq(S)
        BY <1>2
    <2> HIDE DEF S
    <2> QED BY <1>3, <2>1, ConcatSimplifications
<1>4. Is(ask1) /\ Is(ask2)
    BY <1>1
<1>5. L!MySqlLock(ask1) \cap L!MySqlLock(ask2) = {} \/ L!SameButCase(ask1, ask2)
    <2>1. CASE ask1.kind = "key" /\ ask2.kind = "key"
        BY <1>4, <2>1 DEF L!SameButCase
    <2>2. CASE ~ (ask1.kind = "key" /\ ask2.kind = "key")
        BY <1>2, <1>4, <2>2
    <2> QED BY <2>1, <2>2
<1>6. L!PgLock(ask1) \cap L!PgLock(ask2) = {}
    BY <1>2, <1>3, <1>4
<1> QED BY <1>5, <1>6

\* A timeout is waited for as it is, or refused, for every duration.
THEOREM TimeoutsExactCorrect == \A d \in Nat : L!TimeoutsExact(d)
<1> USE NumbersAssumption
<1> SUFFICES ASSUME NEW d \in Nat PROVE L!TimeoutsExact(d)
    OBVIOUS
<1>1. d % 2 = d - 2 * (d \div 2) /\ d \div 2 \in Nat /\ d % 2 \in 0 .. 1
    OBVIOUS
<1>2. d % 2000 = d - 2000 * (d \div 2000) /\ d \div 2000 \in Nat /\ d % 2000 \in 0 .. 1999
    OBVIOUS
<1>3. \A m \in L!TimeoutMillis(d) : m # 0 /\ 2 * m = d
    BY <1>1 DEF L!TimeoutMillis
<1>4. \A s \in L!TimeoutSecs(d) : s # 0 /\ 2000 * s = d
    BY <1>2 DEF L!TimeoutSecs
<1>5. \A w \in L!PgWait(d) \union L!PgRowWait(d) :
          w.waits => w.limit # 0 /\ (2 * w.limit = d \/ (d = 0 /\ w.limit = 1))
    BY <1>3 DEF L!PgWait, L!PgRowWait, L!Wait, L!NoWait
<1>6. \A w \in L!WaitSecs(d) : w.waits => w.limit # 0 /\ 2000 * w.limit = d
    BY <1>4 DEF L!WaitSecs, L!Wait, L!NoWait
<1>7. ASSUME d % 2 = 0, d <= 2 * MaxMillis PROVE L!PgWait(d) # {} /\ L!PgRowWait(d) # {}
    <2>1. CASE d = 0
        BY <2>1 DEF L!PgWait, L!PgRowWait
    <2>2. CASE d # 0
        <3>1. d \div 2 \in L!TimeoutMillis(d)
            BY <1>1, <1>7, <2>2 DEF L!TimeoutMillis
        <3> QED BY <2>2, <3>1 DEF L!PgWait, L!PgRowWait
    <2> QED BY <2>1, <2>2
<1>8. ASSUME d % 2000 = 0 PROVE L!WaitSecs(d) # {}
    <2>1. CASE d = 0
        BY <2>1 DEF L!WaitSecs
    <2>2. CASE d # 0
        <3>1. d \div 2000 \in L!TimeoutSecs(d)
            BY <1>2, <1>8, <2>2 DEF L!TimeoutSecs
        <3> QED BY <2>2, <3>1 DEF L!WaitSecs
    <2> QED BY <2>1, <2>2
<1> QED BY <1>5, <1>6, <1>7, <1>8 DEF L!TimeoutsExact
-----------------------------------------------------------------------------
(* Pages.                                                                  *)

\* Multiples grow with their number.
LEMMA Multiples ==
    ASSUME NEW p \in Nat, NEW q \in Nat, NEW size \in Nat, p < q
    PROVE  p * size + size <= q * size
<1>1. PICK k \in Nat : q = p + 1 + k
    <2>1. q - p - 1 \in Nat /\ q = p + 1 + (q - p - 1)
        OBVIOUS
    <2> QED BY <2>1
<1>2. q * size = p * size + size + k * size /\ k * size \in Nat
    BY <1>1
<1> QED BY <1>2

\* How many pages there are: the last of them has a row, and there is room for all.
LEMMA PageCount ==
    ASSUME NEW total \in Nat, NEW size \in Nat \ {0}, NEW pages, pages = P!DivCeil(total, size)
    PROVE  /\ pages \in Nat /\ total <= pages * size
           /\ pages # 0 => (pages - 1) * size < total
           /\ pages = 0 <=> total = 0
<1> DEFINE n == total + (size - 1)
<1>1. n \in Nat /\ pages = n \div size
    BY DEF P!DivCeil
<1> HIDE DEF n
<1>2. pages \in Nat /\ size * pages <= n /\ n < size * pages + size
    BY <1>1
<1>3. n = total + (size - 1)
    BY DEF n
<1>4. total <= pages * size
    BY <1>2, <1>3
<1>5. ASSUME pages # 0 PROVE (pages - 1) * size < total
    <2>1. (pages - 1) * size = size * pages - size
        BY <1>2
    <2> QED BY <1>2, <1>3, <2>1
<1>6. pages = 0 => total = 0
    BY <1>4
<1>7. total = 0 => pages = 0
    <2> SUFFICES ASSUME pages # 0, total = 0 PROVE FALSE
        OBVIOUS
    <2>1. PICK k \in Nat : pages - 1 = k
        BY <1>2
    <2>2. k * size >= 0
        OBVIOUS
    <2> QED BY <1>5, <2>1, <2>2
<1> QED BY <1>2, <1>4, <1>5, <1>6, <1>7

\* The pages of a request that is accepted.
LEMMA AcceptedPages ==
    ASSUME NEW total \in Nat, NEW size \in Nat \ {0}, total <= MaxOffset
    PROVE  P!PagesPartition(total, size)
<1> USE NumbersAssumption
<1> DEFINE pages == P!DivCeil(total, size)
           On(p) == UNION {P!Rows(total, r) : r \in P!PageRequest(p, size)}
<1>1. P!Page(<<>>, [page |-> 0, size |-> size], total).pages = pages
    BY DEF P!Page
<1>2. /\ pages \in Nat /\ total <= pages * size
      /\ pages # 0 => (pages - 1) * size < total
      /\ pages = 0 <=> total = 0
    BY PageCount
<1> HIDE DEF pages
<1>3. ASSUME NEW p \in Nat, NEW n
      PROVE  n \in On(p) <=> /\ p <= MaxPage /\ p * size <= MaxOffset
                             /\ n \in 1 .. total /\ p * size < n /\ n <= p * size + size
    <2>1. CASE p <= MaxPage /\ p * size <= MaxOffset
        <3>1. P!PageRequest(p, size) = {[page |-> p, size |-> size]}
            BY <2>1 DEF P!PageRequest
        <3>2. On(p) = P!Rows(total, [page |-> p, size |-> size])
            BY <3>1
        <3> QED BY <2>1, <3>2 DEF P!Rows, P!Offset, P!Limit
    <2>2. CASE ~ (p <= MaxPage /\ p * size <= MaxOffset)
        <3>1. P!PageRequest(p, size) = {}
            BY <2>2 DEF P!PageRequest
        <3> QED BY <2>2, <3>1
    <2> QED BY <2>1, <2>2
<1> HIDE DEF On
<1>4. ASSUME NEW p \in 0 .. pages - 1 PROVE p \in Nat /\ p * size < total /\ p * size <= MaxOffset
    <2>1. p * size + size <= pages * size
        BY <1>2, Multiples
    <2>2. pages - 1 \in Nat /\ (pages - 1) * size = pages * size - size
        BY <1>2
    <2>3. p * size \in Nat /\ pages * size \in Nat
        BY <1>2
    <2> QED BY <1>2, <2>1, <2>2, <2>3
<1> DEFINE asked == {p \in 0 .. pages - 1 : p <= MaxPage}
           listed == {n \in 1 .. total : n <= (MaxPage + 1) * size}
<1>10. MaxPage + 1 \in Nat /\ (MaxPage + 1) * size \in Nat
    OBVIOUS
<1>11. ASSUME NEW p \in asked, NEW n \in On(p) PROVE n \in listed
    <2>1. p \in Nat /\ p < MaxPage + 1 /\ p * size \in Nat
        BY <1>4
    <2>2. p * size + size <= (MaxPage + 1) * size
        BY <1>10, <2>1, Multiples
    <2>3. n \in 1 .. total /\ n <= p * size + size
        BY <1>3, <2>1
    <2> QED BY <1>10, <2>1, <2>2, <2>3
<1>5. ASSUME NEW n \in listed PROVE \E p \in asked : n \in On(p)
    <2> DEFINE p == (n - 1) \div size
    <2>1. n - 1 \in Nat
        OBVIOUS
    <2>2. p \in Nat /\ size * p <= n - 1 /\ n - 1 < size * p + size
        BY <2>1
    <2> HIDE DEF p
    <2>3. p * size < n /\ n <= p * size + size
        BY <2>2
    <2>4. p < pages
        <3> SUFFICES ASSUME ~ (p < pages) PROVE FALSE
            OBVIOUS
        <3>1. pages = p \/ pages * size + size <= p * size
            BY <1>2, <2>2, Multiples
        <3>2. pages * size \in Nat /\ p * size \in Nat
            BY <1>2, <2>2
        <3> QED BY <1>2, <2>3, <3>1, <3>2
    <2>5. p <= MaxPage
        <3> SUFFICES ASSUME ~ (p <= MaxPage) PROVE FALSE
            OBVIOUS
        <3>1. MaxPage + 1 = p \/ (MaxPage + 1) * size + size <= p * size
            BY <1>10, <2>2, Multiples
        <3>2. p * size \in Nat /\ n <= (MaxPage + 1) * size
            BY <2>2
        <3> QED BY <1>10, <2>3, <3>1, <3>2
    <2>6. p \in 0 .. pages - 1 /\ p \in asked
        BY <1>2, <2>2, <2>4, <2>5
    <2> QED BY <1>3, <1>4, <2>2, <2>3, <2>6
<1>6. UNION {On(p) : p \in asked} = listed
    BY <1>5, <1>11
<1>7. ASSUME NEW p \in asked
      PROVE  On(p) # {} /\ \A q \in 0 .. p - 1 : On(q) \cap On(p) = {}
    <2>1. p * size \in Nat /\ p \in Nat /\ p * size < total /\ p * size <= MaxOffset /\ p <= MaxPage
        BY <1>4
    <2>2. p * size + 1 \in On(p)
        BY <1>3, <2>1
    <2>3. ASSUME NEW q \in 0 .. p - 1, NEW n \in On(q) \cap On(p) PROVE FALSE
        <3>1. q \in Nat /\ q < p /\ q * size \in Nat
            BY <2>1
        <3>2. q * size + size <= p * size
            BY <2>1, <3>1, Multiples
        <3>3. n \in 1 .. total /\ n <= q * size + size /\ p * size < n
            BY <1>3, <2>1, <2>3, <3>1
        <3> QED BY <2>1, <3>1, <3>2, <3>3
    <2> QED BY <2>2, <2>3
<1>8. On(pages) = {}
    <2> SUFFICES ASSUME NEW n \in On(pages) PROVE FALSE
        OBVIOUS
    <2>1. n \in 1 .. total /\ pages * size < n /\ pages * size \in Nat
        BY <1>2, <1>3
    <2> QED BY <1>2, <2>1
<1>9. /\ UNION {On(p) : p \in asked} = listed
      /\ \A p \in asked : On(p) # {} /\ \A q \in 0 .. p - 1 : On(q) \cap On(p) = {}
      /\ On(pages) = {} /\ (pages = 0 <=> total = 0)
    BY <1>2, <1>6, <1>7, <1>8
<1> USE DEF On
<1> QED BY <1>1, <1>9 DEF P!PagesPartition

\* Whatever the size and the number of rows, every row up to the last number of a page is on
\* exactly one of the pages that are counted, none of these that can be asked for is empty, and
\* there is nothing after them.
THEOREM PagesPartitionCorrect == \A total \in Nat, size \in Nat : P!PagesPartition(total, size)
<1> SUFFICES ASSUME NEW total \in Nat, NEW size \in Nat PROVE P!PagesPartition(total, size)
    OBVIOUS
<1>1. CASE size > 0 /\ total <= MaxOffset
    BY <1>1, AcceptedPages
<1>2. CASE ~ (size > 0 /\ total <= MaxOffset)
    BY <1>2 DEF P!PagesPartition
<1> QED BY <1>1, <1>2
----------------------------------------------------------------------------
(* The framework's tables.                                                  *)

\* What begins a text.
LEMMA HeadOfConcat ==
    ASSUME NEW S, NEW s \in Seq(S), NEW t \in Seq(S), NEW i \in 1 .. Len(s)
    PROVE  (s \o t)[i] = s[i]
<1>1. Len(s) \in Nat /\ Len(t) \in Nat
    BY LenProperties
<1>2. i \in 1 .. Len(s) + Len(t) /\ i <= Len(s)
    BY <1>1
<1> QED BY <1>2, ConcatProperties

\* What an identifier says of its parts.
LEMMA IdentParts ==
    ASSUME NEW S, NEW s \in Seq(S)
    PROVE  IsIdent(s) <=> /\ Len(s) # 0 /\ s[1] \in Words
                          /\ \A i \in 1 .. Len(s) : s[i] \in Words \union {"1", "bar"}
<1>1. DOMAIN s = 1 .. Len(s) /\ Len(s) \in Nat /\ (s = <<>> <=> Len(s) = 0)
    BY EmptySeq, LenProperties
<1> QED BY <1>1 DEF IsIdent

\* A table is a word, or two words and a bar; its last word says which of the two.
LEMMA TableParts ==
    ASSUME NEW S, Words \union {"bar"} \subseteq S, NEW t \in Tables
    PROVE  /\ t \in Seq(S) /\ Len(t) \in {1, 3}
           /\ Len(t) = 1 <=> t[Len(t)] \in {"config", "lock"}
           /\ t[1] \in Words /\ \A i \in 1 .. Len(t) : t[i] \in Words \union {"bar"}
<1>1. ASSUME NEW a \in Words PROVE <<a>> \in Seq(S) /\ Len(<<a>>) = 1 /\ <<a>>[1] = a
    BY <1>1
<1>2. ASSUME NEW a \in Words
      PROVE  /\ <<"config", "bar", a>> \in Seq(S) /\ Len(<<"config", "bar", a>>) = 3
             /\ <<"config", "bar", a>>[1] = "config" /\ <<"config", "bar", a>>[2] = "bar" /\ <<"config", "bar", a>>[3] = a
    <2>1. "config" \in S /\ "bar" \in S /\ a \in S
        BY <1>2 DEF Words
    <2> QED BY <2>1
<1>3. CASE \E a \in {"config", "lock"} : t = <<a>>
    BY <1>1, <1>3 DEF Words
<1>4. CASE \E a \in {"revision", "history"} : t = <<"config", "bar", a>>
    <2>1. PICK a \in {"revision", "history"} : t = <<"config", "bar", a>>
        BY <1>4
    <2>2. a \in Words /\ "config" \in Words /\ a \notin {"config", "lock"}
        BY DEF Words
    <2>3. t \in Seq(S) /\ Len(t) = 3 /\ t[1] = "config" /\ t[2] = "bar" /\ t[3] = a
        BY <1>2, <2>1, <2>2
    <2> QED BY <2>2, <2>3
<1> QED BY <1>3, <1>4 DEF Tables

\* A prefix is nothing, or an identifier.
LEMMA PrefixIs ==
    ASSUME NEW S, "bar" \in S, NEW custom \in SUBSET Seq(S), NEW appName \in Seq(S), NEW p \in TablePrefix(custom, appName)
    PROVE  p \in Seq(S) /\ (p = <<>> \/ IsIdent(p))
<1>1. CASE custom = {<<>>}
    BY <1>1 DEF TablePrefix
<1>2. CASE custom # {<<>>}
    <2>1. PICK n : /\ p = Append(n, "bar") /\ IsIdent(n)
                   /\ (\E c \in custom : n = StripSuffix(c)) \/ n = appName
        BY <1>2 DEF TablePrefix
    <2>2. ASSUME NEW c \in Seq(S) PROVE StripSuffix(c) \in Seq(S)
        <3>1. Len(c) \in Nat /\ \A i \in 1 .. Len(c) : c[i] \in S
            BY LenProperties, ElementOfSeq
        <3>2. SubSeq(c, 1, Len(c) - 1) \in Seq(S)
            <4>1. Len(c) - 1 \in Int /\ \A i \in 1 .. Len(c) - 1 : c[i] \in S
                BY <3>1
            <4> QED BY <4>1, SubSeqProperties
        <3> QED BY <3>2 DEF StripSuffix
    <2>3. n \in Seq(S)
        BY <2>1, <2>2
    <2>4. Len(n) \in Nat /\ Len(n) # 0 /\ n[1] \in Words /\ \A i \in 1 .. Len(n) : n[i] \in Words \union {"1", "bar"}
        BY <2>1, <2>3, IdentParts, LenProperties
    <2>5. /\ p \in Seq(S) /\ Len(p) = Len(n) + 1
          /\ \A i \in 1 .. Len(n) : p[i] = n[i]
          /\ p[Len(n) + 1] = "bar"
        BY <2>1, <2>3, AppendProperties
    <2>6. \A i \in 1 .. Len(p) : p[i] \in Words \union {"1", "bar"}
        BY <2>4, <2>5
    <2>7. IsIdent(p)
        BY <2>4, <2>5, <2>6, IdentParts
    <2> QED BY <2>5, <2>7
<1> QED BY <1>1, <1>2

\* Components whose prefixes differ have no table in common, whatever is configured.
THEOREM TablesApartCorrect ==
    ASSUME NEW Char, NEW custom1 \in SUBSET Seq(Char), NEW custom2 \in SUBSET Seq(Char),
           NEW appName1 \in Seq(Char), NEW appName2 \in Seq(Char)
    PROVE  \A p \in TablePrefix(custom1, appName1), q \in TablePrefix(custom2, appName2) : TablesApart(p, q)
<1> DEFINE S == Char \union {"bar"} \union Words
<1> SUFFICES ASSUME NEW p \in TablePrefix(custom1, appName1), NEW q \in TablePrefix(custom2, appName2)
             PROVE  TablesApart(p, q)
    OBVIOUS
<1>1. p \in Seq(S) /\ q \in Seq(S) /\ (p = <<>> \/ IsIdent(p))
    <2>1. ASSUME NEW c, c \in Seq(Char) PROVE c \in Seq(S)
        BY <2>1, WiderSeq
    <2>2. custom1 \in SUBSET Seq(S) /\ custom2 \in SUBSET Seq(S) /\ appName1 \in Seq(S) /\ appName2 \in Seq(S) /\ "bar" \in S
        BY <2>1
    <2> HIDE DEF S
    <2> QED BY <2>2, PrefixIs
<1>2. ASSUME NEW t \in Tables
      PROVE  /\ t \in Seq(S) /\ Len(t) \in {1, 3}
             /\ Len(t) = 1 <=> t[Len(t)] \in {"config", "lock"}
             /\ t[1] \in Words /\ \A i \in 1 .. Len(t) : t[i] \in Words \union {"bar"}
    BY <1>2, TableParts
<1> HIDE DEF S
<1>3. ASSUME NEW x \in Seq(S), NEW t \in Tables
      PROVE  /\ x \o t \in Seq(S) /\ Len(x) \in Nat /\ Len(x \o t) = Len(x) + Len(t)
             /\ \A i \in 1 .. Len(x) + Len(t) : (x \o t)[i] = IF i <= Len(x) THEN x[i] ELSE t[i - Len(x)]
    BY <1>2, ConcatProperties, LenProperties
\* The last word of a table says how long its name is, and what remains is the prefix.
<1>4. ASSUME NEW t \in Tables, NEW u \in Tables, p \o t = q \o u PROVE p = q
    <2>1. (p \o t)[Len(p) + Len(t)] = t[Len(t)] /\ (q \o u)[Len(q) + Len(u)] = u[Len(u)]
        <3>1. ASSUME NEW x \in Seq(S), NEW v \in Tables PROVE (x \o v)[Len(x) + Len(v)] = v[Len(v)]
            <4>1. Len(v) \in {1, 3}
                BY <1>2
            <4>2. Len(x) \in Nat
                BY LenProperties
            <4>3. ASSUME NEW m \in Nat, NEW n \in {1, 3} PROVE m + n \in 1 .. m + n /\ ~ (m + n <= m) /\ m + n - m = n
                OBVIOUS
            <4>4. Len(x) + Len(v) \in 1 .. Len(x) + Len(v) /\ ~ (Len(x) + Len(v) <= Len(x)) /\ Len(x) + Len(v) - Len(x) = Len(v)
                BY <4>1, <4>2, <4>3
            <4> QED BY <1>3, <4>4
        <3> QED BY <1>1, <3>1
    <2>2. Len(p) + Len(t) = Len(q) + Len(u)
        BY <1>1, <1>3, <1>4
    <2>3. Len(t) = Len(u)
        BY <1>2, <1>4, <2>1, <2>2
    <2>4. Len(p) = Len(q)
        BY <1>1, <1>2, <1>3, <2>2, <2>3
    <2>5. ASSUME NEW i \in 1 .. Len(p) PROVE p[i] = q[i]
        <3>1. i \in 1 .. Len(p) + Len(t) /\ i \in 1 .. Len(q) + Len(u) /\ i <= Len(p) /\ i <= Len(q)
            BY <1>1, <1>2, <1>3, <2>4
        <3> QED BY <1>1, <1>3, <1>4, <3>1
    <2> QED BY <1>1, <2>4, <2>5, SeqEqual
<1>5. ASSUME NEW t \in Tables PROVE IsIdent(p \o t)
    <2>1. CASE p = <<>>
        <3>1. p \o t = t
            BY <1>2, <2>1, ConcatEmptySeq
        <3> QED BY <1>2, <3>1, IdentParts
    <2>2. CASE IsIdent(p)
        <3>1. Len(p) # 0 /\ p[1] \in Words /\ \A i \in 1 .. Len(p) : p[i] \in Words \union {"1", "bar"}
            BY <1>1, <2>2, IdentParts
        <3>2. (p \o t)[1] = p[1]
            BY <1>1, <1>2, <1>3, <3>1
        <3>3. ASSUME NEW i \in 1 .. Len(p \o t) PROVE (p \o t)[i] \in Words \union {"1", "bar"}
            <4>1. i \in 1 .. Len(p) + Len(t)
                BY <1>1, <1>3
            <4>2. CASE i <= Len(p)
                BY <1>1, <1>3, <3>1, <4>1, <4>2
            <4>3. CASE ~ (i <= Len(p))
                <5>1. i - Len(p) \in 1 .. Len(t)
                    BY <1>1, <1>2, <1>3, <4>1, <4>3
                <5> QED BY <1>1, <1>2, <1>3, <4>1, <4>3, <5>1
            <4> QED BY <4>2, <4>3
        <3>4. Len(p \o t) # 0
            BY <1>1, <1>2, <1>3
        <3> QED BY <1>1, <1>3, <3>1, <3>2, <3>3, <3>4, IdentParts
    <2> QED BY <1>1, <2>1, <2>2
<1> QED BY <1>4, <1>5 DEF TablesApart

----------------------------------------------------------------------------
(* Numbered enums.                                                          *)

\* What the parser of a macro has read: prefixes and codes are texts.
IsEnum(enum, Ch) == /\ enum.derive \in {"hy_err", "hy_lock_type", "hy_lock_key"} /\ enum.project \in Seq(Ch)
                    /\ enum.module \in SUBSET Seq(Ch) /\ enum.internal \in SUBSET Seq(Ch)
                    /\ \A v \in DOMAIN enum.variants : enum.variants[v].code \in SUBSET Seq(Ch)

\* The prefix of an enum is a text.
LEMMA ResolvedHead ==
    ASSUME NEW Ch, NEW enum, IsEnum(enum, Ch), NEW head \in C!Resolve(enum)
    PROVE  head \in Seq(Ch)
<1>1. enum.project \in Seq(Ch) /\ enum.module \union enum.internal \in SUBSET Seq(Ch)
    BY DEF IsEnum
<1>2. head = enum.project \o C!Only(enum.module \union enum.internal, <<>>)
    BY DEF C!Resolve
<1>3. C!Only(enum.module \union enum.internal, <<>>) \in Seq(Ch)
    BY <1>1 DEF C!Only
<1> QED BY <1>1, <1>2, <1>3, ConcatProperties

\* What a variant registers has the length of its kind, and an error is no success.
LEMMA Registered ==
    ASSUME NEW Ch, NEW enum, IsEnum(enum, Ch), NEW head \in C!Resolve(enum), NEW v \in DOMAIN enum.variants,
           NEW reg \in C!Registration(enum, head, enum.variants[v])
    PROVE  /\ reg.derive = enum.derive /\ reg.code \in Seq(Ch)
           /\ Len(reg.code) = IF enum.derive = "hy_err" THEN 8 ELSE 9
           /\ enum.derive = "hy_err" => reg.code # C!SuccessCode
<1>1. head \in Seq(Ch)
    BY ResolvedHead
<1>2. reg.code \in C!Full(enum, head, enum.variants[v]) /\ reg.derive = enum.derive
    BY DEF C!Registration
<1>3. PICK c \in enum.variants[v].code : reg.code = head \o c /\ C!IsNumeric(c, C!Total[enum.derive] - Len(head))
    BY <1>2 DEF C!Full
<1>4. c \in Seq(Ch) /\ Len(c) = C!Total[enum.derive] - Len(head)
    BY <1>3 DEF C!IsNumeric, IsEnum
<1>5. reg.code \in Seq(Ch) /\ Len(reg.code) = Len(head) + Len(c)
    BY <1>1, <1>3, <1>4, ConcatProperties
<1>6. C!Total[enum.derive] = IF enum.derive = "hy_err" THEN 8 ELSE 9
    BY DEF C!Total, IsEnum
<1>7. Len(head) \in Nat
    BY <1>1, LenProperties
<1>8. Len(reg.code) = C!Total[enum.derive]
    BY <1>4, <1>5, <1>6, <1>7
<1>9. enum.derive = "hy_err" => reg.code # C!SuccessCode
    BY <1>2 DEF C!Full
<1> QED BY <1>2, <1>5, <1>6, <1>8, <1>9

\* The same of an enum that compiles.
LEMMA Expanded ==
    ASSUME NEW Ch, NEW enum, IsEnum(enum, Ch), NEW regs \in C!Expand(enum)
    PROVE  /\ DOMAIN regs = DOMAIN enum.variants
           /\ \A v \in DOMAIN enum.variants :
                  /\ regs[v].derive = enum.derive /\ regs[v].code \in Seq(Ch)
                  /\ Len(regs[v].code) = IF enum.derive = "hy_err" THEN 8 ELSE 9
                  /\ enum.derive = "hy_err" => regs[v].code # C!SuccessCode
<1>1. PICK head \in C!Resolve(enum) :
          /\ \A v \in DOMAIN enum.variants : C!Registration(enum, head, enum.variants[v]) # {}
          /\ regs = [v \in DOMAIN enum.variants |-> C!Only(C!Registration(enum, head, enum.variants[v]), 0)]
    BY DEF C!Expand
<1>2. ASSUME NEW v \in DOMAIN enum.variants PROVE regs[v] \in C!Registration(enum, head, enum.variants[v])
    BY <1>1 DEF C!Only
<1> QED BY <1>1, <1>2, Registered

\* What is linked at each place: an error has eight digits and is no success, all else has nine.
LEMMA LinkedCodes ==
    ASSUME NEW Ch, "9" \in Ch, NEW enums, \A e \in DOMAIN enums : IsEnum(enums[e], Ch) /\ C!Expand(enums[e]) # {},
           NEW p \in C!Places(enums) \union {C!Framework}
    PROVE  LET reg == C!Linked(enums)[p] IN
           /\ reg.derive \in {"hy_err", "hy_lock_type", "hy_lock_key"} /\ reg.code \in Seq(Ch)
           /\ Len(reg.code) = IF reg.derive = "hy_err" THEN 8 ELSE 9
           /\ reg.derive = "hy_err" => reg.code # C!SuccessCode
<1> DEFINE reg == C!Linked(enums)[p]
<1>1. CASE p = C!Framework
    <2>1. reg = C!Builtin
        BY <1>1 DEF C!Linked
    <2>2. reg.derive = "hy_lock_type" /\ reg.code = [i \in 1 .. 9 |-> "9"]
        BY <2>1 DEF C!Builtin, C!LockCode
    <2>3. [i \in 1 .. 9 |-> "9"] \in Seq(Ch) /\ Len([i \in 1 .. 9 |-> "9"]) = 9
        OBVIOUS
    <2> HIDE DEF reg
    <2>4. reg.derive # "hy_err"
        BY <2>2
    <2> QED BY <2>2, <2>3, <2>4 DEF reg
<1>2. CASE p # C!Framework
    <2>1. PICK e \in DOMAIN enums : p[1] = e /\ p[2] \in DOMAIN enums[e].variants
        BY <1>2 DEF C!Places
    <2>2. reg = C!Only(C!Expand(enums[e]), <<>>)[p[2]]
        BY <1>2, <2>1 DEF C!Linked
    <2>3. C!Only(C!Expand(enums[e]), <<>>) \in C!Expand(enums[e])
        BY DEF C!Only
    <2>4. IsEnum(enums[e], Ch) /\ enums[e].derive \in {"hy_err", "hy_lock_type", "hy_lock_key"}
        BY DEF IsEnum
    <2> HIDE DEF reg
    <2>5. /\ reg.derive = enums[e].derive /\ reg.code \in Seq(Ch)
          /\ Len(reg.code) = IF enums[e].derive = "hy_err" THEN 8 ELSE 9
          /\ enums[e].derive = "hy_err" => reg.code # C!SuccessCode
        BY <2>1, <2>2, <2>3, <2>4, Expanded
    <2> QED BY <2>4, <2>5 DEF reg
<1> QED BY <1>1, <1>2

\* In a program that starts no code is given twice, whichever crates its enums are of, and no
\* text of a key is that of another key, or of the lock of a number.
THEOREM CodesApartCorrect ==
    ASSUME NEW Ch, "9" \in Ch, NEW enums, \A e \in DOMAIN enums : IsEnum(enums[e], Ch),
           0 \notin DOMAIN enums, NEW texts \in SUBSET Seq(Ch)
    PROVE  C!CodesApart(enums, texts)
<1> DEFINE linked == C!Linked(enums)
           places == C!Places(enums) \union {C!Framework}
<1> SUFFICES ASSUME NEW r \in C!Program(enums)
             PROVE  LET reg == [p \in places |-> IF p \in DOMAIN r.errs THEN r.errs[p] ELSE r.locks[p]]
                        keys == {p \in C!Places(enums) : reg[p].derive = "hy_lock_key"}
                    IN  /\ \A p, q \in DOMAIN reg : p # q => reg[p].code # reg[q].code
                        /\ \A p \in DOMAIN r.errs : r.errs[p].code # C!SuccessCode
                        /\ \A p \in keys, s \in texts : \A a \in C!KeyText(reg[p], reg[p].vars, s) :
                               /\ \A q \in keys \ {p}, t \in texts : a \notin C!KeyText(reg[q], reg[q].vars, t)
                               /\ \A t \in texts : a # C!I64KeyText(t)
    BY DEF C!CodesApart
<1> DEFINE reg == [p \in places |-> IF p \in DOMAIN r.errs THEN r.errs[p] ELSE r.locks[p]]
           keys == {p \in C!Places(enums) : reg[p].derive = "hy_lock_key"}
<1>1. /\ r = C!Registries(enums) /\ C!Build(r.errs) # {} /\ C!Build(r.locks) # {}
      /\ \A e \in DOMAIN enums : C!Expand(enums[e]) # {}
    BY DEF C!Program
<1>2. DOMAIN linked = places
    BY DEF C!Linked
<1>3. ASSUME NEW p \in places
      PROVE  /\ linked[p].derive \in {"hy_err", "hy_lock_type", "hy_lock_key"} /\ linked[p].code \in Seq(Ch)
             /\ Len(linked[p].code) = IF linked[p].derive = "hy_err" THEN 8 ELSE 9
             /\ linked[p].derive = "hy_err" => linked[p].code # C!SuccessCode
    BY <1>1, LinkedCodes
<1>4. /\ r.errs = C!Slice(linked, FALSE) /\ r.locks = C!Slice(linked, TRUE)
    BY <1>1 DEF C!Registries
<1> HIDE DEF linked, places
<1>5. /\ DOMAIN r.errs = {p \in places : linked[p].derive = "hy_err"}
      /\ DOMAIN r.locks = {p \in places : linked[p].derive # "hy_err"}
      /\ \A p \in DOMAIN r.errs : r.errs[p] = linked[p]
      /\ \A p \in DOMAIN r.locks : r.locks[p] = linked[p]
    BY <1>2, <1>4 DEF C!Slice, C!IsLock
<1>6. \A p \in places : reg[p] = linked[p]
    BY <1>5
<1>7. ASSUME NEW p \in places, NEW q \in places, p # q PROVE linked[p].code # linked[q].code
    <2>1. CASE p \in DOMAIN r.errs /\ q \in DOMAIN r.errs
        BY <1>1, <1>5, <1>7, <2>1 DEF C!Build, C!Repeated
    <2>2. CASE p \in DOMAIN r.locks /\ q \in DOMAIN r.locks
        BY <1>1, <1>5, <1>7, <2>2 DEF C!Build, C!Repeated
    <2>3. CASE (p \in DOMAIN r.errs) # (q \in DOMAIN r.errs)
        <3>1. Len(linked[p].code) # Len(linked[q].code)
            BY <1>3, <1>5, <2>3
        <3> QED BY <3>1
    <2> QED BY <1>5, <2>1, <2>2, <2>3
<1>8. ASSUME NEW a, NEW b, a \in Seq(Ch), b \in Seq(Ch), Len(a) = 9, Len(b) = 9, NEW s \in texts, NEW t \in texts,
             a \o <<":">> \o s = b \o <<":">> \o t
      PROVE  a = b
    <2> DEFINE Wide == Ch \union {":"}
    <2>1. a \in Seq(Wide) /\ b \in Seq(Wide) /\ s \in Seq(Wide) /\ t \in Seq(Wide) /\ <<":">> \in Seq(Wide)
        BY <1>8, WiderSeq
    <2> HIDE DEF Wide
    <2>2. ASSUME NEW x \in Seq(Wide), NEW y \in Seq(Wide), Len(x) = 9, NEW i \in 1 .. 9
          PROVE  (x \o <<":">> \o y)[i] = x[i]
        <3> DEFINE m == <<":">>
        <3>1. m \in Seq(Wide) /\ Len(m) = 1
            BY <2>1
        <3> HIDE DEF m
        <3>2. x \o m \in Seq(Wide) /\ Len(x \o m) = Len(x) + Len(m)
            BY <3>1, ConcatProperties
        <3>3. i \in 1 .. Len(x) /\ i \in 1 .. Len(x \o m)
            BY <2>2, <3>1, <3>2
        <3>4. (x \o m)[i] = x[i]
            BY <3>1, <3>3, HeadOfConcat
        <3>5. ((x \o m) \o y)[i] = (x \o m)[i]
            BY <3>2, <3>3, HeadOfConcat
        <3> QED BY <3>4, <3>5 DEF m
    <2>3. ASSUME NEW i \in 1 .. 9 PROVE a[i] = b[i]
        <3>1. (a \o <<":">> \o s)[i] = a[i] /\ (b \o <<":">> \o t)[i] = b[i]
            BY <1>8, <2>1, <2>2
        <3> QED BY <1>8, <3>1
    <2> QED BY <1>8, <2>3, SeqEqual
<1>9. ASSUME NEW p \in keys
      PROVE  p \in places /\ p # C!Framework /\ linked[p].code \in Seq(Ch) /\ Len(linked[p].code) = 9
    <2>1. p \in places /\ p # C!Framework /\ linked[p].derive = "hy_lock_key"
        <3>1. p \in C!Places(enums) /\ p \in places /\ reg[p].derive = "hy_lock_key"
            BY DEF places
        <3>2. p # C!Framework
            BY <3>1 DEF C!Places, C!Framework
        <3> QED BY <1>6, <3>1, <3>2
    <2>2. linked[p].derive # "hy_err"
        BY <2>1
    <2> QED BY <1>3, <2>1, <2>2
<1>10. C!Framework \in places /\ linked[C!Framework].code = C!LockCode /\ C!LockCode \in Seq(Ch) /\ Len(C!LockCode) = 9
    <2>1. C!Framework \in places
        BY DEF places
    <2>2. linked[C!Framework] = C!Builtin
        BY DEF linked, C!Linked
    <2>3. linked[C!Framework].code = C!LockCode /\ linked[C!Framework].derive = "hy_lock_type"
        BY <2>2 DEF C!Builtin
    <2>4. linked[C!Framework].derive # "hy_err"
        BY <2>3
    <2> QED BY <1>3, <2>1, <2>3, <2>4
<1>11. \A p, q \in DOMAIN reg : p # q => reg[p].code # reg[q].code
    BY <1>6, <1>7
<1>12. \A p \in DOMAIN r.errs : r.errs[p].code # C!SuccessCode
    BY <1>3, <1>5
<1>13. ASSUME NEW p \in keys, NEW s \in texts, NEW a \in C!KeyText(reg[p], reg[p].vars, s)
       PROVE  /\ \A q \in keys \ {p}, t \in texts : a \notin C!KeyText(reg[q], reg[q].vars, t)
              /\ \A t \in texts : a # C!I64KeyText(t)
    <2>1. a = linked[p].code \o <<":">> \o s
        BY <1>6, <1>9 DEF C!KeyText
    <2>2. ASSUME NEW q \in keys \ {p}, NEW t \in texts, a \in C!KeyText(reg[q], reg[q].vars, t) PROVE FALSE
        <3>1. a = linked[q].code \o <<":">> \o t
            BY <1>6, <1>9, <2>2 DEF C!KeyText
        <3> DEFINE c == linked[p].code
                   d == linked[q].code
        <3>2. /\ c \in Seq(Ch) /\ Len(c) = 9 /\ d \in Seq(Ch) /\ Len(d) = 9
              /\ c \o <<":">> \o s = d \o <<":">> \o t
            BY <1>9, <2>1, <3>1
        <3> HIDE DEF c, d
        <3>3. c = d
            BY <1>8, <3>2
        <3> QED BY <1>7, <1>9, <3>3 DEF c, d
    <2>3. ASSUME NEW t \in texts, a = C!I64KeyText(t) PROVE FALSE
        <3>1. a = C!LockCode \o <<":">> \o t
            BY <2>3 DEF C!I64KeyText
        <3> DEFINE c == linked[p].code
        <3>2. /\ c \in Seq(Ch) /\ Len(c) = 9 /\ C!LockCode \in Seq(Ch) /\ Len(C!LockCode) = 9
              /\ c \o <<":">> \o s = C!LockCode \o <<":">> \o t
            BY <1>9, <1>10, <2>1, <3>1
        <3> HIDE DEF c
        <3>3. c = C!LockCode
            BY <1>8, <3>2
        <3> QED BY <1>7, <1>9, <1>10, <3>3 DEF c
    <2> QED BY <2>2, <2>3
<1> QED BY <1>11, <1>12, <1>13 DEF places

-----------------------------------------------------------------------------
(* Settings of a database component.                                        *)

\* What is read of a key is what one of its pairs says.
Taken(pairs, k) == \E i \in DOMAIN pairs : pairs[i][1] = k /\ DriverReads(pairs)[k] = pairs[i][2]

\* Of the pairs of a URL the driver takes one for every key.
LEMMA DriverTakes ==
    ASSUME NEW pairs, \E n \in Nat : DOMAIN pairs = 1 .. n, NEW k, NEW j \in DOMAIN pairs, pairs[j][1] = k
    PROVE  k \in DOMAIN DriverReads(pairs) /\ Taken(pairs, k)
<1> DEFINE S == {i \in DOMAIN pairs : pairs[i][1] = k}
           Greatest(i) == i \in DOMAIN pairs /\ pairs[i][1] = k /\ \A h \in DOMAIN pairs : pairs[h][1] = k => h <= i
           last == CHOOSE i \in DOMAIN pairs : pairs[i][1] = k /\ \A h \in DOMAIN pairs : pairs[h][1] = k => h <= i
<1>1. \E x \in S : \A y \in S : y <= x
    <2>0. PICK n \in Nat : DOMAIN pairs = 1 .. n
        OBVIOUS
    <2>1. S \in SUBSET (0 .. n) /\ S # {}
        BY <2>0
    <2> HIDE DEF S
    <2> QED BY <2>1, GreatestOf
<1>2. \E i \in DOMAIN pairs : pairs[i][1] = k /\ \A h \in DOMAIN pairs : pairs[h][1] = k => h <= i
    BY <1>1
<1>3. last \in DOMAIN pairs /\ pairs[last][1] = k
    BY <1>2
<1>4. k \in DOMAIN DriverReads(pairs) /\ DriverReads(pairs)[k] = pairs[last][2]
    BY DEF DriverReads
<1> QED BY <1>3, <1>4 DEF Taken

\* The parameters that a connection carries, of those of the URL.
Carries(read, params, engine, appName) ==
    /\ \A k \in DOMAIN read : k = "application_name" \/ \E i \in DOMAIN params : params[i] = <<k, read[k]>>
    /\ \A i \in DOMAIN params : params[i][1] \in DOMAIN read
    /\ engine = "postgres" /\ appName # <<>> => "application_name" \in DOMAIN read /\ read["application_name"] = appName

\* What the driver reads of a URL is what somebody wrote, of every parameter, and the name.
LEMMA UrlCarries ==
    ASSUME NEW engine, NEW K, NEW V, NEW params \in Seq(K \X V), NEW appName, NEW pairs \in Url(engine, params, appName)
    PROVE  Carries(DriverReads(pairs), params, engine, appName)
<1> DEFINE name == "application_name"
<1>0. Len(params) \in Nat /\ DOMAIN params = 1 .. Len(params) /\ \A i \in 1 .. Len(params) : params[i] \in K \X V
    OBVIOUS
<1>1. \A i \in DOMAIN params : params[i] = <<params[i][1], params[i][2]>>
    BY <1>0
<1>2. ASSUME pairs = params, engine = "postgres" => appName = <<>>
      PROVE  Carries(DriverReads(pairs), params, engine, appName)
    <2>1. ASSUME NEW i \in DOMAIN params PROVE params[i][1] \in DOMAIN DriverReads(params)
        BY DEF DriverReads
    <2>2. ASSUME NEW k \in DOMAIN DriverReads(params) PROVE \E i \in DOMAIN params : params[i] = <<k, DriverReads(params)[k]>>
        <3>1. PICK j \in DOMAIN params : params[j][1] = k
            BY DEF DriverReads
        <3>2. PICK i \in DOMAIN params : params[i][1] = k /\ DriverReads(params)[k] = params[i][2]
            <4>0. j \in DOMAIN params /\ params[j][1] = k
                BY <3>1
            <4>1. \E n \in Nat : DOMAIN params = 1 .. n
                BY <1>0
            <4>2. Taken(params, k)
                BY <4>0, <4>1, DriverTakes
            <4> QED BY <4>2 DEF Taken
        <3> QED BY <1>1, <3>2
    <2> QED BY <1>2, <2>1, <2>2 DEF Carries
<1>3. ASSUME engine = "postgres", appName # <<>>, \A i \in DOMAIN params : params[i][1] # name,
             pairs = params \o PercentEncode(appName)
      PROVE  Carries(DriverReads(pairs), params, engine, appName)
    <2> DEFINE n == Len(params)
    <2>1. /\ DOMAIN pairs = 1 .. n + 1
          /\ \A i \in 1 .. n : pairs[i] = params[i]
          /\ pairs[n + 1] = <<name, appName>>
        <3>1. PercentEncode(appName) \in Seq({<<name, appName>>}) /\ Len(PercentEncode(appName)) = 1 /\ PercentEncode(appName)[1] = <<name, appName>>
            BY DEF PercentEncode
        <3> DEFINE T == (K \X V) \union {<<name, appName>>}
        <3>2. params \in Seq(T) /\ PercentEncode(appName) \in Seq(T)
            <4> HIDE DEF name
            <4> QED BY <1>0, <3>1
        <3> DEFINE tail == PercentEncode(appName)
        <3> HIDE DEF name, T, tail
        <3>3. /\ params \o tail \in Seq(T) /\ Len(params \o tail) = Len(params) + Len(tail)
              /\ \A i \in 1 .. Len(params) + Len(tail) : (params \o tail)[i] = IF i <= Len(params) THEN params[i] ELSE tail[i - Len(params)]
            <4>1. tail \in Seq(T)
                BY <3>2 DEF tail
            <4> QED BY <3>2, <4>1, ConcatProperties
        <3>3a. Len(tail) = 1 /\ pairs = params \o tail /\ tail[1] = <<name, appName>>
            BY <1>3, <3>1 DEF tail
        <3>4. DOMAIN pairs = 1 .. n + 1 /\ \A i \in 1 .. n + 1 : pairs[i] = IF i <= n THEN params[i] ELSE tail[i - n]
            BY <3>3, <3>3a
        <3>5. \A i \in 1 .. n : i \in 1 .. n + 1 /\ i <= n
            BY <1>0
        <3>6. n + 1 \in 1 .. n + 1 /\ ~(n + 1 <= n) /\ (n + 1) - n = 1
            BY <1>0
        <3> QED BY <3>3a, <3>4, <3>5, <3>6
    <2> HIDE DEF n
    <2>2. n \in Nat /\ n + 1 \in Nat /\ DOMAIN params = 1 .. n /\ n + 1 \in 1 .. n + 1 /\ \A i \in 1 .. n : i \in 1 .. n + 1
        BY <1>0 DEF n
    <2>3. \A i \in DOMAIN params : params[i][1] \in DOMAIN DriverReads(pairs)
        BY <2>1, <2>2 DEF DriverReads
    <2>4. ASSUME NEW k \in DOMAIN DriverReads(pairs), k # name PROVE \E i \in DOMAIN params : params[i] = <<k, DriverReads(pairs)[k]>>
        <3>1. PICK j \in DOMAIN pairs : pairs[j][1] = k
            BY DEF DriverReads
        <3>2. PICK i \in DOMAIN pairs : pairs[i][1] = k /\ DriverReads(pairs)[k] = pairs[i][2]
            <4>0. j \in DOMAIN pairs /\ pairs[j][1] = k
                BY <3>1
            <4>1. \E m \in Nat : DOMAIN pairs = 1 .. m
                BY <2>1, <2>2
            <4>2. Taken(pairs, k)
                BY <4>0, <4>1, DriverTakes
            <4> QED BY <4>2 DEF Taken
        <3>3. pairs[n + 1][1] = name
            BY <2>1
        <3> HIDE DEF name
        <3>4. i # n + 1
            BY <2>4, <3>2, <3>3
        <3>5. i \in 1 .. n
            BY <2>1, <2>2, <3>2, <3>4
        <3> QED BY <1>1, <2>1, <2>2, <3>2, <3>5
    <2>5. name \in DOMAIN DriverReads(pairs) /\ DriverReads(pairs)[name] = appName
        <3>1. pairs[n + 1][1] = name /\ pairs[n + 1][2] = appName /\ n + 1 \in DOMAIN pairs
            BY <2>1, <2>2
        <3>2. name \in DOMAIN DriverReads(pairs) /\ \E i \in DOMAIN pairs : pairs[i][1] = name /\ DriverReads(pairs)[name] = pairs[i][2]
            <4> HIDE DEF name
            <4>1. \E m \in Nat : DOMAIN pairs = 1 .. m
                BY <2>1, <2>2
            <4> QED BY <3>1, <4>1, DriverTakes DEF Taken
        <3>3. PICK i \in DOMAIN pairs : pairs[i][1] = name /\ DriverReads(pairs)[name] = pairs[i][2]
            BY <3>2
        <3>4. i = n + 1
            <4> HIDE DEF name
            <4>1. i \in 1 .. n + 1 /\ (i \in 1 .. n \/ i = n + 1)
                BY <2>1, <2>2
            <4>2. i \notin 1 .. n
                BY <1>3, <2>1, <2>2, <3>3
            <4> QED BY <4>1, <4>2
        <3> QED BY <3>1, <3>2, <3>3, <3>4
    <2> QED BY <2>3, <2>4, <2>5 DEF Carries
<1>4. \/ pairs = params /\ (engine = "postgres" => appName = <<>>)
      \/ /\ engine = "postgres" /\ appName # <<>> /\ \A i \in DOMAIN params : params[i][1] # name
         /\ pairs = params \o PercentEncode(appName)
    BY DEF Url
<1> QED BY <1>2, <1>3, <1>4

\* So are the options of a connection.
LEMMA OptionsCarry ==
    ASSUME NEW engine, NEW K, NEW V, NEW target, target.params \in Seq(K \X V), NEW appName,
           NEW o \in Options(engine, target, appName)
    PROVE  o.connect = target.connect /\ Carries(o.params, target.params, engine, appName)
<1>1. PICK pairs \in Url(engine, target.params, appName) : o = [connect |-> target.connect, params |-> DriverReads(pairs)]
    BY DEF Options
<1> QED BY <1>1, UrlCarries

\* What the properties say of a pool's options; a suffix of the name changes none of it.
Reaches(o, target, engine, appName) ==
    /\ o.connect = target.connect
    /\ \A k \in DOMAIN o.params : k = "application_name" \/ \E i \in DOMAIN target.params : target.params[i] = <<k, o.params[k]>>
    /\ \A i \in DOMAIN target.params : target.params[i][1] \in DOMAIN o.params
    /\ engine = "postgres" /\ appName # <<>> => SubSeq(o.params["application_name"], 1, Len(appName)) = appName

\* And so are they when a pool has put its own suffix behind the name.
LEMMA OptionsReach ==
    ASSUME NEW engine, NEW K, NEW V, NEW target, target.params \in Seq(K \X V), NEW A, NEW appName \in Seq(A),
           NEW o \in Options(engine, target, appName), NEW suffix
    PROVE  Reaches(o, target, engine, appName) /\ Reaches(Named(o, suffix), target, engine, appName)
<1> DEFINE connect == target.connect
           params == target.params
<1>0. connect = target.connect /\ params = target.params
    OBVIOUS
<1>1. o.connect = connect /\ Carries(o.params, params, engine, appName)
    BY OptionsCarry
<1> HIDE DEF connect, params
<1>2. SubSeq(appName, 1, Len(appName)) = appName
    OBVIOUS
<1>3. SubSeq(Append(appName, suffix), 1, Len(appName)) = appName
    <2> DEFINE B == A \union {suffix}
               n == Len(appName)
               s == Append(appName, suffix)
    <2>1. n \in Nat /\ appName \in Seq(B) /\ suffix \in B /\ DOMAIN appName = 1 .. n
        OBVIOUS
    <2>2. s \in Seq(B) /\ Len(s) = n + 1 /\ \A i \in 1 .. n : s[i] = appName[i]
        <3> HIDE DEF B
        <3> QED BY <2>1, AppendProperties
    <2> HIDE DEF B, s, n
    <2>3. SubSeq(s, 1, n) \in Seq(B) /\ Len(SubSeq(s, 1, n)) = n /\ \A i \in 1 .. n : SubSeq(s, 1, n)[i] = s[i]
        <3>1. 1 \in 1 .. Len(s) + 1 /\ n \in 1 - 1 .. Len(s)
            BY <2>1, <2>2
        <3> QED BY <2>1, <2>2, <3>1, SubSeqProperties
    <2>4. SubSeq(s, 1, n) = appName
        <3>1. Len(appName) = n
            BY DEF n
        <3> QED BY <2>1, <2>2, <2>3, <3>1, SeqEqual
    <2> QED BY <2>4 DEF s, n
<1>4. Reaches(o, target, engine, appName)
    BY <1>0, <1>1, <1>2 DEF Reaches, Carries
<1> DEFINE named == [k \in DOMAIN o.params |-> IF k = "application_name" THEN Append(o.params[k], suffix) ELSE o.params[k]]
<1>5. PICK pairs : o = [connect |-> connect, params |-> DriverReads(pairs)]
    BY <1>0 DEF Options
<1>6. Named(o, suffix) = [connect |-> connect, params |-> named]
    <2> HIDE DEF named
    <2>1. Named(o, suffix) = [o EXCEPT !.params = named]
        BY DEF Named, named
    <2> QED BY <1>5, <2>1
<1>7. Reaches(Named(o, suffix), target, engine, appName)
    <2>1. \A k \in DOMAIN named : k = "application_name" \/ \E i \in DOMAIN params : params[i] = <<k, named[k]>>
        BY <1>1 DEF Carries
    <2>2. \A i \in DOMAIN params : params[i][1] \in DOMAIN named
        BY <1>1 DEF Carries
    <2>3. engine = "postgres" /\ appName # <<>> => SubSeq(named["application_name"], 1, Len(appName)) = appName
        BY <1>1, <1>3 DEF Carries
    <2> HIDE DEF named
    <2> QED BY <1>0, <1>6, <2>1, <2>2, <2>3 DEF Reaches
<1> QED BY <1>4, <1>7

\* What is written of a section is written once.
AtMostOne(S) == \A s \in S : S = {s}

\* The settings of a component: every section and every setting at most once, and the names and
\* the parameters are sequences.
IsWritten(c, K, V, A) ==
    /\ c.params \in Seq(K \X V) /\ c.appName \in Seq(A)
    /\ AtMostOne(c.pool) /\ AtMostOne(c.log) /\ AtMostOne(c.live) /\ AtMostOne(c.lock)
    /\ \A s \in c.pool : DOMAIN s = {"max", "min", "acquire", "idle", "life", "test", "lazy"}
    /\ \A s \in c.live \union c.lock :
           DOMAIN s.connect = Items /\ s.params \subseteq Seq(K \X V) /\ AtMostOne(s.prefix) /\ s.prefix \subseteq Seq(A)
    /\ \A s \in c.live : AtMostOne(s.poll)
    /\ \A s \in c.lock : AtMostOne(s.max)

\* What is written of a section, or what stands for one that is not.
LEMMA SectionIs ==
    ASSUME NEW S, AtMostOne(S), NEW default
    PROVE  /\ \A s \in S : S = {s} /\ Or(S, default) = s
           /\ S = {} => Or(S, default) = default
BY DEF AtMostOne, Or

\* The parameters of a pool with settings of its own.
LEMMA MergesTo ==
    ASSUME NEW c, NEW K, NEW V, c.params \in Seq(K \X V), NEW s, s.params \subseteq Seq(K \X V)
    PROVE  /\ Merge(s, c).params = Or(s.params, c.params) /\ Merge(s, c).params \in Seq(K \X V)
<1>1. Or(s.params, c.params) \in Seq(K \X V)
    BY DEF Or
<1>2. \A connect, params : [connect |-> connect, params |-> params].connect = connect /\ [connect |-> connect, params |-> params].params = params
    OBVIOUS
<1>3. Merge(s, c).params = Or(s.params, c.params)
    BY <1>2 DEF Merge
<1> QED BY <1>1, <1>3

\* Every pool of a component that starts reaches what its part of the configuration says.
LEMMA PartsReach ==
    ASSUME NEW c, NEW K, NEW V, NEW A, IsWritten(c, K, V, A)
    PROVE  /\ \A p \in Connect(c) : /\ p.for = "pool" /\ Reaches(p.options, c, c.engine, c.appName)
                                    /\ p.sizes = PoolOptions(c) /\ p.log = LogOf(c)
           /\ \A p \in LivePool(c) : /\ p.for = "live" /\ p.keeps \in LiveKeeps(c)
                                     /\ Reaches(p.options, Merge(LiveOf(c), c), c.engine, c.appName)
           /\ \A p \in LockPool(c) :
                  /\ p.for = "lock" /\ p.keeps \in LockKeeps(c)
                  /\ Shares(c) => Reaches(p.options, c, c.engine, c.appName)
                  /\ ~Shares(c) => /\ Reaches(p.options, Merge(LockOf(c), c), c.engine, c.appName)
                                   /\ p.sizes.max = Or(LockOf(c).max, PoolOptions(c).max)
<1>0. c.params \in Seq(K \X V) /\ c.appName \in Seq(A)
    BY DEF IsWritten
<1>1. ASSUME NEW p \in Connect(c)
      PROVE  /\ p.for = "pool" /\ Reaches(p.options, c, c.engine, c.appName)
             /\ p.sizes = PoolOptions(c) /\ p.log = LogOf(c)
    <2>1. PICK o \in Options(c.engine, c, c.appName) :
              p = [for |-> "pool", options |-> o, sizes |-> PoolOptions(c), log |-> LogOf(c), keeps |-> Nothing]
        BY DEF Connect, Pool
    <2> QED BY <1>0, <2>1, OptionsReach
<1>2. ASSUME NEW p \in LivePool(c)
      PROVE  p.for = "live" /\ p.keeps \in LiveKeeps(c) /\ Reaches(p.options, Merge(LiveOf(c), c), c.engine, c.appName)
    <2>1. PICK o \in Options(c.engine, Merge(LiveOf(c), c), c.appName), k \in LiveKeeps(c) :
              p = [for |-> "live", options |-> o, sizes |-> Fixed(c), log |-> {}, keeps |-> k]
        BY DEF LivePool, Pool
    <2>2. LiveOf(c).params \subseteq Seq(K \X V)
        BY SectionIs DEF LiveOf, NoLive, IsWritten
    <2>3. Merge(LiveOf(c), c).params \in Seq(K \X V)
        <3> DEFINE s == LiveOf(c)
        <3>1. c.params \in Seq(K \X V) /\ s.params \subseteq Seq(K \X V)
            BY <1>0, <2>2
        <3> HIDE DEF s
        <3>2. Merge(s, c).params \in Seq(K \X V)
            BY <3>1, MergesTo
        <3> QED BY <3>2 DEF s
    <2> QED BY <1>0, <2>1, <2>3, OptionsReach
<1>3. ASSUME NEW p \in LockPool(c)
      PROVE  /\ p.for = "lock" /\ p.keeps \in LockKeeps(c)
             /\ Shares(c) => Reaches(p.options, c, c.engine, c.appName)
             /\ ~Shares(c) => /\ Reaches(p.options, Merge(LockOf(c), c), c.engine, c.appName)
                              /\ p.sizes.max = Or(LockOf(c).max, PoolOptions(c).max)
    <2>1. CASE Shares(c)
        <3>1. PICK o \in Options(c.engine, c, c.appName), k \in LockKeeps(c) :
                  p = [for |-> "lock", options |-> o, sizes |-> PoolOptions(c), log |-> LogOf(c), keeps |-> k]
            BY <2>1 DEF LockPool, Pool
        <3> QED BY <1>0, <2>1, <3>1, OptionsReach
    <2>2. CASE ~Shares(c)
        <3> DEFINE sizes == [PoolOptions(c) EXCEPT !.max = Or(LockOf(c).max, @), !.min = 0, !.idle = 600, !.life = 1800, !.test = TRUE]
                   found == Options(c.engine, Merge(LockOf(c), c), c.appName)
        <3>1. PICK o \in found, k \in LockKeeps(c) :
                  p = [for |-> "lock", options |-> IF c.engine = "postgres" THEN Named(o, "-lock") ELSE o, sizes |-> sizes, log |-> {}, keeps |-> k]
            BY <2>2 DEF LockPool, OwnPool, Pool
        <3>2. sizes.max = Or(LockOf(c).max, PoolOptions(c).max)
            BY DEF PoolOptions
        <3> HIDE DEF sizes
        <3>3. LockOf(c).params \subseteq Seq(K \X V)
            BY SectionIs DEF LockOf, NoLock, IsWritten
        <3>4. Merge(LockOf(c), c).params \in Seq(K \X V)
            <4> DEFINE s == LockOf(c)
            <4>1. c.params \in Seq(K \X V) /\ s.params \subseteq Seq(K \X V)
                BY <1>0, <3>3
            <4> HIDE DEF s
            <4>2. Merge(s, c).params \in Seq(K \X V)
                BY <4>1, MergesTo
            <4> QED BY <4>2 DEF s
        <3>5. /\ Reaches(o, Merge(LockOf(c), c), c.engine, c.appName)
              /\ Reaches(Named(o, "-lock"), Merge(LockOf(c), c), c.engine, c.appName)
            BY <1>0, <3>4, OptionsReach
        <3> QED BY <2>2, <3>1, <3>2, <3>5
    <2> QED BY <2>1, <2>2
<1> QED BY <1>1, <1>2, <1>3

\* A table has the name that is written of it, with a bar at the end or without.
LEMMA TableNamed ==
    ASSUME NEW A, NEW prefix \in SUBSET Seq(A), AtMostOne(prefix), NEW appName, NEW t \in TablePrefix(prefix, appName)
    PROVE  NamedAs({t}, prefix)
<1> SUFFICES ASSUME NEW x \in prefix PROVE t = x \/ t = Append(x, "bar")
    BY DEF NamedAs
<1>1. prefix = {x} /\ x \in Seq(A)
    BY DEF AtMostOne
<1>2. CASE x = <<>>
    BY <1>1, <1>2 DEF TablePrefix
<1>3. CASE x # <<>>
    <2>1. t = Append(StripSuffix(x), "bar")
        <3>1. prefix # {<<>>}
            BY <1>1, <1>3
        <3>2. PICK n : t = Append(n, "bar") /\ n \in {StripSuffix(y) : y \in prefix} \union {a \in {appName} : prefix = {}}
            BY <3>1 DEF TablePrefix
        <3> QED BY <1>1, <3>2
    <2>2. CASE x[Len(x)] = "bar"
        <3> DEFINE n == Len(x) - 1
                   front == SubSeq(x, 1, n)
        <3>1. Len(x) \in Nat /\ Len(x) # 0 /\ DOMAIN x = 1 .. Len(x) /\ \A i \in 1 .. Len(x) : x[i] \in A
            BY <1>1, <1>3, EmptySeq, ElementOfSeq
        <3>2. n \in Nat /\ Len(x) = n + 1
            BY <3>1
        <3>3. "bar" \in A
            BY <2>2, <3>1
        <3>4. 1 \in 1 .. Len(x) + 1 /\ n \in 1 - 1 .. Len(x)
            BY <3>2
        <3>5. front \in Seq(A) /\ Len(front) = n /\ \A i \in 1 .. n : front[i] = x[i]
            <4> HIDE DEF n
            <4>1. \A i \in 1 .. n : i \in 1 .. Len(x)
                BY <3>2
            <4>2. SubSeq(x, 1, n) \in Seq(A) /\ Len(SubSeq(x, 1, n)) = n /\ \A i \in 1 .. n : SubSeq(x, 1, n)[i] = x[i]
                BY <1>1, <3>1, <3>2, <3>4, SubSeqProperties
            <4> QED BY <4>2
        <3> HIDE DEF n, front
        <3>6. /\ Append(front, "bar") \in Seq(A) /\ Len(Append(front, "bar")) = n + 1
              /\ \A i \in 1 .. n : Append(front, "bar")[i] = front[i]
              /\ Append(front, "bar")[n + 1] = "bar"
            BY <3>2, <3>3, <3>5, AppendProperties
        <3>7. \A i \in 1 .. n + 1 : i \in 1 .. n \/ i = n + 1
            BY <3>2
        <3>8. \A i \in 1 .. Len(x) : Append(front, "bar")[i] = x[i]
            BY <2>2, <3>2, <3>5, <3>6, <3>7
        <3>9. Append(front, "bar") = x
            BY <1>1, <3>2, <3>6, <3>8, SeqEqual
        <3> QED BY <1>3, <2>1, <2>2, <3>9 DEF StripSuffix, front, n
    <2>3. CASE x[Len(x)] # "bar"
        BY <2>1, <2>3 DEF StripSuffix
    <2> QED BY <2>2, <2>3
<1> QED BY <1>2, <1>3

\* A component starts only when everything that is written of it takes effect, its worker and its
\* locks' table included.
THEOREM EverythingUsedCorrect ==
    ASSUME NEW c, NEW K, NEW V, NEW A, IsWritten(c, K, V, A)
    PROVE  EverythingUsed(c)
<1> DEFINE pools == Opened(c)
           parts == [pool |-> Connect(c), live |-> LivePool(c), lock |-> LockPool(c)]
           For(part) == {p \in pools : p.for = part}
           Own(part) == UNION {s.params : s \in CASE part = "live" -> c.live [] part = "lock" -> c.lock [] part = "pool" -> {}}
<1> SUFFICES ASSUME pools # {}
             PROVE  EverythingUsed(c)
    BY DEF EverythingUsed
<1>1. /\ Check(c) /\ ParseUses(c.uses) # {} /\ \A part \in Provides(c) : parts[part] # {}
      /\ pools = UNION {parts[part] : part \in Provides(c)}
    BY DEF Opened
<1>2. Provides(c) \subseteq {"pool", "live", "lock"} /\ \A part \in {"pool", "live", "lock"} : part \in Provides(c) <=> Has(c, part)
    BY DEF Provides, Bits
<1>3. \A part \in {"pool", "live", "lock"} : \A p \in parts[part] : p.for = part
    <2>1. \A p \in Connect(c) : p.for = "pool"
        BY PartsReach
    <2>2. \A p \in LivePool(c) : p.for = "live"
        BY PartsReach
    <2>3. \A p \in LockPool(c) : p.for = "lock"
        BY PartsReach
    <2> QED BY <2>1, <2>2, <2>3
<1>4. \A part \in Provides(c) : \E p \in parts[part] : p \in For(part) /\ p \in pools
    BY <1>1, <1>2, <1>3
<1>5. {p.for : p \in pools} = Provides(c)
    <2>1. ASSUME NEW p \in pools PROVE p.for \in Provides(c)
        BY <1>1, <1>2, <1>3
    <2>2. ASSUME NEW part \in Provides(c) PROVE \E p \in pools : p.for = part
        BY <1>4
    <2> HIDE DEF pools
    <2> QED BY <2>1, <2>2
\* What overrides the parameters of a section.
<1>a. /\ Own("pool") = {}
      /\ Own("live") = LiveOf(c).params
      /\ Own("lock") = LockOf(c).params
    <2>1. Own("pool") = {}
        OBVIOUS
    <2>2. ASSUME NEW S, AtMostOne(S), NEW none, none.params = {}
          PROVE  UNION {s.params : s \in S} = Or(S, none).params
        <3>1. CASE S = {}
            BY <2>2, <3>1 DEF Or
        <3>2. CASE S # {}
            <4>1. PICK s \in S : S = {s}
                BY <2>2, <3>2 DEF AtMostOne
            <4>2. Or(S, none) = s
                BY <2>2, <4>1, SectionIs
            <4>3. UNION {x.params : x \in S} = s.params
                BY <4>1
            <4> QED BY <4>2, <4>3
        <3> QED BY <3>1, <3>2
    <2>3. Own("live") = UNION {s.params : s \in c.live} /\ Own("lock") = UNION {s.params : s \in c.lock}
        OBVIOUS
    <2>4. NoLive.params = {} /\ NoLock.params = {} /\ AtMostOne(c.live) /\ AtMostOne(c.lock)
        BY DEF NoLive, NoLock, IsWritten
    <2>5. UNION {s.params : s \in c.live} = LiveOf(c).params
        BY <2>2, <2>4 DEF LiveOf
    <2>6. UNION {s.params : s \in c.lock} = LockOf(c).params
        BY <2>2, <2>4 DEF LockOf
    <2> QED BY <2>1, <2>3, <2>5, <2>6
<1> HIDE DEF Own
<1>b. c.params \in Seq(K \X V) /\ LiveOf(c).params \subseteq Seq(K \X V) /\ LockOf(c).params \subseteq Seq(K \X V)
    <2>1. LiveOf(c).params \subseteq Seq(K \X V)
        BY SectionIs, SMTT(30) DEF LiveOf, NoLive, IsWritten
    <2>2. LockOf(c).params \subseteq Seq(K \X V)
        BY SectionIs, SMTT(30) DEF LockOf, NoLock, IsWritten
    <2> QED BY <2>1, <2>2 DEF IsWritten
\* A pool with settings of its own has those that are written of its section, and else the main ones.
<1>c. ASSUME NEW s, s.params \subseteq Seq(K \X V), NEW o, Reaches(o, Merge(s, c), c.engine, c.appName)
      PROVE  /\ \A i \in Items : o.connect[i] = Or(s.connect[i], c.connect[i])
             /\ \A p : p.options = o => Takes(p, Or(s.params, c.params))
    <2>1. /\ Merge(s, c).params = Or(s.params, c.params) /\ Merge(s, c).params \in Seq(K \X V)
        <3>1. c.params \in Seq(K \X V) /\ s.params \subseteq Seq(K \X V)
            BY <1>b, <1>c
        <3> QED BY <3>1, MergesTo
    <2>2. \A i \in Items : Merge(s, c).connect[i] = Or(s.connect[i], c.connect[i])
        BY DEF Merge
    <2> QED BY <1>c, <2>1, <2>2 DEF Reaches, Takes
<1>d. ASSUME NEW p, Reaches(p.options, c, c.engine, c.appName) PROVE Takes(p, c.params)
    BY <1>d DEF Reaches, Takes
\* What every pool is.
<1>e. \A p \in Connect(c) : Reaches(p.options, c, c.engine, c.appName) /\ p.sizes = PoolOptions(c) /\ p.log = LogOf(c)
    BY PartsReach
<1>f. \A p \in LivePool(c) : p.keeps \in LiveKeeps(c) /\ Reaches(p.options, Merge(LiveOf(c), c), c.engine, c.appName)
    BY PartsReach
<1>g. \A p \in LockPool(c) : /\ p.keeps \in LockKeeps(c)
                             /\ Shares(c) => Reaches(p.options, c, c.engine, c.appName)
                             /\ ~Shares(c) => /\ Reaches(p.options, Merge(LockOf(c), c), c.engine, c.appName)
                                              /\ p.sizes.max = Or(LockOf(c).max, PoolOptions(c).max)
    BY PartsReach
<1>6. ASSUME NEW p \in pools
      PROVE  /\ Takes(p, Or(Own(p.for), c.params))
             /\ c.engine = "postgres" /\ c.appName # <<>> => SubSeq(p.options.params["application_name"], 1, Len(c.appName)) = c.appName
    <2>1. PICK part \in Provides(c) : p \in parts[part]
        BY <1>1
    <2>2. p.for = part /\ (part = "pool" \/ part = "live" \/ part = "lock")
        BY <1>2, <1>3, <2>1
    <2>3. CASE part = "pool"
        <3>1. Reaches(p.options, c, c.engine, c.appName)
            BY <1>e, <2>1, <2>3
        <3>2. Or(Own(p.for), c.params) = c.params
            BY <1>a, <2>2, <2>3 DEF Or
        <3> QED BY <1>d, <3>1, <3>2 DEF Reaches
    <2>4. CASE part = "live"
        <3>1. Reaches(p.options, Merge(LiveOf(c), c), c.engine, c.appName)
            BY <1>f, <2>1, <2>4
        <3>2. Takes(p, Or(LiveOf(c).params, c.params))
            BY <1>b, <1>c, <3>1
        <3> QED BY <1>a, <2>2, <2>4, <3>1, <3>2 DEF Reaches
    <2>5. CASE part = "lock" /\ Shares(c)
        <3>1. Reaches(p.options, c, c.engine, c.appName)
            BY <1>g, <2>1, <2>5
        <3>2. Or(Own(p.for), c.params) = c.params
            BY <1>a, <2>2, <2>5 DEF Or, Shares, IsEmpty
        <3> QED BY <1>d, <3>1, <3>2 DEF Reaches
    <2>6. CASE part = "lock" /\ ~Shares(c)
        <3>1. Reaches(p.options, Merge(LockOf(c), c), c.engine, c.appName)
            BY <1>g, <2>1, <2>6
        <3>2. Takes(p, Or(LockOf(c).params, c.params))
            BY <1>b, <1>c, <3>1
        <3> QED BY <1>a, <2>2, <2>6, <3>1, <3>2 DEF Reaches
    <2> QED BY <2>2, <2>3, <2>4, <2>5, <2>6
\* What is written of [connect] is used by a pool that has nothing of its own.
<1>7. \E p \in pools : Takes(p, c.params) /\ \A i \in Items : p.options.connect[i] = c.connect[i]
    <2>1. CASE Has(c, "pool")
        <3>1. PICK p \in Connect(c) : p \in pools
            BY <1>2, <1>4, <2>1
        <3> QED BY <1>d, <1>e, <3>1 DEF Reaches
    <2>2. CASE ~Has(c, "pool")
        <3>1. ~Overrides(c.live) /\ ~Overrides(c.lock)
            BY <1>1, <2>2 DEF Check
        <3>2. ASSUME NEW section, ~Overrides(section), AtMostOne(section), NEW none, IsEmpty(none)
              PROVE  IsEmpty(Or(section, none))
            <4>1. CASE section = {}
                BY <3>2, <4>1, SectionIs
            <4>2. CASE section # {}
                <5>1. PICK s \in section : section = {s}
                    BY <3>2, <4>2 DEF AtMostOne
                <5>2. Or(section, none) = s
                    BY <3>2, <5>1, SectionIs
                <5> QED BY <3>2, <5>1, <5>2 DEF Overrides
            <4> QED BY <4>1, <4>2
        <3>3. IsEmpty(NoLive) /\ IsEmpty(NoLock) /\ AtMostOne(c.live) /\ AtMostOne(c.lock)
            BY DEF NoLive, NoLock, IsEmpty, IsWritten
        <3>4. IsEmpty(LiveOf(c)) /\ IsEmpty(LockOf(c))
            BY <3>1, <3>2, <3>3 DEF LiveOf, LockOf
        <3>5. ASSUME NEW s, IsEmpty(s) PROVE Or(s.params, c.params) = c.params /\ \A i \in Items : Or(s.connect[i], c.connect[i]) = c.connect[i]
            BY <3>5 DEF IsEmpty, Or
        <3>6. PICK part \in {"live", "lock"} : part \in Provides(c)
            <4>1. Provides(c) # {}
                BY <1>1
            <4> QED BY <1>2, <2>2, <4>1
        <3>7. PICK p \in parts[part] : p \in pools
            BY <1>4, <3>6
        <3>8. ~Shares(c)
            BY <2>2 DEF Shares
        <3>9. CASE part = "live"
            <4>1. Reaches(p.options, Merge(LiveOf(c), c), c.engine, c.appName)
                BY <1>f, <3>7, <3>9
            <4>2. Takes(p, Or(LiveOf(c).params, c.params)) /\ \A i \in Items : p.options.connect[i] = Or(LiveOf(c).connect[i], c.connect[i])
                BY <1>b, <1>c, <4>1
            <4> QED BY <3>4, <3>5, <3>7, <4>2
        <3>10. CASE part = "lock"
            <4>1. Reaches(p.options, Merge(LockOf(c), c), c.engine, c.appName)
                BY <1>g, <3>7, <3>8, <3>10
            <4>2. Takes(p, Or(LockOf(c).params, c.params)) /\ \A i \in Items : p.options.connect[i] = Or(LockOf(c).connect[i], c.connect[i])
                BY <1>b, <1>c, <4>1
            <4> QED BY <3>4, <3>5, <3>7, <4>2
        <3> QED BY <3>6, <3>9, <3>10
    <2> QED BY <2>1, <2>2
<1>8. ASSUME NEW s, NEW p, \A i \in Items : p.options.connect[i] = Or(s.connect[i], c.connect[i])
      PROVE  Uses(p, s.connect)
    BY <1>8 DEF Uses, Or
<1>9. ASSUME NEW s \in c.live
      PROVE  \E p \in For("live") :
                 /\ Uses(p, s.connect) /\ NamedAs(p.keeps.tables, s.prefix) /\ p.keeps.tables # {}
                 /\ \A n \in s.poll : p.keeps.poll = {n} /\ n > 0
                 /\ p.keeps.history = s.keepRows \X s.trimMins /\ (p.keeps.history = {} => s.keepRows \union s.trimMins = {})
    <2>1. Has(c, "live")
        BY <1>1 DEF Check, Sections, Bits
    <2>2. PICK p \in LivePool(c) : p \in For("live")
        BY <1>2, <1>4, <2>1
    <2>3. LiveOf(c) = s /\ AtMostOne(s.poll) /\ AtMostOne(s.prefix) /\ s.prefix \in SUBSET Seq(A)
        BY SectionIs DEF LiveOf, IsWritten
    <2>4. Reaches(p.options, Merge(s, c), c.engine, c.appName)
        BY <1>f, <2>2, <2>3
    <2>5. Uses(p, s.connect)
        BY <1>b, <1>c, <1>8, <2>3, <2>4
    <2>6. PICK t \in TablePrefix(s.prefix, c.appName) :
              /\ LiveAccepted(c)
              /\ p.keeps = [tables |-> {t}, poll |-> {PollInterval(c)}, history |-> s.keepRows \X s.trimMins]
        BY <1>f, <2>2, <2>3 DEF LiveKeeps
    <2>7. NamedAs({t}, s.prefix)
        BY <2>3, TableNamed
    <2>8. ASSUME NEW n \in s.poll PROVE PollInterval(c) = n /\ n > 0
        <3>1. PollInterval(c) = n
            BY <2>3, SectionIs DEF PollInterval
        <3> QED BY <2>6, <3>1 DEF LiveAccepted
    <2>9. s.keepRows \X s.trimMins = {} => s.keepRows \union s.trimMins = {}
        <3>1. s.keepRows = {} <=> s.trimMins = {}
            BY <2>3, <2>6 DEF LiveAccepted
        <3>2. ASSUME NEW k \in s.keepRows, NEW m \in s.trimMins PROVE <<k, m>> \in s.keepRows \X s.trimMins
            OBVIOUS
        <3> QED BY <3>1, <3>2
    <2>10. p.keeps.tables = {t} /\ p.keeps.poll = {PollInterval(c)} /\ p.keeps.history = s.keepRows \X s.trimMins
        BY <2>6
    <2>11. NamedAs(p.keeps.tables, s.prefix) /\ p.keeps.tables # {}
        BY <2>7, <2>10
    <2>12. \A n \in s.poll : p.keeps.poll = {n} /\ n > 0
        BY <2>8, <2>10
    <2>13. p.keeps.history = {} => s.keepRows \union s.trimMins = {}
        BY <2>9, <2>10
    <2> HIDE DEF For
    <2> QED BY <2>2, <2>5, <2>10, <2>11, <2>12, <2>13
<1>10. ASSUME NEW s \in c.lock
       PROVE  \E p \in For("lock") :
                  /\ Uses(p, s.connect) /\ (\A n \in s.max : p.sizes.max = n)
                  /\ NamedAs(p.keeps.tables, s.prefix) /\ (p.keeps.tables # {} <=> LockTable(c))
    <2>1. Has(c, "lock")
        BY <1>1 DEF Check, Sections, Bits
    <2>2. PICK p \in LockPool(c) : p \in For("lock")
        BY <1>2, <1>4, <2>1
    <2>3. LockOf(c) = s /\ AtMostOne(s.max) /\ AtMostOne(s.prefix) /\ s.prefix \in SUBSET Seq(A)
        BY SectionIs DEF LockOf, IsWritten
    <2>4. Uses(p, s.connect) /\ \A n \in s.max : p.sizes.max = n
        <3>1. CASE Shares(c)
            <4>1. s.max = {} /\ \A i \in Items : s.connect[i] = {}
                BY <2>3, <3>1 DEF Shares, IsEmpty
            <4>2. Uses(p, s.connect)
                BY <4>1 DEF Uses, Or
            <4> QED BY <4>1, <4>2
        <3>2. CASE ~Shares(c)
            <4>1. Reaches(p.options, Merge(s, c), c.engine, c.appName) /\ p.sizes.max = Or(s.max, PoolOptions(c).max)
                BY <1>g, <2>2, <2>3, <3>2
            <4>2. Uses(p, s.connect)
                BY <1>b, <1>c, <1>8, <2>3, <4>1
            <4>3. \A n \in s.max : p.sizes.max = n
                BY <2>3, <4>1, SectionIs
            <4> QED BY <4>2, <4>3
        <3> QED BY <3>1, <3>2
    <2>5. NamedAs(p.keeps.tables, s.prefix) /\ (p.keeps.tables # {} <=> LockTable(c))
        <3>1. CASE LockTable(c)
            <4>1. PICK t \in TablePrefix(s.prefix, c.appName) : p.keeps = [Nothing EXCEPT !.tables = {t}]
                BY <1>g, <2>2, <2>3, <3>1 DEF LockKeeps
            <4>2. p.keeps.tables = {t}
                BY <4>1 DEF Nothing
            <4>3. NamedAs({t}, s.prefix)
                BY <2>3, TableNamed
            <4> QED BY <3>1, <4>2, <4>3
        <3>2. CASE ~LockTable(c)
            <4>1. p.keeps.tables = {}
                BY <1>g, <2>2, <3>2 DEF LockKeeps, Nothing
            <4> QED BY <3>2, <4>1 DEF NamedAs
        <3> QED BY <3>1, <3>2
    <2> QED BY <2>2, <2>4, <2>5
<1>11. ASSUME NEW s \in c.pool
       PROVE  \E p \in For("pool") : \A k \in DOMAIN s : p.sizes[k] = IF k \in {"test", "lazy"} THEN s[k] ELSE Or(s[k], p.sizes[k])
    <2>1. Has(c, "pool")
        BY <1>1 DEF Check, Sections, Bits
    <2>2. PICK p \in Connect(c) : p \in For("pool")
        BY <1>2, <1>4, <2>1
    <2>3. PoolOf(c) = s
        BY SectionIs DEF PoolOf, IsWritten
    <2>4. p.sizes = PoolOptions(c)
        BY <2>2, PartsReach
    <2>5. p.sizes.test = s.test /\ p.sizes.lazy = s.lazy
        BY <2>3, <2>4 DEF PoolOptions
    <2>6. /\ p.sizes.max = Or(s.max, PoolSize(c.engine).max) /\ p.sizes.min = Or(s.min, PoolSize(c.engine).min)
          /\ p.sizes.acquire = Or(s.acquire, 30) /\ p.sizes.idle = Or(s.idle, 600) /\ p.sizes.life = Or(s.life, 1800)
        BY <2>3, <2>4 DEF PoolOptions
    <2>7. \A written, default : Or(written, default) = Or(written, Or(written, default))
        BY DEF Or
    <2>8. DOMAIN s = {"max", "min", "acquire", "idle", "life", "test", "lazy"}
        BY DEF IsWritten
    <2> QED BY <2>2, <2>5, <2>6, <2>7, <2>8
<1>12. c.framework = "seaorm" => \A s \in c.log : \E p \in For("pool") : p.log = {s}
    <2> SUFFICES ASSUME c.framework = "seaorm", NEW s \in c.log PROVE \E p \in For("pool") : p.log = {s}
        OBVIOUS
    <2>1. Has(c, "pool")
        BY <1>1 DEF Check, Sections, Bits
    <2>2. PICK p \in Connect(c) : p \in For("pool")
        BY <1>2, <1>4, <2>1
    <2>3. p.log = LogOf(c)
        BY <2>2, PartsReach
    <2>4. LogOf(c) = {s}
        BY SectionIs DEF LogOf, IsWritten
    <2> QED BY <2>2, <2>3, <2>4
<1> HIDE DEF pools, parts
<1>13. /\ \A i \in Items : \E p \in pools : p.options.connect[i] = c.connect[i]
       /\ \E p \in pools : Takes(p, c.params)
       /\ \A p \in pools : Takes(p, Or(Own(p.for), c.params))
       /\ c.engine = "postgres" /\ c.appName # <<>> =>
              \A p \in pools : SubSeq(p.options.params["application_name"], 1, Len(c.appName)) = c.appName
    BY <1>6, <1>7
<1> QED BY <1>5, <1>9, <1>10, <1>11, <1>12, <1>13 DEF EverythingUsed, pools, Own

-----------------------------------------------------------------------------
(* Redis, AWS and servers.                                                  *)

\* Servers with any limits and any request: it has an answer of the handler exactly if it is not
\* slower than allowed, and not larger than allowed (unless nobody looks at it) nor than axum's own
\* limit when it is read.
THEOREM LimitsHoldCorrect ==
    ASSUME NEW cfg, NEW request, NEW declared \in BOOLEAN, NEW reads \in BOOLEAN, NEW size \in Int, NEW secs \in Int, NEW outcome,
           request = [size |-> size, secs |-> secs, declared |-> declared, reads |-> reads, outcome |-> outcome],
           ExtractorLimit \in Int, cfg.max_body_size \in SUBSET Int, cfg.request_read_secs \in SUBSET Int
    PROVE  X!LimitsHold(cfg, request)
<1> DEFINE large == \E m \in cfg.max_body_size : request.size > m
            slow == \E s \in cfg.request_read_secs : request.secs > s
            refused == large /\ request.declared
            cut == request.reads /\ (large \/ request.size > ExtractorLimit)
<1>1. X!Handle(request.outcome).status = 200
  BY DEF X!Handle, X!IntoResponse, X!Response
<1>2. /\ refused => X!Serve(cfg, request).status = 413
      /\ slow /\ ~refused => X!Serve(cfg, request).status = 408
      /\ cut /\ ~slow /\ ~refused => X!Serve(cfg, request).status = 413
      /\ ~cut /\ ~slow /\ ~refused => X!Serve(cfg, request).status = 200
  <2>. request.declared \in BOOLEAN /\ request.reads \in BOOLEAN
    OBVIOUS
  <2>1. ASSUME refused PROVE X!Serve(cfg, request).status = 413
    BY <2>1 DEF X!Serve, X!BuildRouter, X!Response
  <2>2. ASSUME slow, ~refused PROVE X!Serve(cfg, request).status = 408
    BY <2>2 DEF X!Serve, X!BuildRouter, X!Response
  <2>3. ASSUME cut, ~slow, ~refused PROVE X!Serve(cfg, request).status = 413
    BY <2>3 DEF X!Serve, X!BuildRouter, X!Response
  <2>4. ASSUME ~cut, ~slow, ~refused PROVE X!Serve(cfg, request).status = 200
    BY <2>4, <1>1 DEF X!Serve, X!BuildRouter, X!Response
  <2> QED BY <2>1, <2>2, <2>3, <2>4
<1>3. ~cut /\ ~slow /\ ~refused
          <=> /\ \A s \in cfg.request_read_secs : request.secs <= s
              /\ \A m \in cfg.max_body_size : request.size <= m \/ ~(request.declared \/ request.reads)
              /\ request.reads => request.size <= ExtractorLimit
  <2>1. ~slow <=> \A s \in cfg.request_read_secs : request.secs <= s
    OBVIOUS
  <2>2. ~large <=> \A m \in cfg.max_body_size : request.size <= m
    OBVIOUS
  <2>3. \/ ~(request.declared \/ request.reads)
        \/ (request.declared \/ request.reads)
    OBVIOUS
  <2> HIDE DEF slow, large
  <2> QED BY <2>1, <2>2
<1> HIDE DEF large, slow, refused, cut
<1> QED BY <1>2, <1>3 DEF X!LimitsHold

\* An error of the program or of somebody else; no code of an error is that of success.
IsFault(error) == /\ error.kind \in {"hy", "other"} /\ error.framework \in BOOLEAN
                  /\ error.message \cap error.causes = {} /\ error.code # "00000000"

\* Clients read nothing of a fault of the server but its code, whatever they ask and whatever
\* the handler does, and what they do not read is in the log.
THEOREM AnswersHideCorrect ==
    ASSUME NEW cfg, NEW request, request.outcome.ok \in BOOLEAN, ~request.outcome.ok => IsFault(request.outcome.error)
    PROVE  X!AnswersHide(cfg, request)
<1> DEFINE e == request.outcome.error
            answer == X!Serve(cfg, request)
            fault == e.kind = "other" \/ e.framework \/ e.causes # {}
            other == e.kind = "other" \/ e.framework
<1> SUFFICES ASSUME answer.status = 200, ~request.outcome.ok
              PROVE  /\ answer.texts \intersect e.causes = {} /\ answer.code # "00000000"
                     /\ other => answer.texts = {}
                     /\ ~other => answer.texts = e.message /\ answer.code = e.code
                     /\ IF fault THEN answer.logged = e.message \union e.causes ELSE answer.logged = {}
  BY DEF X!AnswersHide
<1>0. e.kind \in {"hy", "other"} /\ e.framework \in BOOLEAN /\ e.message \cap e.causes = {} /\ e.code # "00000000"
  BY DEF IsFault
<1>1. answer = X!IntoResponse(X!FromAnyhow(e))
  <2> DEFINE large == \E m \in cfg.max_body_size : request.size > m
              slow == \E s \in cfg.request_read_secs : request.secs > s
              refused == large /\ request.declared
              cut == request.reads /\ (large \/ request.size > ExtractorLimit)
  <2>1. X!Serve(cfg, request).status # 200 \/ X!Serve(cfg, request) = X!Handle(request.outcome)
    <3>1. ASSUME refused PROVE X!Serve(cfg, request).status = 413
      BY <3>1 DEF X!Serve, X!BuildRouter, X!Response
    <3>2. ASSUME slow, ~refused PROVE X!Serve(cfg, request).status = 408
      BY <3>2 DEF X!Serve, X!BuildRouter, X!Response
    <3>3. ASSUME cut, ~slow, ~refused PROVE X!Serve(cfg, request).status = 413
      BY <3>3 DEF X!Serve, X!BuildRouter, X!Response
    <3>4. ASSUME ~cut, ~slow, ~refused PROVE X!Serve(cfg, request) = X!Handle(request.outcome)
      BY <3>4, ZenonT(60) DEF X!Serve, X!BuildRouter
    <3> QED BY <3>1, <3>2, <3>3, <3>4
  <2> QED BY <2>1 DEF X!Handle
<1>2. CASE e.kind = "other"
  <2>1. X!FromAnyhow(e) = X!SysErr(e.message \union e.causes)
    BY <1>2 DEF X!FromAnyhow
  <2> QED BY <1>0, <1>1, <1>2, <2>1 DEF X!IntoResponse, X!SysErr, X!Response
<1>3. CASE e.kind = "hy"
  <2>1. X!FromAnyhow(e) = e
    BY <1>3 DEF X!FromAnyhow
  <2>2. answer = LET shown == IF e.framework THEN X!SysErr({}) ELSE e
                 IN  X!Response(200, shown.code, shown.message, IF e.framework \/ e.causes # {} THEN e.message \union e.causes ELSE {})
    BY <1>1, <2>1 DEF X!IntoResponse
  <2> HIDE DEF answer, e
  <2>3. CASE e.framework
    BY <1>0, <2>2, <2>3 DEF X!SysErr, X!Response
  <2>4. CASE ~e.framework
    BY <1>0, <1>3, <2>2, <2>4 DEF X!Response
  <2> QED BY <2>3, <2>4
<1> QED BY <1>0, <1>2, <1>3

\* Empty texts and texts that are set.
LEMMA NonEmptyIs ==
    ASSUME NEW a, NEW b
    PROVE  X!NonEmpty(a) = X!NonEmpty(b) <=> a = b
<1>1. \E blank : \A text : X!NonEmpty(text) = {text} \ {blank}
  BY Zenon DEF X!NonEmpty
<1> QED BY <1>1

\* Redis pools of any settings: two are the same exactly if all that the mode reads is the same,
\* where 0 seconds to connect are those of the library, and none without a host is opened.
LEMMA PoolsAsWrittenCorrect ==
    ASSUME NEW cfg, NEW other, cfg.command \in Nat, other.command \in Nat
    PROVE  X!PoolsAsWritten(cfg, other)
<1>1. \A p \in X!FredPool(cfg) : p.server.hosts # <<>>
  <2>1. \A s \in X!FredServer(cfg) : s.hosts # <<>>
    <3>1. CASE cfg.mode = "standalone"
      <4>1. X!FredServer(cfg) = {[hosts |-> <<cfg.host>>]}
        BY <3>1 DEF X!FredServer
      <4>2. [hosts |-> <<cfg.host>>].hosts # <<>>
        <5>1. \A h : <<h>> # <<>>
          OBVIOUS
        <5> QED BY <5>1
      <4> QED BY <4>1, <4>2, Zenon
    <3>2. CASE cfg.mode = "cluster"
      BY <3>2 DEF X!FredServer
    <3>3. CASE cfg.mode = "sentinel"
      BY <3>3 DEF X!FredServer
    <3>4. CASE cfg.mode \notin {"standalone", "cluster", "sentinel"}
      BY <3>4 DEF X!FredServer
    <3> QED BY <3>1, <3>2, <3>3, <3>4
  <2> QED BY <2>1 DEF X!FredPool
<1> DEFINE Effective(c, setting) == IF setting = "connect" THEN X!ConnectTimeout(c.connect) ELSE c[setting]
<1>2. ASSUME cfg.mode = other.mode, NEW p \in X!FredPool(cfg), NEW q \in X!FredPool(other)
      PROVE  p = q <=> \A s \in X!ReadBy(cfg.mode) : Effective(cfg, s) = Effective(other, s)
  <2> DEFINE common == /\ X!ConnectTimeout(cfg.connect) = X!ConnectTimeout(other.connect) /\ cfg.command = other.command
                        /\ cfg.attempts = other.attempts /\ cfg.redirections = other.redirections /\ cfg.reconnect = other.reconnect /\ cfg.size = other.size
                        /\ cfg.username = other.username /\ cfg.password = other.password
  <2>1. PICK s \in X!FredServer(cfg) :
            p = [server |-> s, auth |-> <<X!NonEmpty(cfg.username), X!NonEmpty(cfg.password)>>, db |-> {cfg.db : m \in {cfg.mode} \ {"cluster"}},
                 connect |-> X!ConnectTimeout(cfg.connect), command |-> X!CommandTimeout(cfg.command), attempts |-> cfg.attempts,
                 redirections |-> cfg.redirections, reconnect |-> cfg.reconnect, size |-> cfg.size]
    BY DEF X!FredPool
  <2>2. PICK t \in X!FredServer(other) :
            q = [server |-> t, auth |-> <<X!NonEmpty(other.username), X!NonEmpty(other.password)>>, db |-> {other.db : m \in {other.mode} \ {"cluster"}},
                 connect |-> X!ConnectTimeout(other.connect), command |-> X!CommandTimeout(other.command), attempts |-> other.attempts,
                 redirections |-> other.redirections, reconnect |-> other.reconnect, size |-> other.size]
    BY DEF X!FredPool
  <2>3. X!CommandTimeout(cfg.command) = X!CommandTimeout(other.command) <=> cfg.command = other.command
    BY DEF X!CommandTimeout
  <2>4. /\ X!NonEmpty(cfg.username) = X!NonEmpty(other.username) <=> cfg.username = other.username
        /\ X!NonEmpty(cfg.password) = X!NonEmpty(other.password) <=> cfg.password = other.password
        /\ X!NonEmpty(cfg.sentinelUser) = X!NonEmpty(other.sentinelUser) <=> cfg.sentinelUser = other.sentinelUser
        /\ X!NonEmpty(cfg.sentinelPassword) = X!NonEmpty(other.sentinelPassword) <=> cfg.sentinelPassword = other.sentinelPassword
    BY NonEmptyIs
  <2> DEFINE ofDb(c) == {c.db : m \in {c.mode} \ {"cluster"}}
  <2>5. p = q <=> s = t /\ ofDb(cfg) = ofDb(other) /\ common
    <3> HIDE DEF ofDb
    <3>1. /\ p = [server |-> s, auth |-> <<X!NonEmpty(cfg.username), X!NonEmpty(cfg.password)>>, db |-> ofDb(cfg),
                  connect |-> X!ConnectTimeout(cfg.connect), command |-> X!CommandTimeout(cfg.command), attempts |-> cfg.attempts,
                  redirections |-> cfg.redirections, reconnect |-> cfg.reconnect, size |-> cfg.size]
          /\ q = [server |-> t, auth |-> <<X!NonEmpty(other.username), X!NonEmpty(other.password)>>, db |-> ofDb(other),
                  connect |-> X!ConnectTimeout(other.connect), command |-> X!CommandTimeout(other.command), attempts |-> other.attempts,
                  redirections |-> other.redirections, reconnect |-> other.reconnect, size |-> other.size]
      BY <2>1, <2>2 DEF ofDb
    <3>2. \A a, b, d, e : <<a, b>> = <<d, e>> <=> a = d /\ b = e
      OBVIOUS
    <3>3. p = q <=> /\ s = t /\ ofDb(cfg) = ofDb(other)
                    /\ <<X!NonEmpty(cfg.username), X!NonEmpty(cfg.password)>> = <<X!NonEmpty(other.username), X!NonEmpty(other.password)>>
                    /\ X!ConnectTimeout(cfg.connect) = X!ConnectTimeout(other.connect)
                    /\ X!CommandTimeout(cfg.command) = X!CommandTimeout(other.command) /\ cfg.attempts = other.attempts
                    /\ cfg.redirections = other.redirections /\ cfg.reconnect = other.reconnect /\ cfg.size = other.size
      BY <3>1
    <3> QED BY <2>3, <2>4, <3>2, <3>3
  <2>6. (\A x \in X!ReadBy(cfg.mode) : Effective(cfg, x) = Effective(other, x))
            <=> common /\ CASE cfg.mode = "standalone" -> cfg.host = other.host /\ cfg.db = other.db
                             [] cfg.mode = "cluster" -> cfg.nodes = other.nodes
                             [] cfg.mode = "sentinel" -> /\ cfg.nodes = other.nodes /\ cfg.service = other.service /\ cfg.db = other.db
                                                         /\ cfg.sentinelUser = other.sentinelUser /\ cfg.sentinelPassword = other.sentinelPassword
                             [] cfg.mode \notin {"standalone", "cluster", "sentinel"} -> TRUE
    BY DEF X!ReadBy
  <2>7. CASE cfg.mode = "standalone"
    <3>1. s = [hosts |-> <<cfg.host>>] /\ t = [hosts |-> <<other.host>>]
      BY <1>2, <2>7 DEF X!FredServer
    <3>2. ofDb(cfg) = {cfg.db} /\ ofDb(other) = {other.db}
      BY <1>2, <2>7
    <3>3. s = t <=> cfg.host = other.host
      BY <3>1
    <3> QED BY <2>5, <2>6, <2>7, <3>2, <3>3
  <2>8. CASE cfg.mode = "cluster"
    <3>1. s = [hosts |-> cfg.nodes] /\ t = [hosts |-> other.nodes]
      BY <1>2, <2>8 DEF X!FredServer
    <3>2. ofDb(cfg) = {} /\ ofDb(other) = {}
      BY <1>2, <2>8
    <3>3. s = t <=> cfg.nodes = other.nodes
      BY <3>1
    <3> QED BY <2>5, <2>6, <2>8, <3>2, <3>3
  <2>9. CASE cfg.mode = "sentinel"
    <3>1. /\ s = [hosts |-> cfg.nodes, service |-> cfg.service, auth |-> <<X!NonEmpty(cfg.sentinelUser), X!NonEmpty(cfg.sentinelPassword)>>]
          /\ t = [hosts |-> other.nodes, service |-> other.service, auth |-> <<X!NonEmpty(other.sentinelUser), X!NonEmpty(other.sentinelPassword)>>]
      BY <1>2, <2>9 DEF X!FredServer
    <3>2. ofDb(cfg) = {cfg.db} /\ ofDb(other) = {other.db}
      BY <1>2, <2>9
    <3>3. s = t <=> /\ cfg.nodes = other.nodes /\ cfg.service = other.service
                    /\ cfg.sentinelUser = other.sentinelUser /\ cfg.sentinelPassword = other.sentinelPassword
      BY <2>4, <3>1
    <3> QED BY <2>5, <2>6, <2>9, <3>2, <3>3
  <2>10. CASE cfg.mode \notin {"standalone", "cluster", "sentinel"}
    BY <2>1, <2>10 DEF X!FredServer
  <2> QED BY <2>7, <2>8, <2>9, <2>10
<1>3. X!PoolsAsWritten(cfg, other)
          <=> /\ \A p \in X!FredPool(cfg) : p.server.hosts # <<>>
              /\ cfg.mode = other.mode => \A p \in X!FredPool(cfg), q \in X!FredPool(other) :
                     p = q <=> \A s \in X!ReadBy(cfg.mode) : Effective(cfg, s) = Effective(other, s)
  BY Zenon DEF X!PoolsAsWritten
<1> QED BY <1>1, <1>2, <1>3

\* Servers of any settings: two are the same exactly if all settings are but those that are
\* reserved, which make no difference.
LEMMA ServersAsWrittenCorrect ==
    ASSUME NEW cfg, NEW other,
           DOMAIN cfg = {"host", "port", "shutdown_timeout_secs", "max_body_size", "request_read_secs"} \union X!Reserved
    PROVE  X!ServersAsWritten(cfg, other)
<1>1. DOMAIN cfg \ X!Reserved = {"host", "port", "shutdown_timeout_secs", "max_body_size", "request_read_secs"}
    BY DEF X!Reserved
<1>2. X!AxumServer(cfg) = X!AxumServer(other)
          <=> /\ cfg.host = other.host /\ cfg.port = other.port /\ cfg.shutdown_timeout_secs = other.shutdown_timeout_secs
              /\ cfg.max_body_size = other.max_body_size /\ cfg.request_read_secs = other.request_read_secs
    BY DEF X!AxumServer, X!BuildRouter
<1>3. (\A s \in DOMAIN cfg \ X!Reserved : cfg[s] = other[s])
          <=> /\ cfg.host = other.host /\ cfg.port = other.port /\ cfg.shutdown_timeout_secs = other.shutdown_timeout_secs
              /\ cfg.max_body_size = other.max_body_size /\ cfg.request_read_secs = other.request_read_secs
    BY <1>1
<1> QED BY <1>2, <1>3 DEF X!ServersAsWritten

\* S3 with any settings and any chain: the most special place where a setting is written decides,
\* and no other profile is read.
LEMMA S3AsWrittenCorrect ==
    ASSUME NEW cfg, NEW chain,
           \A written \in {cfg.s3.request, cfg.s3.response} : \A w \in written : written = {w}
    PROVE  X!S3AsWritten(cfg, chain)
<1> DEFINE own == chain[CHOOSE p \in X!Or(cfg.profile, {"default"}) : TRUE]
            client == X!S3Client(cfg, chain)
            written(s) == IF s = "endpoint" THEN <<cfg.s3.endpoint, cfg[s], own[s]>> ELSE <<cfg[s], own[s]>>
<1>1. ASSUME NEW s \in DOMAIN own
      PROVE  client.sdk[s] = IF s = "endpoint" THEN X!Or(cfg.s3.endpoint, X!Or(cfg[s], own[s])) ELSE X!Or(cfg[s], own[s])
  BY DEF X!S3Client, X!SdkConfig
<1>2. /\ client.request = X!Or(cfg.s3.request, {"supported"})
      /\ client.response = X!Or(cfg.s3.response, {"supported"})
  BY DEF X!S3Client
<1>3. X!S3AsWritten(cfg, chain)
          <=> /\ \A s \in DOMAIN own : /\ (\A i \in DOMAIN written(s) : written(s)[i] = {}) => client.sdk[s] = {}
                                       /\ \A i \in DOMAIN written(s) : written(s)[i] # {} /\ (\A j \in 1 .. i - 1 : written(s)[j] = {})
                                                                          => client.sdk[s] = written(s)[i]
              /\ \A w \in cfg.s3.request : client.request = {w}
              /\ \A w \in cfg.s3.response : client.response = {w}
  BY DEF X!S3AsWritten
<1> HIDE DEF client, own
<1>4. ASSUME NEW s \in DOMAIN own
      PROVE  /\ (\A i \in DOMAIN written(s) : written(s)[i] = {}) => client.sdk[s] = {}
             /\ \A i \in DOMAIN written(s) : written(s)[i] # {} /\ (\A j \in 1 .. i - 1 : written(s)[j] = {})
                                                => client.sdk[s] = written(s)[i]
  <2>1. CASE s = "endpoint"
    BY <1>1, <2>1 DEF X!Or
  <2>2. CASE s # "endpoint"
    BY <1>1, <2>2 DEF X!Or
  <2> QED BY <2>1, <2>2
<1>5. /\ \A w \in cfg.s3.request : client.request = {w}
      /\ \A w \in cfg.s3.response : client.response = {w}
  BY <1>2 DEF X!Or
<1> HIDE DEF written
<1> QED BY <1>3, <1>4, <1>5

ServerStates == [listener : BOOLEAN, factory : BOOLEAN, tasks : Int]
ServerCall == [how : {"prepare", "activate"}, works : BOOLEAN, parses : BOOLEAN]
ServerStep(kind, server, c) == IF c.how = "prepare" THEN X!Prepare(kind, server, c) ELSE X!Activate(server, c)

\* The states of a server after each call.
LEMMA ServerSteps ==
    ASSUME NEW kind, NEW calls \in Seq(ServerCall)
    PROVE  \E f \in [0 .. Len(calls) -> ServerStates] :
               /\ f[0] = X!BuiltServer
               /\ \A k \in 1 .. Len(calls) : f[k] = ServerStep(kind, f[k - 1], calls[k])
               /\ X!Served(kind, calls) = f[Len(calls)]
<1> DEFINE n == Len(calls)
           next == [k \in 1 .. n |-> [s \in ServerStates |-> ServerStep(kind, s, calls[k])]]
           F(f) == f = [k \in 0 .. n |-> IF k = 0 THEN X!BuiltServer ELSE ServerStep(kind, f[k - 1], calls[k])]
           after == CHOOSE f : F(f)
<1>1. n \in Nat /\ DOMAIN calls = 1 .. n /\ \A k \in 1 .. n : calls[k] \in ServerCall
    OBVIOUS
<1>2. ASSUME NEW s \in ServerStates, NEW c \in ServerCall PROVE ServerStep(kind, s, c) \in ServerStates
    <2>1. [s EXCEPT !.listener = TRUE] \in ServerStates
        BY DEF ServerStates
    <2>2. X!Prepare(kind, s, c) \in ServerStates
        BY <2>1 DEF X!Prepare
    <2>3. X!Activate(s, c) \in ServerStates
        BY DEF X!Activate, ServerStates
    <2> QED BY <2>2, <2>3 DEF ServerStep
<1>3. X!BuiltServer \in ServerStates
    BY DEF X!BuiltServer, ServerStates
<1>4. Steps(n, ServerStates, next)
    <2> HIDE DEF n
    <2> QED BY <1>1, <1>2 DEF Steps
<1>5. PICK g : Leads(n, ServerStates, next, X!BuiltServer, g)
    <2> HIDE DEF n, next
    <2> QED BY <1>1, <1>3, <1>4, StepByStep
<1>6. F(g)
    <2> HIDE DEF n
    <2>1. ASSUME NEW k \in 0 .. n, k # 0 PROVE k \in 1 .. n /\ g[k - 1] \in ServerStates
        BY <1>1, <1>5, <2>1 DEF Leads
    <2>2. \A k \in 0 .. n : g[k] = IF k = 0 THEN X!BuiltServer ELSE ServerStep(kind, g[k - 1], calls[k])
        BY <1>5, <2>1 DEF Leads
    <2>3. g \in [0 .. n -> ServerStates]
        BY <1>5 DEF Leads
    <2> HIDE DEF next
    <2> QED BY <2>2, <2>3
<1>7. F(after)
    <2> HIDE DEF F
    <2> QED BY <1>6
<1>8. after[0] = X!BuiltServer /\ \A k \in 1 .. n : after[k] = ServerStep(kind, after[k - 1], calls[k])
    <2> HIDE DEF n, after
    <2> QED BY <1>1, <1>7
<1>9. after \in [0 .. n -> ServerStates]
    <2> DEFINE T == {k \in 0 .. n : after[k] \in ServerStates}
    <2> HIDE DEF n, after
    <2>1. 0 \in T
        BY <1>1, <1>3, <1>8
    <2>2. ASSUME NEW k \in 0 .. n - 1, k \in T PROVE k + 1 \in T
        <3>1. k + 1 \in 1 .. n /\ k + 1 \in 0 .. n /\ (k + 1) - 1 = k
            BY <1>1
        <3>2. after[k + 1] = ServerStep(kind, after[k], calls[k + 1])
            BY <1>8, <3>1
        <3> QED BY <1>1, <1>2, <2>2, <3>1, <3>2
    <2>3. \A k \in 0 .. n : k \in T
        <3> HIDE DEF T
        <3> QED BY <1>1, <2>1, <2>2, UpTo
    <2> QED BY <1>7, <2>3
<1>10. X!Served(kind, calls) = after[n]
    BY DEF X!Served, ServerStep
<1> HIDE DEF after, n
<1> QED BY <1>8, <1>9, <1>10 DEF n

\* A server that is called in any order and as often as somebody likes has at most one task, after
\* a port was bound and its factory worked, and has it when all the Registry calls works.
LEMMA ServesOnceCorrect ==
    ASSUME NEW kind, NEW calls \in Seq(ServerCall)
    PROVE  X!ServesOnce(kind, calls)
<1> DEFINE n == Len(calls)
           Works(i) == calls[i].works /\ (kind = "grpc" /\ calls[i].how = "prepare" => calls[i].parses)
           Bound(k) == \E i \in 1 .. k : calls[i].how = "prepare" /\ Works(i)
           Begun(k) == \E i, j \in 1 .. k : i < j /\ calls[i].how = "prepare" /\ calls[j].how = "activate" /\ Works(i) /\ Works(j)
<1>1. PICK f \in [0 .. n -> ServerStates] :
          /\ f[0] = X!BuiltServer
          /\ \A k \in 1 .. n : f[k] = ServerStep(kind, f[k - 1], calls[k])
          /\ X!Served(kind, calls) = f[n]
    BY ServerSteps
<1>2. n \in Nat /\ DOMAIN calls = 1 .. n /\ \A k \in 1 .. n : calls[k] \in ServerCall
    OBVIOUS
<1> DEFINE Fine(k) == /\ f[k].tasks \in {0, 1}
                      /\ f[k].tasks = 1 => ~f[k].factory /\ Begun(k)
                      /\ f[k].listener => Bound(k)
           T == {k \in 0 .. n : Fine(k)}
<1>3. 0 \in T
    <2> HIDE DEF Bound, Begun, n
    <2> QED BY <1>1, <1>2 DEF X!BuiltServer
<1>4. ASSUME NEW k \in 0 .. n - 1, k \in T PROVE k + 1 \in T
    <2> HIDE DEF n
    <2>1. k + 1 \in 1 .. n /\ k + 1 \in 0 .. n /\ (k + 1) - 1 = k /\ k \in 0 .. n
        BY <1>2
    <2>2. f[k + 1] = ServerStep(kind, f[k], calls[k + 1]) /\ f[k] \in ServerStates /\ calls[k + 1] \in ServerCall
        BY <1>1, <1>2, <2>1
    <2>3. Bound(k) => Bound(k + 1)
        BY <2>1
    <2>4. Begun(k) => Begun(k + 1)
        BY <2>1
    <2>5. CASE calls[k + 1].how = "prepare"
        <3>1. calls[k + 1].works /\ (kind = "grpc" => calls[k + 1].parses) => Bound(k + 1)
            BY <2>1, <2>5
        <3>2. f[k + 1] = IF (kind = "grpc" => calls[k + 1].parses) /\ calls[k + 1].works THEN [f[k] EXCEPT !.listener = TRUE] ELSE f[k]
            BY <2>2, <2>5 DEF ServerStep, X!Prepare
        <3> HIDE DEF Bound, Begun
        <3>3. Fine(k + 1)
            BY <1>4, <2>2, <2>3, <2>4, <3>1, <3>2 DEF ServerStates
        <3> HIDE DEF Fine
        <3> QED BY <2>1, <3>3
    <2>6. CASE calls[k + 1].how = "activate"
        <3>1. Bound(k) /\ calls[k + 1].works => Begun(k + 1)
            BY <2>1, <2>6
        <3>2. f[k + 1] = [listener |-> FALSE, factory |-> FALSE,
                          tasks |-> f[k].tasks + IF f[k].listener /\ f[k].factory /\ calls[k + 1].works THEN 1 ELSE 0]
            BY <2>2, <2>6 DEF ServerStep, X!Activate
        <3> HIDE DEF Bound, Begun
        <3>3. Fine(k + 1)
            BY <1>4, <2>2, <2>3, <2>4, <3>1, <3>2 DEF ServerStates
        <3> HIDE DEF Fine
        <3> QED BY <2>1, <3>3
    <2> QED BY <2>2, <2>5, <2>6 DEF ServerCall
<1>5. Fine(n)
    <2> HIDE DEF Fine, n
    <2>1. \A k \in 0 .. n : k \in T
        <3> HIDE DEF T
        <3> QED BY <1>2, <1>3, <1>4, UpTo
    <2> QED BY <1>2, <2>1
<1>6. ASSUME [i \in DOMAIN calls |-> calls[i].how] = <<"prepare", "activate">>
      PROVE  f[n].tasks = 1 <=> Works(1) /\ Works(2)
    <2>1. n = 2 /\ calls[1].how = "prepare" /\ calls[2].how = "activate"
        <3> DEFINE h == [i \in DOMAIN calls |-> calls[i].how]
        <3>1. DOMAIN h = 1 .. 2 /\ h[1] = "prepare" /\ h[2] = "activate"
            BY <1>6
        <3>2. DOMAIN h = 1 .. n
            BY <1>2
        <3> HIDE DEF n
        <3>3. n = 2
            BY <1>2, <3>1, <3>2
        <3> QED BY <1>2, <3>1, <3>3
    <2> HIDE DEF n
    <2>2. f[1] = X!Prepare(kind, X!BuiltServer, calls[1])
        BY <1>1, <2>1 DEF ServerStep
    <2>3. f[2] = X!Activate(f[1], calls[2])
        BY <1>1, <2>1 DEF ServerStep
    <2>4. calls[1] \in ServerCall /\ calls[2] \in ServerCall
        BY <1>2, <2>1
    <2> QED BY <2>1, <2>2, <2>3, <2>4 DEF X!Prepare, X!Activate, X!BuiltServer, ServerCall
<1>7. f[n].tasks = 1 => \E i, j \in DOMAIN calls : i < j /\ calls[i].how = "prepare" /\ calls[j].how = "activate" /\ Works(i) /\ Works(j)
    BY <1>2, <1>5
<1>8. f[n].tasks <= 1
    BY <1>5
<1> HIDE DEF Fine, n
<1> QED BY <1>1, <1>6, <1>7, <1>8 DEF X!ServesOnce

----------------------------------------------------------------------------
(* All of them, in every call.                                              *)

\* The enums of the calls are enums.
LEMMA SomeEnumsAre ==
    ASSUME NEW Ch, {"0", "1", "2", "9"} \subseteq Ch, NEW enum \in SomeEnums
    PROVE  IsEnum(enum, Ch)
<1>1. ASSUME NEW n \in Nat PROVE Zeros(n) \in Seq(Ch)
    BY DEF Zeros
<1>2. ASSUME NEW n \in Nat \ {0}, NEW last \in Ch PROVE Code(n, last) \in Seq(Ch)
    <2>1. Zeros(n - 1) \in Seq(Ch)
        BY <1>1
    <2> QED BY <2>1, AppendProperties DEF Code
<1> DEFINE Codes == {Code(5, "0"), Code(5, "1"), Code(3, "1"), [Code(3, "9") EXCEPT ![1] = "9", ![2] = "9"]}
<1>3. Codes \in SUBSET Seq(Ch) /\ Code(5, "2") \in Seq(Ch)
    <2>1. ASSUME NEW s \in Seq(Ch) PROVE [s EXCEPT ![1] = "9", ![2] = "9"] \in Seq(Ch)
        <3>1. PICK n \in Nat : s \in [1 .. n -> Ch]
            BY SeqDef
        <3>2. [s EXCEPT ![1] = "9", ![2] = "9"] \in [1 .. n -> Ch]
            BY <3>1
        <3> QED BY <3>2, SeqDef
    <2>2. Code(5, "0") \in Seq(Ch) /\ Code(5, "1") \in Seq(Ch) /\ Code(5, "2") \in Seq(Ch) /\ Code(3, "1") \in Seq(Ch) /\ Code(3, "9") \in Seq(Ch)
        BY <1>2
    <2> QED BY <2>1, <2>2
<1>4. Zeros(3) \in Seq(Ch) /\ C!InternalProject \in Seq(Ch) /\ <<"0", "9">> \in Seq(Ch) /\ <<"9", "9", "9">> \in Seq(Ch)
    BY <1>1 DEF C!InternalProject
<1> DEFINE Templates(d) == {IF d = "hy_lock_type" THEN {} ELSE {[vars |-> {"x"}, valid |-> TRUE]}}
           V(d) == {[code |-> {c}, tpl |-> t] : c \in Codes, t \in Templates(d)}
                   \union {[code |-> {Code(5, "2")}, tpl |-> t] : t \in {{}, {[vars |-> {}, valid |-> FALSE]}}}
<1>5. PICK d \in DOMAIN C!Total :
           \E p \in {Zeros(3), C!InternalProject}, m \in Opt({<<"0", "9">>}), int \in Opt({<<"9", "9", "9">>}),
              v \in [1 .. 1 -> V(d)] \union [1 .. 2 -> V(d)] :
              enum = [derive |-> d, project |-> p, module |-> m, internal |-> int, variants |-> v]
    BY DEF SomeEnums
<1> HIDE DEF Codes, V
<1>6. PICK p \in {Zeros(3), C!InternalProject}, m \in Opt({<<"0", "9">>}), int \in Opt({<<"9", "9", "9">>}),
           v \in [1 .. 1 -> V(d)] \union [1 .. 2 -> V(d)] :
           enum = [derive |-> d, project |-> p, module |-> m, internal |-> int, variants |-> v]
    BY <1>5
<1>7. \A x \in V(d) : x.code \in SUBSET Seq(Ch)
    BY <1>3 DEF V
<1>8. \A i \in DOMAIN v : v[i].code \in SUBSET Seq(Ch)
    BY <1>7
<1>9. m \in SUBSET Seq(Ch) /\ int \in SUBSET Seq(Ch) /\ p \in Seq(Ch)
    BY <1>4 DEF Opt
<1>10. d \in {"hy_err", "hy_lock_type", "hy_lock_key"}
    BY DEF C!Total
<1> QED BY <1>6, <1>8, <1>9, <1>10 DEF IsEnum

\* A call that sets up logging.
LogCall(layers, console, all, there, installed, taken) ==
    \E refused \in SUBSET DOMAIN layers :
        /\ installed => taken
        /\ Cardinality({i \in DOMAIN layers : layers[i].filter # ""}) + Cardinality({console.filter} \ {""}) + Cardinality(refused) + Len(all[1]) <= 2
        /\ call = [of |-> "log", there |-> there, refused |-> refused, installed |-> installed, taken |-> taken,
                   cfg |-> [root |-> all[1], layers |-> layers, filter |-> all[2], console |-> console]]

\* What is called, by the kind of call.
LEMMA WhatIsCalled ==
    /\ DateCalls => call.of \in {"edges", "local", "range"}
    /\ DbCalls => call.of = "db"
    /\ AppCalls => call.of \in {"app", "apart", "env"}
    /\ LogCalls => call.of = "log"
    /\ CodeCalls => call.of \in {"codes", "message"}
    /\ KeyCalls => call.of \in {"numbers", "timeout", "pages", "tables"}
    /\ RedactCalls => call.of = "redact"
    /\ HttpCalls => call.of \in {"headers", "texts", "write"}
    /\ ServiceCalls => call.of \in {"redis", "s3", "servers", "server", "request"}
<1>1. DateCalls => call.of \in {"edges", "local", "range"}
    BY DEF DateCalls
<1>2. DbCalls => call.of = "db"
    BY DEF DbCalls
<1>3. AppCalls => call.of \in {"app", "apart", "env"}
    <2>1. AppCalls => \/ \E args, v : call = [of |-> "app", disk |-> Disk, args |-> args, vars |-> v]
                      \/ \E n1, n2, v : call = [of |-> "apart", first |-> n1, second |-> n2, var |-> v]
                      \/ \E v, n : call = [of |-> "env", vars |-> v, name |-> n]
        BY Zenon DEF AppCalls
    <2> QED BY <2>1
<1>4. LogCalls => call.of = "log"
    <2> SUFFICES ASSUME LogCalls PROVE call.of = "log"
        OBVIOUS
    <2>1. PICK layers \in UNION {[1 .. n -> SomeLayers] : n \in 0 .. 2}, console \in [disable : BOOLEAN, filter : {"", "warn", BadFilter}],
               all \in {<<<<"r">>, "info">>, <<<<>>, "">>}, there \in {{}, {<<"r">>}}, installed \in BOOLEAN, taken \in BOOLEAN :
               LogCall(layers, console, all, there, installed, taken)
        BY Zenon DEF LogCalls, LogCall
    <2>2. PICK refused : call = [of |-> "log", there |-> there, refused |-> refused, installed |-> installed, taken |-> taken,
                                 cfg |-> [root |-> all[1], layers |-> layers, filter |-> all[2], console |-> console]]
        BY <2>1, Zenon DEF LogCall
    <2> QED BY <2>2
<1>5. CodeCalls => call.of \in {"codes", "message"}
    BY DEF CodeCalls
<1>6. KeyCalls => call.of \in {"numbers", "timeout", "pages", "tables"}
    BY DEF KeyCalls
<1>7. RedactCalls => call.of = "redact"
    BY DEF RedactCalls
<1>8. HttpCalls => call.of \in {"headers", "texts", "write"}
    <2>1. HttpCalls => \/ \E cfg, parts, config : call = [of |-> "headers", cfg |-> cfg, parts |-> parts, config |-> config]
                       \/ \E cfg, decoder, resp : call = [of |-> "texts", cfg |-> cfg, decoder |-> decoder, resp |-> resp]
                       \/ \E chunks, room : call = [of |-> "write", chunks |-> chunks, room |-> room]
        BY Zenon DEF HttpCalls
    <2> QED BY <2>1
<1>9. ServiceCalls => call.of \in {"redis", "s3", "servers", "server", "request"}
    <2>1. ServiceCalls => \/ \E a, b : call = [of |-> "redis", first |-> a, second |-> b]
                          \/ \E cfg : call = [of |-> "s3", cfg |-> cfg]
                          \/ \E a, b : call = [of |-> "servers", first |-> a, second |-> b]
                          \/ \E kind, calls : call = [of |-> "server", kind |-> kind, calls |-> calls]
                          \/ \E cfg, request : call = [of |-> "request", cfg |-> cfg, request |-> request]
        BY Zenon DEF ServiceCalls
    <2> QED BY <2>1
<1> QED BY <1>1, <1>2, <1>3, <1>4, <1>5, <1>6, <1>7, <1>8, <1>9

\* The days of the calls are between the years -9999 and 9999.
LEMMA SomeDaysAre == SomeDays \subseteq Days
<1> DEFINE lo == NewYear(MinYear)
           hi == NewYear(MaxYear + 1)
<1>1. lo = -3652425 /\ hi = 3652059
    BY SMTT(30) DEF NewYear, MinYear, MaxYear
<1>2. ASSUME NEW n \in Int, lo <= n, n < hi PROVE n \in Days
    BY SMTT(30), <1>1, <1>2 DEF Days
<1>3. ASSUME NEW y \in {1900, 2000, 2023, 2024}, NEW m \in {1, 2, 3, 4, 12}
      PROVE  FirstOf(y, m) \in Int /\ 690000 < FirstOf(y, m) /\ FirstOf(y, m) < 740000
    BY SMTT(30) DEF FirstOf, NewYear, Before, IsLeap
<1> HIDE DEF lo, hi
<1>4. \A n \in {lo + k : k \in 0 .. 12} : n \in Days
    BY SMTT(30), <1>1, <1>2
<1>5. \A n \in {hi - k : k \in 1 .. 40} : n \in Days
    BY SMTT(30), <1>1, <1>2
<1>6. ASSUME NEW y \in {1900, 2000, 2023, 2024}, NEW m \in {1, 2, 3, 4, 12} PROVE Near(FirstOf(y, m), 2) \subseteq Days
    BY SMTT(30), <1>1, <1>2, <1>3 DEF Near
<1> QED BY <1>4, <1>5, <1>6 DEF SomeDays, lo, hi

\* Dates: the edges of every unit meet, whichever day or instant is asked for and whenever the
\* clocks are changed, and what is written of instants and ranges is read back.
THEOREM DatesRightCorrect == Spec => []DatesRight
<1>1. FirstOf(2024, 3) \in Int /\ Change = TicksPerDay * FirstOf(2024, 3) /\ Change \in Int /\ (\A t \in Near(Change, 9) : t \in Int /\ Known(t))
    <2> DEFINE day == FirstOf(2024, 3)
    <2>1. day \in Int /\ 690000 < day /\ day < 740000
        BY SMTT(30) DEF FirstOf, NewYear, Before, IsLeap
    <2> HIDE DEF day
    <2>2. Change = TicksPerDay * day /\ Change \in Int
        BY <2>1, TicksAssumption DEF Change, Midnight, day
    <2>3. ASSUME NEW t \in Near(Change, 9) PROVE t \in Int /\ Known(t)
        <3> DEFINE q == t \div TicksPerDay
        <3>1. t \in Int /\ TicksPerDay * day - 9 <= t /\ t <= TicksPerDay * day + 9
            BY <2>2 DEF Near
        <3>2. q \in Int /\ t % TicksPerDay \in 0 .. TicksPerDay - 1 /\ t = TicksPerDay * q + (t % TicksPerDay)
            BY <3>1, Divided, TicksAssumption
        <3> HIDE DEF q
        <3>3. day - 10 <= q /\ q <= day + 10
            BY <2>1, <3>1, <3>2, TicksAssumption
        <3>4. q \in Days
            BY SMTT(30), <2>1, <3>2, <3>3, DaysAre
        <3> QED BY <3>1, <3>4 DEF Known, DayOf, q
    <2> QED BY <2>1, <2>2, <2>3 DEF day
<1>5. ASSUME NEW t \in FirstAndLast PROVE t \in Int /\ Known(t)
    <2> DEFINE first == NewYear(MinYear)
               after == NewYear(MaxYear + 1)
               q == t \div TicksPerDay
    <2>1. first \in Int /\ after \in Int /\ first + 2 <= after /\ Days = first .. after - 1
        <3>1. first = -3652425 /\ after = 3652059
            BY DaysAre
        <3>2. Days = first .. after - 1
            BY DEF Days
        <3> QED BY <3>1, <3>2
    <2> HIDE DEF first, after
    <2>2. TicksPerMinute \in Nat /\ TicksPerMinute <= TicksPerDay /\ TicksPerDay \in Nat \ {0}
        <3>1. ASSUME NEW long \in Nat \ {0}, NEW short \in Nat \ {0}, long % short = 0 PROVE short <= long
            <4>1. long \div short \in Int /\ long = short * (long \div short)
                BY <3>1, Divided
            <4>2. ASSUME long < short PROVE FALSE
                <5>1. long = short * 0 + long /\ long \in 0 .. short - 1
                    BY <4>2
                <5>2. long % short = long
                    BY <5>1, DividedOnce
                <5> QED BY <3>1, <5>2
            <4> QED BY <4>2
        <3> QED BY <3>1, TicksAssumption
    <2>3. \/ \E k \in 0 .. TicksPerMinute : t = TicksPerDay * first + k
          \/ \E k \in 1 .. TicksPerMinute + 1 : t = TicksPerDay * after - k
        BY <2>1, <2>2 DEF FirstAndLast, Midnight, first, after
    <2>4. q \in Int /\ t % TicksPerDay \in 0 .. TicksPerDay - 1 /\ t = TicksPerDay * q + (t % TicksPerDay) /\ t \in Int
        <3>1. t \in Int
            BY <2>1, <2>2, <2>3
        <3> QED BY <2>2, <3>1, Divided
    <2> HIDE DEF q
    <2>5. q \in {first, first + 1, after - 2, after - 1}
        <3>1. ASSUME NEW k \in 0 .. TicksPerMinute, t = TicksPerDay * first + k PROVE q \in {first, first + 1}
            <4>1. TicksPerDay * (q - first) <= TicksPerDay /\ -TicksPerDay < TicksPerDay * (q - first)
                BY <2>1, <2>2, <2>4, <3>1
            <4>2. q - first <= 1 /\ 0 <= q - first
                BY <2>1, <2>2, <2>4, <4>1
            <4> QED BY <2>1, <2>4, <4>2
        <3>2. ASSUME NEW k \in 1 .. TicksPerMinute + 1, t = TicksPerDay * after - k PROVE q \in {after - 2, after - 1}
            <4>1. TicksPerDay * (after - q) <= 2 * TicksPerDay /\ 0 < TicksPerDay * (after - q)
                BY <2>1, <2>2, <2>4, <3>2
            <4>2. after - q <= 2 /\ 1 <= after - q
                BY <2>1, <2>2, <2>4, <4>1
            <4> QED BY <2>1, <2>4, <4>2
        <3> QED BY <2>3, <3>1, <3>2
    <2>6. q \in Days
        BY <2>1, <2>5
    <2> QED BY <2>4, <2>6 DEF Known, DayOf, q
\* The zones of the calls are changed at a second, by offsets in minutes.
<1>2. ASSUME NEW z \in Zones PROVE RegularZone(z) /\ IsZone(z)
    <2> DEFINE Clocks == {TicksPerMinute, -TicksPerMinute, 2 * TicksPerMinute}
               Times == {Change - TicksPerMinute, Change, Change + TicksPerSecond, Change + TicksPerMinute}
    <2>1. PICK b \in Clocks, a \in Clocks, t \in Times : z = [before |-> b, after |-> a, at |-> t - b]
        BY DEF Zones
    <2>2. a \in Int /\ b \in Int /\ t \in Int /\ TicksPerSecond \in Nat \ {0} /\ TicksPerMinute \in Nat \ {0}
        BY <1>1, TicksAssumption
    <2>3. ASSUME NEW c \in Clocks PROVE c % TicksPerMinute = 0
        <3>1. PICK k \in {1, -1, 2} : c = TicksPerMinute * k
            BY TicksAssumption
        <3>2. c = TicksPerMinute * k + 0 /\ 0 \in 0 .. TicksPerMinute - 1 /\ c \in Int /\ k \in Int
            BY <2>2, <3>1
        <3> QED BY <2>2, <3>2, DividedOnce
    \* Multiples of a second.
    <2>4. ASSUME NEW x \in Int, NEW y \in Int, x % TicksPerSecond = 0, y % TicksPerSecond = 0
          PROVE  (x + y) % TicksPerSecond = 0 /\ (x - y) % TicksPerSecond = 0
        <3> DEFINE p == x \div TicksPerSecond
                   q == y \div TicksPerSecond
        <3>1. p \in Int /\ q \in Int /\ x = TicksPerSecond * p /\ y = TicksPerSecond * q
            BY <2>2, <2>4, Divided, SMTT(30)
        <3> HIDE DEF p, q
        <3>2. /\ p + q \in Int /\ p - q \in Int /\ x + y \in Int /\ x - y \in Int /\ 0 \in 0 .. TicksPerSecond - 1
              /\ x + y = TicksPerSecond * (p + q) + 0 /\ x - y = TicksPerSecond * (p - q) + 0
            BY <2>2, <3>1
        <3> QED BY <2>2, <3>2, DividedOnce
    <2>5. Change % TicksPerSecond = 0 /\ Change \in Int
        <3>1. Change = TicksPerDay * FirstOf(2024, 3) + 0 /\ 0 \in 0 .. TicksPerDay - 1
            BY <1>1, TicksAssumption
        <3>2. Change % TicksPerDay = 0
            BY <1>1, <3>1, DividedOnce, TicksAssumption
        <3> QED BY <1>1, <2>2, <3>2, UnitsDivide, MultipleOf, TicksAssumption
    <2>6. TicksPerMinute % TicksPerSecond = 0 /\ TicksPerSecond % TicksPerSecond = 0 /\ 0 % TicksPerSecond = 0
        <3>1. TicksPerMinute - TicksPerMinute = 0 /\ TicksPerMinute \in Int
            BY <2>2
        <3> QED BY <2>2, <2>4, <3>1, UnitsDivide, TicksAssumption
    <2>7. \A c \in Clocks : c \in Int /\ c % TicksPerSecond = 0
        <3>1. /\ TicksPerMinute \in Int /\ -TicksPerMinute \in Int /\ 2 * TicksPerMinute \in Int /\ 0 \in Int
              /\ -TicksPerMinute = 0 - TicksPerMinute /\ 2 * TicksPerMinute = TicksPerMinute + TicksPerMinute
            BY <2>2
        <3>2. (-TicksPerMinute) % TicksPerSecond = 0 /\ (2 * TicksPerMinute) % TicksPerSecond = 0
            BY <2>4, <2>6, <3>1
        <3> QED BY <2>6, <3>1, <3>2
    <2>8. (t - b) % TicksPerSecond = 0
        <3>1. TicksPerMinute \in Int /\ TicksPerSecond \in Int
            BY <2>2
        <3>2. /\ (Change - TicksPerMinute) % TicksPerSecond = 0 /\ (Change + TicksPerSecond) % TicksPerSecond = 0
              /\ (Change + TicksPerMinute) % TicksPerSecond = 0
            BY <2>4, <2>5, <2>6, <3>1
        <3>3. t % TicksPerSecond = 0
            BY <2>5, <3>2
        <3> QED BY <2>2, <2>4, <2>7, <3>3
    <2> QED BY <2>1, <2>2, <2>3, <2>8 DEF RegularZone, IsZone
<1>3. Init => DatesRight
    <2>1. CASE DateCalls
        <3>1. CASE \E u \in Units, d \in SomeDays : call = [of |-> "edges", unit |-> u, day |-> d]
            BY <3>1, SomeDaysAre, EdgesRightCorrect DEF DatesRight
        <3>2. CASE \E u \in Units, z \in Zones, t \in Near(Change, 28) \union {LastTick(NewYear(MaxYear + 1) - 1), Midnight(NewYear(MinYear))} :
                       call = [of |-> "local", unit |-> u, zone |-> z, at |-> t]
            <4>1. PICK u \in Units, z \in Zones, t \in Near(Change, 28) \union {LastTick(NewYear(MaxYear + 1) - 1), Midnight(NewYear(MinYear))} :
                           call = [of |-> "local", unit |-> u, zone |-> z, at |-> t]
                BY <3>2
            <4>2. t \in Int
                BY <1>1, TicksAssumption, NewYearIs DEF Near, LastTick, Midnight, MinYear, MaxYear
            <4>3. LocalRight(z, u, t)
                BY <1>2, <4>2, LocalRightCorrect
            <4> QED BY <4>1, <4>3 DEF DatesRight
        <3>3. CASE \E z \in Zones : \E times \in {Near(Change, 9), FirstAndLast} : \E a \in times, b \in times :
                       a <= b /\ call = [of |-> "range", zone |-> z, range |-> <<a, b>>]
            <4>1. PICK z \in Zones, a \in Near(Change, 9) \union FirstAndLast, b \in Near(Change, 9) \union FirstAndLast :
                           a <= b /\ call = [of |-> "range", zone |-> z, range |-> <<a, b>>]
                BY <3>3
            <4>2. RangesRight(z, <<a, b>>)
                BY <1>1, <1>2, <1>5, <4>1, RangesRightCorrect
            <4> QED BY <4>1, <4>2 DEF DatesRight
        <3> QED BY <2>1, <3>1, <3>2, <3>3 DEF DateCalls
    <2>2. CASE DbCalls \/ AppCalls \/ LogCalls \/ CodeCalls \/ KeyCalls \/ RedactCalls \/ HttpCalls \/ ServiceCalls
        <3>1. call.of \notin {"edges", "local", "range"}
            BY <2>2, WhatIsCalled
        <3> QED BY <3>1 DEF DatesRight
    <2> QED BY <2>1, <2>2 DEF Init
<1>4. DatesRight /\ [Next]_vars => DatesRight'
    <2>1. [Next]_vars => UNCHANGED call
        BY DEF Next, Return, vars
    <2> QED BY <2>1 DEF DatesRight
<1> QED BY <1>3, <1>4, PTL DEF Spec

\* What is different stays different, whatever is called: codes, locks, timeouts, pages and
\* tables.
THEOREM ValuesExactCorrect == Spec => []ValuesExact
<1>1. Init => ValuesExact
    <2>1. CASE DateCalls \/ DbCalls \/ AppCalls \/ LogCalls \/ RedactCalls \/ HttpCalls \/ ServiceCalls
        <3>1. call.of \notin {"codes", "message", "numbers", "timeout", "pages", "tables"}
            BY <2>1, WhatIsCalled
        <3> QED BY <3>1 DEF ValuesExact
    <2>2. CASE CodeCalls
        <3>1. CASE \E e \in SomeEnums : \E f \in {e} \union {g \in SomeEnums : Len(g.variants) = 1} : call = [of |-> "codes", enums |-> <<e, f>>]
            <4>1. PICK e \in SomeEnums, f \in SomeEnums : call.of = "codes" /\ call.enums = <<e, f>>
                BY <3>1
            <4> DEFINE Ch == {"0", "1", "2", "9", ":"}
            <4>2. \A i \in DOMAIN call.enums : IsEnum(call.enums[i], Ch)
                BY <4>1, SomeEnumsAre
            <4>3. 0 \notin DOMAIN call.enums
                BY <4>1
            <4>4. {<<>>, <<":">>, <<"0">>} \in SUBSET Seq(Ch) /\ "9" \in Ch
                OBVIOUS
            <4> HIDE DEF Ch
            <4>5. C!CodesApart(call.enums, {<<>>, <<":">>, <<"0">>})
                BY <4>2, <4>3, <4>4, CodesApartCorrect
            <4> QED BY <4>1, <4>5 DEF ValuesExact
        <3>2. CASE \E v \in SUBSET {"x", "y"}, a \in SomeArgs, n \in 0 .. 2 : call = [of |-> "message", vars |-> v, args |-> a, causes |-> n]
            BY <3>2 DEF ValuesExact
        <3> QED BY <2>2, <3>1, <3>2 DEF CodeCalls
    <2>3. CASE KeyCalls
        <3>1. CASE \E a \in L!Signed(Ints) \X L!Signed(Ints), b \in L!Signed(Ints) \X L!Signed(Ints) : call = [of |-> "numbers", first |-> a, second |-> b]
            BY <3>1, NumbersApartCorrect DEF ValuesExact
        <3>2. CASE \E d \in 0 .. 5 \union Near(2000, 2) \union Near(2 * MaxMillis, 2) : call = [of |-> "timeout", duration |-> d]
            <4>1. PICK d \in 0 .. 5 \union Near(2000, 2) \union Near(2 * MaxMillis, 2) : call = [of |-> "timeout", duration |-> d]
                BY <3>2
            <4>2. d \in Nat
                BY NumbersAssumption DEF Near
            <4> QED BY <4>1, <4>2, TimeoutsExactCorrect DEF ValuesExact
        <3>3. CASE \E total \in 0 .. 14, size \in 0 .. 7 : call = [of |-> "pages", total |-> total, size |-> size]
            BY <3>3, PagesPartitionCorrect DEF ValuesExact
        <3>4. CASE \E n, k \in {<<"app">>, <<"app", "bar">>, <<"app", "bar", "config">>, <<"bar", "app">>, <<"config">>},
                      c, d \in Opt({<<>>, <<"app", "bar">>, <<"config">>, <<"bar">>}) :
                      call = [of |-> "tables", names |-> <<n, k>>, custom |-> <<c, d>>]
            <4> DEFINE Ch == {"app", "bar", "config"}
            <4> DEFINE Names == {<<"app">>, <<"app", "bar">>, <<"app", "bar", "config">>, <<"bar", "app">>, <<"config">>}
                       Customs == {<<>>, <<"app", "bar">>, <<"config">>, <<"bar">>}
            <4>1. Names \subseteq Seq(Ch) /\ Customs \subseteq Seq(Ch)
                OBVIOUS
            <4> HIDE DEF Ch, Names, Customs
            <4>2. Opt(Customs) \subseteq SUBSET Seq(Ch)
                BY <4>1 DEF Opt
            <4>3. PICK n \in Seq(Ch), k \in Seq(Ch), c \in SUBSET Seq(Ch), d \in SUBSET Seq(Ch) :
                      call = [of |-> "tables", names |-> <<n, k>>, custom |-> <<c, d>>]
                BY <3>4, <4>1, <4>2 DEF Names, Customs
            <4>4. \A p \in TablePrefix(c, n), q \in TablePrefix(d, k) : TablesApart(p, q)
                BY TablesApartCorrect
            <4>5. call.of = "tables" /\ call.names[1] = n /\ call.names[2] = k /\ call.custom[1] = c /\ call.custom[2] = d
                BY <4>3
            <4>6. \A a, b \in Asks : L!LocksApart(a, b)
                <5> DEFINE chars == {"code", ":", "i64:", "1", "a", "b", "c", "A"}
                           texts == {<<"code", ":">>, <<"code", ":", "1">>, <<"code", ":", "i64:", "1">>, <<"code", ":", "a", "b", "c">>,
                                     <<"code", ":", "a">>, <<"code", ":", "A">>}
                <5>1. texts \in SUBSET Seq(chars) /\ \A t \in texts : Len(t) # 0 /\ t[1] = "code"
                    OBVIOUS
                <5>2. Asks \subseteq AnyAsk(texts)
                    BY DEF Asks, AnyAsk
                <5> HIDE DEF chars, texts
                <5>3. \A t \in texts : Len(t) # 0 /\ NoCase(t[1]) \notin {"i64:", "i32:"}
                    BY <5>1, NoCaseAssumption
                <5> QED BY <5>1, <5>2, <5>3, LocksApartCorrect
            <4> QED BY <4>4, <4>5, <4>6 DEF ValuesExact
        <3> QED BY <2>3, <3>1, <3>2, <3>3, <3>4 DEF KeyCalls
    <2> QED BY <2>1, <2>2, <2>3 DEF Init
<1>2. ValuesExact /\ [Next]_vars => ValuesExact'
    <2>1. [Next]_vars => UNCHANGED call
        BY DEF Next, Return, vars
    <2> QED BY <2>1 DEF ValuesExact
<1> QED BY <1>1, <1>2, PTL DEF Spec

\* The settings of the calls of a database component.
LEMMA SomeDbIs ==
    ASSUME DbCalls
    PROVE  EverythingUsed(call)
<1> DEFINE K == {"ssl", "application_name"}
           V == {"on", "off", <<"x">>}
           A == {"app", "config", "bar"}
           PoolKeys == {"max", "min", "acquire", "idle", "life", "test", "lazy"}
<1>1. PICK e \in Engines, f \in {"sqlx", "seaorm"}, u \in 0 .. 8, h \in {"main", Wrong}, p \in SomeParams, a \in {<<>>, <<"app">>},
           pool \in Opt(SomePool), log \in Opt({[level |-> "debug", slow |-> "off"]}), live \in Opt(SomeLive), lock \in Opt(SomeLock), rows \in BOOLEAN :
           call = [of |-> "db", engine |-> e, framework |-> f, uses |-> u, connect |-> Hosts(h), params |-> p, appName |-> a,
                   pool |-> pool, log |-> log, live |-> live, lock |-> lock, rows |-> rows]
    <2>1. PICK e \in Engines, f \in {"sqlx", "seaorm"}, u \in 0 .. 8, h \in {"main", Wrong}, p \in SomeParams, a \in {<<>>, <<"app">>} :
               \E pool \in Opt(SomePool), log \in Opt({[level |-> "debug", slow |-> "off"]}), live \in Opt(SomeLive), lock \in Opt(SomeLock), rows \in BOOLEAN :
                   /\ f = "sqlx" => log = {}
                   /\ ~rows => e = "postgres" /\ u \in {4, 7} /\ h = "main" /\ p = <<>>
                   /\ e # "postgres" => \A s \in lock : s.prefix = {}
                   /\ \/ Cardinality(pool) + Cardinality(log) + Cardinality(live) + Cardinality(lock) <= 1
                      \/ u \in {6, 7} /\ pool = {} /\ log = {} /\ h = "main" /\ p = <<>>
                   /\ call = [of |-> "db", engine |-> e, framework |-> f, uses |-> u, connect |-> Hosts(h), params |-> p, appName |-> a,
                              pool |-> pool, log |-> log, live |-> live, lock |-> lock, rows |-> rows]
        BY Zenon DEF DbCalls
    <2>2. PICK pool \in Opt(SomePool), log \in Opt({[level |-> "debug", slow |-> "off"]}), live \in Opt(SomeLive), lock \in Opt(SomeLock), rows \in BOOLEAN :
                   call = [of |-> "db", engine |-> e, framework |-> f, uses |-> u, connect |-> Hosts(h), params |-> p, appName |-> a,
                           pool |-> pool, log |-> log, live |-> live, lock |-> lock, rows |-> rows]
        BY <2>1, ZenonT(60)
    <2> QED BY <2>2, ZenonT(60)
<1>2. call.params = p /\ call.appName = a /\ call.pool = pool /\ call.log = log /\ call.live = live /\ call.lock = lock
    BY <1>1
<1>3. p \in Seq(K \X V) /\ <<<<"ssl", "off">>>> \in Seq(K \X V) /\ <<>> \in Seq(K \X V)
    <2>1. <<>> \in Seq(K \X V)
        OBVIOUS
    <2> DEFINE on == <<"ssl", "on">>
               off == <<"ssl", "off">>
               named == <<"application_name", <<"x">>>>
               Pairs == K \X V
    <2>2. on \in Pairs /\ off \in Pairs /\ named \in Pairs
        OBVIOUS
    <2> HIDE DEF K, V, on, off, named, Pairs
    <2>3. <<on, off>> \in Seq(Pairs) /\ <<named>> \in Seq(Pairs) /\ <<off>> \in Seq(Pairs)
        BY <2>2
    <2>4. SomeParams = {<<>>, <<on, off>>, <<named>>}
        BY DEF SomeParams, on, off, named
    <2>5. <<off>> = <<<<"ssl", "off">>>>
        BY DEF off
    <2> QED BY <2>1, <2>3, <2>4, <2>5 DEF Pairs
<1>4. a \in Seq(A) /\ <<>> \in Seq(A) /\ <<"config", "bar">> \in Seq(A) /\ <<"bar">> \in Seq(A)
    <2>1. <<>> \in Seq(A) /\ <<"app">> \in Seq(A) /\ <<"config", "bar">> \in Seq(A) /\ <<"bar">> \in Seq(A)
        OBVIOUS
    <2>2. a \in {<<>>, <<"app">>}
        BY <1>1
    <2> QED BY <2>1, <2>2, Zenon
<1>5. AtMostOne(pool) /\ AtMostOne(log) /\ AtMostOne(live) /\ AtMostOne(lock)
    BY DEF AtMostOne, Opt
<1>6. \A S : \A x \in Opt(S) : AtMostOne(x)
    BY DEF AtMostOne, Opt
<1>7. \A s \in pool : DOMAIN s = PoolKeys
    BY DEF Opt, SomePool
<1> HIDE DEF K, V, A
\* A section with an override and without a prefix, or with a prefix alone.
<1>8. ASSUME NEW o \in SomeOverrides PROVE DOMAIN o.connect = Items /\ o.params \subseteq Seq(K \X V)
    <2>1. \A c \in SomeConnect : DOMAIN c = Items
        BY DEF SomeConnect, NoItems
    <2>2. NoItems \in SomeConnect
        BY DEF SomeConnect
    <2>3. o.connect \in SomeConnect /\ o.params \in {{}, {<<>>}, {<<<<"ssl", "off">>>>}}
        BY <2>2 DEF SomeOverrides
    <2> QED BY <1>3, <2>1, <2>3
<1>9. ASSUME NEW x \in SomePrefixes PROVE AtMostOne(x) /\ x \subseteq Seq(A)
    BY <1>4 DEF SomePrefixes, AtMostOne
<1>10. ASSUME NEW s \in SomeLive
       PROVE  /\ DOMAIN s.connect = Items /\ s.params \subseteq Seq(K \X V) /\ AtMostOne(s.prefix) /\ s.prefix \subseteq Seq(A)
              /\ AtMostOne(s.poll)
    <2>1. CASE s \in {[NoLive EXCEPT !.prefix = x] : x \in SomePrefixes}
        <3>1. PICK x \in SomePrefixes : s = [NoLive EXCEPT !.prefix = x]
            BY <2>1
        <3>2. s.prefix = x /\ s.connect = [i \in Items |-> {}] /\ s.params = {} /\ s.poll = {}
            BY <3>1 DEF NoLive
        <3> QED BY <1>9, <3>2 DEF AtMostOne
    <2>2. CASE s \notin {[NoLive EXCEPT !.prefix = x] : x \in SomePrefixes}
        <3>1. PICK o \in SomeOverrides, n \in Opt({0, 5}), k \in Opt({9}), t \in Opt({3}) :
                  s = [connect |-> o.connect, params |-> o.params, poll |-> n, keepRows |-> k, trimMins |-> t, prefix |-> {}]
            BY <2>2 DEF SomeLive
        <3>2. s.connect = o.connect /\ s.params = o.params /\ s.poll = n /\ s.prefix = {}
            BY <3>1
        <3>3. AtMostOne(n)
            BY <1>6
        <3> QED BY <1>8, <3>2, <3>3 DEF AtMostOne
    <2> QED BY <2>1, <2>2
<1>11. ASSUME NEW s \in SomeLock
       PROVE  /\ DOMAIN s.connect = Items /\ s.params \subseteq Seq(K \X V) /\ AtMostOne(s.prefix) /\ s.prefix \subseteq Seq(A)
              /\ AtMostOne(s.max)
    <2>1. CASE s \in {[NoLock EXCEPT !.prefix = x] : x \in SomePrefixes}
        <3>1. PICK x \in SomePrefixes : s = [NoLock EXCEPT !.prefix = x]
            BY <2>1
        <3>2. s.prefix = x /\ s.connect = [i \in Items |-> {}] /\ s.params = {} /\ s.max = {}
            BY <3>1 DEF NoLock
        <3> QED BY <1>9, <3>2 DEF AtMostOne
    <2>2. CASE s \notin {[NoLock EXCEPT !.prefix = x] : x \in SomePrefixes}
        <3>1. PICK o \in SomeOverrides, n \in Opt({2}) : s = [connect |-> o.connect, params |-> o.params, max |-> n, prefix |-> {}]
            BY <2>2 DEF SomeLock
        <3>2. s.connect = o.connect /\ s.params = o.params /\ s.max = n /\ s.prefix = {}
            BY <3>1
        <3>3. AtMostOne(n)
            BY <1>6
        <3> QED BY <1>8, <3>2, <3>3 DEF AtMostOne
    <2> QED BY <2>1, <2>2
<1>12. live \subseteq SomeLive /\ lock \subseteq SomeLock
    BY DEF Opt
<1>13. IsWritten(call, K, V, A)
    BY <1>2, <1>3, <1>4, <1>5, <1>7, <1>10, <1>11, <1>12 DEF IsWritten
<1> QED BY <1>13, EverythingUsedCorrect

\* The settings of the calls of an application.
LEMMA SomeAppIs ==
    ASSUME AppCalls
    PROVE  /\ call.of = "app" => SettingsWin(call.args, call.vars, call.disk)
           /\ call.of = "apart" => EnvironmentsApart(call.first, call.second, call.var)
           /\ call.of = "env" => VariablesWin(call.vars, call.name, "fallback")
<1> DEFINE Chars == {"a", "b", "A", "B", "bar", "=", "1", "2", "z", "ENV"}
           All == Chars \union UNION {{k[i] : i \in DOMAIN k} : k \in KnownKeys}
<1>1. Alphabet(All)
    BY DEF Alphabet
<1>2. \A k \in KnownKeys : IsKey(All, k)
    <2> SUFFICES ASSUME NEW k \in KnownKeys PROVE IsKey(All, k)
        OBVIOUS
    <2> DEFINE Own == {k[i] : i \in DOMAIN k}
    <2>1. k \in Seq(Own) /\ k # <<>> /\ Lower(k) = k /\ \A i \in DOMAIN k : k[i] # "="
        BY KeysAssumption
    <2>2. Own \subseteq All
        OBVIOUS
    <2> HIDE DEF Own, All
    <2>3. k \in Seq(All) /\ DOMAIN k = 1 .. Len(k)
        BY <2>1, <2>2, WiderSeq, LenProperties
    <2> QED BY <2>1, <2>3 DEF IsKey
<1>3. Chars \subseteq All
    OBVIOUS
<1>4. ASSUME NEW s \in Seq(Chars) PROVE s \in Seq(All)
    <2> HIDE DEF Chars, All
    <2> QED BY <1>3, WiderSeq
<1>5. SomeSets \subseteq Seq(Chars) /\ SomeVars \subseteq Seq(Chars) /\ EnvVar \in Seq(Chars) /\ AppNames \subseteq Seq(Chars) /\ <<"A">> \in Seq(Chars)
    <2>1. SomeSets \subseteq Seq(Chars)
        BY DEF SomeSets
    <2>2. SomeVars \subseteq Seq(Chars)
        BY DEF SomeVars
    <2>3. AppNames \subseteq Seq(Chars)
        BY DEF AppNames
    <2> QED BY <2>1, <2>2, <2>3 DEF EnvVar
<1> HIDE DEF All
<1>6. \/ \E o, v, env, more, name, value :
             /\ o \in UNION {[1 .. n -> SomeSets] : n \in 0 .. 2} /\ v \in SUBSET SomeVars
             /\ more \in {<<>>, <<"prod">>, <<"dev">>, <<"test">>}
             /\ call = [of |-> "app", disk |-> Disk,
                        args |-> [overrides |-> o, env |-> env, configs |-> more, configDir |-> {}, defaultDir |-> {}, envPrefix |-> {}, appName |-> name],
                        vars |-> [n \in v \union {EnvVar} |-> value[n]]]
      \/ \E n1 \in AppNames, n2 \in AppNames, v \in SomeVars \union {Upper(n) \o Sep \o <<"b">> : n \in AppNames} :
             call = [of |-> "apart", first |-> n1, second |-> n2, var |-> v]
      \/ \E v, n : call = [of |-> "env", vars |-> v, name |-> n]
    <2>1. CASE \E o \in UNION {[1 .. n -> SomeSets] : n \in 0 .. 2}, v \in SUBSET SomeVars, env \in Opt({"prod", "test"}),
                  more \in {<<>>, <<"prod">>, <<"dev">>, <<"test">>}, name \in AppNames, set \in {{}, {""}, {"prod"}} :
                   /\ v # {} => o \in {<<>>, <<<<"a", "=", "1">>>>}
                   /\ call = [of |-> "app", disk |-> Disk,
                              args |-> [overrides |-> o, env |-> env, configs |-> more, configDir |-> {}, defaultDir |-> {}, envPrefix |-> {}, appName |-> name],
                              vars |-> [n \in v \union {EnvVar} |-> IF n # EnvVar THEN n ELSE IF set = {} THEN "" ELSE CHOOSE s \in set : TRUE]]
        <3>1. PICK o \in UNION {[1 .. n -> SomeSets] : n \in 0 .. 2}, v \in SUBSET SomeVars, env \in Opt({"prod", "test"}),
                  more \in {<<>>, <<"prod">>, <<"dev">>, <<"test">>}, name \in AppNames, set \in {{}, {""}, {"prod"}} :
                   /\ v # {} => o \in {<<>>, <<<<"a", "=", "1">>>>}
                   /\ call = [of |-> "app", disk |-> Disk,
                              args |-> [overrides |-> o, env |-> env, configs |-> more, configDir |-> {}, defaultDir |-> {}, envPrefix |-> {}, appName |-> name],
                              vars |-> [n \in v \union {EnvVar} |-> IF n # EnvVar THEN n ELSE IF set = {} THEN "" ELSE CHOOSE s \in set : TRUE]]
            BY <2>1, Zenon
        <3> DEFINE value == [n \in v \union {EnvVar} |-> IF n # EnvVar THEN n ELSE IF set = {} THEN "" ELSE CHOOSE s \in set : TRUE]
        <3>2. value = [n \in v \union {EnvVar} |-> value[n]]
            BY Zenon
        <3>3. call = [of |-> "app", disk |-> Disk,
                      args |-> [overrides |-> o, env |-> env, configs |-> more, configDir |-> {}, defaultDir |-> {}, envPrefix |-> {}, appName |-> name],
                      vars |-> value]
            BY <3>1, Zenon
        <3> HIDE DEF value
        <3>4. call = [of |-> "app", disk |-> Disk,
                      args |-> [overrides |-> o, env |-> env, configs |-> more, configDir |-> {}, defaultDir |-> {}, envPrefix |-> {}, appName |-> name],
                      vars |-> [n \in v \union {EnvVar} |-> value[n]]]
            BY <3>2, <3>3, Zenon
        <3> QED BY <3>4, Zenon
    <2>2. CASE \E n1 \in AppNames, n2 \in AppNames, v \in SomeVars \union {Upper(n) \o Sep \o <<"b">> : n \in AppNames} :
                   call = [of |-> "apart", first |-> n1, second |-> n2, var |-> v]
        BY <2>2, Zenon
    <2>3. CASE \E v \in SUBSET (DOMAIN BuiltinDefaults \union {"LOCAL_PG_PASSWORD"}), n \in DOMAIN BuiltinDefaults \union {"LOCAL_PG_PASSWORD"} :
                   call = [of |-> "env", vars |-> [x \in v |-> "set"], name |-> n]
        BY <2>3, Zenon
    <2> QED BY <2>1, <2>2, <2>3, Zenon DEF AppCalls
<1>7. ASSUME NEW o \in UNION {[1 .. n -> SomeSets] : n \in 0 .. 2}, NEW v \in SUBSET SomeVars, NEW env, NEW more \in {<<>>, <<"prod">>, <<"dev">>, <<"test">>},
             NEW name, NEW value,
             call = [of |-> "app", disk |-> Disk,
                     args |-> [overrides |-> o, env |-> env, configs |-> more, configDir |-> {}, defaultDir |-> {}, envPrefix |-> {}, appName |-> name],
                     vars |-> [n \in v \union {EnvVar} |-> value[n]]]
      PROVE  SettingsWin(call.args, call.vars, call.disk) /\ call.of = "app"
    <2>1. call.args.overrides = o /\ call.args.configs = more /\ call.args.envPrefix = {} /\ DOMAIN call.vars = v \union {EnvVar} /\ call.of = "app"
        BY <1>7
    <2>2. o \in Seq(Seq(All))
        <3>1. SomeSets \subseteq Seq(All)
            BY <1>4, <1>5
        <3> DEFINE Texts == Seq(All)
        <3> HIDE DEF Texts
        <3>2. SomeSets \subseteq Texts
            BY <3>1 DEF Texts
        <3>3. PICK n \in 0 .. 2 : o \in [1 .. n -> SomeSets]
            BY <1>7, Zenon
        <3>4. o \in [1 .. n -> Texts] /\ n \in Nat
            BY <3>2, <3>3
        <3>5. o \in Seq(Texts)
            BY <3>4, SeqDef
        <3> QED BY <3>5 DEF Texts
    <2>3. more \in Seq({"prod", "dev", "test"})
        <3> DEFINE Names == {"prod", "dev", "test"}
        <3>1. <<>> \in Seq(Names) /\ <<"prod">> \in Seq(Names) /\ <<"dev">> \in Seq(Names) /\ <<"test">> \in Seq(Names)
            OBVIOUS
        <3> QED BY <1>7, <3>1, Zenon
    <2>4. Prefix(call.args) \in Seq(All)
        BY <1>4, <1>5, <2>1 DEF Prefix, Given
    <2>5. DOMAIN call.vars \subseteq Seq(All)
        BY <1>4, <1>5, <2>1
    <2> DEFINE args == call.args
               given == call.vars
               disk == call.disk
    <2>6. /\ args.overrides \in Seq(Seq(All)) /\ args.configs \in Seq({"prod", "dev", "test"}) /\ Prefix(args) \in Seq(All)
          /\ DOMAIN given \subseteq Seq(All)
        BY <2>1, <2>2, <2>3, <2>4, <2>5
    <2> HIDE DEF args, given, disk
    <2>7. SettingsWin(args, given, disk)
        BY <1>1, <1>2, <2>6, SettingsWinCorrect
    <2> QED BY <2>1, <2>7 DEF args, given, disk
<1>8. ASSUME NEW n1 \in AppNames, NEW n2 \in AppNames, NEW v \in SomeVars \union {Upper(n) \o Sep \o <<"b">> : n \in AppNames},
             call = [of |-> "apart", first |-> n1, second |-> n2, var |-> v]
      PROVE  EnvironmentsApart(call.first, call.second, call.var) /\ call.of = "apart"
    <2>1. {"a", "b", "A", "B", "bar"} \subseteq Chars
        OBVIOUS
    <2>2. n1 \in Seq(Chars) /\ n2 \in Seq(Chars)
        BY <1>5
    <2>3. v \in Seq(Chars)
        <3>1. CASE v \in SomeVars
            BY <1>5, <3>1
        <3>2. ASSUME NEW n \in AppNames, v = Upper(n) \o Sep \o <<"b">> PROVE v \in Seq(Chars)
            <4>1. n \in Seq(Chars) /\ DOMAIN n = 1 .. Len(n) /\ Len(n) \in Nat /\ \A i \in 1 .. Len(n) : n[i] \in Chars
                BY <1>5, LenProperties, ElementOfSeq
            <4>2. Upper(n) \in [1 .. Len(n) -> Chars]
                BY <4>1 DEF Upper, Cased, UpperOf
            <4>3. Upper(n) \in Seq(Chars)
                <5> HIDE DEF Chars
                <5> QED BY <4>1, <4>2, SeqDef
            <4>4. Sep \in Seq(Chars) /\ <<"b">> \in Seq(Chars)
                BY DEF Sep
            <4> DEFINE last == <<"b">>
            <4> HIDE DEF Chars, last
            <4>5. Upper(n) \o Sep \in Seq(Chars)
                BY <4>3, <4>4, ConcatProperties
            <4>6. (Upper(n) \o Sep) \o last \in Seq(Chars)
                BY <4>4, <4>5, ConcatProperties DEF last
            <4> QED BY <3>2, <4>6 DEF last
        <3> QED BY <3>1, <3>2
    <2> HIDE DEF Chars
    <2>4. EnvironmentsApart(n1, n2, v)
        BY <2>1, <2>2, <2>3, EnvironmentsApartCorrect
    <2> QED BY <1>8, <2>4
<1>9. ASSUME NEW v, NEW n, call = [of |-> "env", vars |-> v, name |-> n]
      PROVE  VariablesWin(call.vars, call.name, "fallback") /\ call.of = "env"
    BY <1>9, VariablesWinCorrect
<1>10. CASE \E o, v, env, more, name, value :
             /\ o \in UNION {[1 .. n -> SomeSets] : n \in 0 .. 2} /\ v \in SUBSET SomeVars
             /\ more \in {<<>>, <<"prod">>, <<"dev">>, <<"test">>}
             /\ call = [of |-> "app", disk |-> Disk,
                        args |-> [overrides |-> o, env |-> env, configs |-> more, configDir |-> {}, defaultDir |-> {}, envPrefix |-> {}, appName |-> name],
                        vars |-> [n \in v \union {EnvVar} |-> value[n]]]
    <2>1. SettingsWin(call.args, call.vars, call.disk) /\ call.of = "app"
        BY <1>7, <1>10, ZenonT(60)
    <2> QED BY <2>1
<1>11. CASE \E n1 \in AppNames, n2 \in AppNames, v \in SomeVars \union {Upper(n) \o Sep \o <<"b">> : n \in AppNames} :
             call = [of |-> "apart", first |-> n1, second |-> n2, var |-> v]
    <2>1. EnvironmentsApart(call.first, call.second, call.var) /\ call.of = "apart"
        BY <1>8, <1>11, Zenon
    <2> QED BY <2>1
<1>12. CASE \E v, n : call = [of |-> "env", vars |-> v, name |-> n]
    <2>1. VariablesWin(call.vars, call.name, "fallback") /\ call.of = "env"
        BY <1>9, <1>12, Zenon
    <2> QED BY <2>1
<1> QED BY <1>6, <1>10, <1>11, <1>12, Zenon

\* The names of the directories and the texts in names of files of the calls that set up logging.
LogNames == {"r", "d", "logs", BadDir}
LogTexts == STRING \union {".", "a", "x", "l", "2", "4"}

LEMMA DirsAre ==
    /\ <<>> \in Seq(LogNames) /\ <<"r">> \in Seq(LogNames) /\ <<"d">> \in Seq(LogNames) /\ <<"d", BadDir>> \in Seq(LogNames)
    /\ <<"r">> # <<>> /\ "logs" \in LogNames /\ Ancestors(<<"r">>) = {<<"r">>}
<1>1. <<>> \in Seq(LogNames) /\ <<"r">> \in Seq(LogNames) /\ <<"d">> \in Seq(LogNames) /\ <<"d", BadDir>> \in Seq(LogNames)
    BY DEF LogNames
<1>2. "logs" \in LogNames
    BY DEF LogNames
<1> DEFINE place == <<"r">>
<1>3. place # <<>> /\ Len(place) = 1 /\ place \in Seq(LogNames)
    BY <1>1
<1>4. Ancestors(place) = {place}
    <2> HIDE DEF place
    <2>1. SubSeq(place, 1, 1) = place
        BY <1>3, SubSeqFull
    <2>2. 1 .. 1 = {1}
        OBVIOUS
    <2> QED BY <1>3, <2>1, <2>2 DEF Ancestors
<1> QED BY <1>1, <1>2, <1>3, <1>4

LEMMA PartsAre ==
    /\ \A part \in {<<>>, <<"a">>, <<"a", ".", "x">>, <<"2", "4">>, <<"l">>, <<"x", ".", "l">>} : IsPart(LogTexts, part)
    /\ "." \in LogTexts /\ Dates \subseteq Seq(LogTexts)
<1> DEFINE Texts == {".", "a", "x", "l", "2", "4"}
           Parts == {<<>>, <<"a">>, <<"a", ".", "x">>, <<"2", "4">>, <<"l">>, <<"x", ".", "l">>}
<1>1. Parts \subseteq Seq(Texts)
    OBVIOUS
<1>2. Texts \subseteq LogTexts /\ "." \in LogTexts /\ STRING \subseteq LogTexts
    BY DEF LogTexts
<1> HIDE DEF Texts, Parts
<1>3. \A part \in Parts : IsPart(LogTexts, part)
    BY <1>1, <1>2, WiderSeq DEF IsPart
<1>4. Dates \subseteq Seq(LogTexts)
    BY <1>2, WiderSeq, DatesAssumption
<1> QED BY <1>2, <1>3, <1>4 DEF Parts

LEMMA LayerIn ==
    ASSUME NEW dirs, NEW prefixes, NEW suffixes, NEW filters, NEW disable, NEW layer \in Layers(dirs, prefixes, suffixes, filters, disable)
    PROVE  layer.dir \in dirs /\ layer.prefix \in prefixes /\ layer.suffix \in suffixes
BY DEF Layers

LEMMA LayersAre ==
    ASSUME NEW layer \in SomeLayers
    PROVE  layer.dir \in Seq(LogNames) /\ IsPart(LogTexts, layer.prefix) /\ IsPart(LogTexts, layer.suffix)
<1> DEFINE Dirs == {<<>>, <<"d">>, <<"d", BadDir>>}
           Heads == {<<>>, <<"a">>, <<"a", ".", "x">>, <<"2", "4">>}
           Ends == {<<>>, <<"l">>, <<"x", ".", "l">>}
<1>1. layer.dir \in {<<>>, <<"d">>} \union {<<"d", BadDir>>} /\ layer.prefix \in Heads \union {<<"a">>} /\ layer.suffix \in Ends \union {<<"l">>}
    <2> HIDE DEF Heads, Ends
    <2>1. CASE layer \in Layers({<<>>, <<"d">>}, Heads, Ends, {"", "warn"}, FALSE)
        BY <2>1, LayerIn, Zenon
    <2>2. CASE layer \in Layers({<<"d", BadDir>>}, {<<"a">>}, {<<"l">>}, {""}, FALSE)
        BY <2>2, LayerIn, Zenon
    <2>3. CASE layer \in Layers({<<>>}, {<<"a">>}, {<<"l">>}, {BadFilter}, FALSE)
        <3>1. layer.dir \in {<<>>} /\ layer.prefix \in {<<"a">>} /\ layer.suffix \in {<<"l">>}
            BY <2>3, LayerIn
        <3> QED BY <3>1, Zenon
    <2>4. CASE layer \in Layers({<<"d", BadDir>>}, {<<"a">>}, {<<"l">>}, {BadFilter}, TRUE)
        BY <2>4, LayerIn, Zenon
    <2> QED BY <2>1, <2>2, <2>3, <2>4, Zenon DEF SomeLayers, Heads, Ends
<1>2. layer.dir \in Seq(LogNames)
    BY <1>1, DirsAre, Zenon
<1>3. IsPart(LogTexts, layer.prefix) /\ IsPart(LogTexts, layer.suffix)
    BY <1>1, PartsAre, Zenon
<1> QED BY <1>2, <1>3

LEMMA FirstOfTwo == \A x, y : <<x, y>>[1] = x
OBVIOUS

\* What the calls have in common.
SomeSetup(n, layers, root, there, installed, taken) ==
    /\ n \in 0 .. 2 /\ layers \in [1 .. n -> SomeLayers] /\ root \in {<<"r">>, <<>>} /\ there \in {{}, {<<"r">>}}
    /\ installed \in BOOLEAN /\ taken \in BOOLEAN

LEMMA SetupKept ==
    ASSUME NEW n, NEW layers, NEW root, NEW there, NEW filter, NEW console, NEW refused, NEW installed, NEW taken,
           SomeSetup(n, layers, root, there, installed, taken)
    PROVE  LogsKept([root |-> root, layers |-> layers, filter |-> filter, console |-> console], there, refused, installed, taken)
<1>a. /\ n \in 0 .. 2 /\ layers \in [1 .. n -> SomeLayers] /\ root \in {<<"r">>, <<>>} /\ there \in {{}, {<<"r">>}}
      /\ installed \in BOOLEAN /\ taken \in BOOLEAN
    BY DEF SomeSetup
<1> DEFINE cfg == [root |-> root, layers |-> layers, filter |-> filter, console |-> console]
<1>1. DOMAIN layers = 1 .. Len(layers) /\ Len(layers) \in Nat /\ \A i \in DOMAIN layers : layers[i] \in SomeLayers
    <2>1. layers \in Seq(SomeLayers)
        <3>1. n \in Nat
            BY <1>a
        <3> QED BY <1>a, <3>1, SeqDef
    <2> QED BY <2>1, LenProperties, ElementOfSeq
<1>2. cfg.layers = layers /\ cfg.root = root
    OBVIOUS
<1>3. root \in Seq(LogNames) /\ "logs" \in LogNames
    BY <1>a, DirsAre, Zenon
<1>4. Enabled(cfg) \subseteq DOMAIN layers
    BY <1>2 DEF Enabled
<1>5. there \in SUBSET Seq(LogNames) /\ \A d \in there : Ancestors(d) \subseteq there
    <2> DEFINE place == <<"r">>
    <2>1. place \in Seq(LogNames) /\ Ancestors(place) = {place}
        BY DirsAre, Zenon
    <2>2. there = {} \/ there = {place}
        BY <1>a
    <2> HIDE DEF place
    <2> QED BY <2>1, <2>2
<1> HIDE DEF cfg
<1>6. Layered(LogNames, LogTexts, cfg)
    <2>1. ASSUME NEW i \in Enabled(cfg)
          PROVE  cfg.layers[i].dir \in Seq(LogNames) /\ IsPart(LogTexts, cfg.layers[i].prefix) /\ IsPart(LogTexts, cfg.layers[i].suffix)
        <3>1. cfg.layers[i] \in SomeLayers
            BY <1>1, <1>2, <1>4
        <3> QED BY <3>1, LayersAre
    <2> QED BY <1>1, <1>2, <1>3, <2>1 DEF Layered
<1>7. LogInput(LogNames, LogTexts, cfg, there, installed)
    BY <1>a, <1>5, <1>6, PartsAre DEF LogInput
<1>8. LogsKept(cfg, there, refused, installed, taken)
    BY <1>a, <1>7, LogsKeptCorrect
<1> QED BY <1>8 DEF cfg

\* The settings of the calls that set up logging.
LEMMA SomeLogIs ==
    ASSUME LogCalls
    PROVE  LogsKept(call.cfg, call.there, call.refused, call.installed, call.taken)
<1>1. PICK layers \in UNION {[1 .. n -> SomeLayers] : n \in 0 .. 2}, console \in [disable : BOOLEAN, filter : {"", "warn", BadFilter}],
           all \in {<<<<"r">>, "info">>, <<<<>>, "">>}, there \in {{}, {<<"r">>}}, installed \in BOOLEAN, taken \in BOOLEAN :
           LogCall(layers, console, all, there, installed, taken)
    BY Zenon DEF LogCalls, LogCall
<1>2. PICK refused : call = [of |-> "log", there |-> there, refused |-> refused, installed |-> installed, taken |-> taken,
                             cfg |-> [root |-> all[1], layers |-> layers, filter |-> all[2], console |-> console]]
    BY <1>1, Zenon DEF LogCall
<1>3. PICK n \in 0 .. 2 : layers \in [1 .. n -> SomeLayers]
    BY <1>1, Zenon
<1> DEFINE root == all[1]
           filter == all[2]
           cfg == [root |-> root, layers |-> layers, filter |-> filter, console |-> console]
<1>4. root \in {<<"r">>, <<>>}
    BY FirstOfTwo, Zenon
<1>5. call = [of |-> "log", there |-> there, refused |-> refused, installed |-> installed, taken |-> taken, cfg |-> cfg]
    BY <1>2, Zenon
<1> HIDE DEF root, filter
<1>6. SomeSetup(n, layers, root, there, installed, taken)
    BY <1>3, <1>4, Zenon DEF SomeSetup
<1>7. LogsKept(cfg, there, refused, installed, taken)
    BY <1>6, SetupKept, Zenon
<1> QED BY <1>5, <1>7, Zenon

\* The settings of the calls of Redis, S3 and the servers, and the requests they are sent.
LEMMA SomeServicesAre ==
    ASSUME ServiceCalls
    PROVE  /\ call.of = "redis" => X!PoolsAsWritten(call.first, call.second)
           /\ call.of = "s3" => X!S3AsWritten(call.cfg, Chain)
           /\ call.of = "servers" => X!ServersAsWritten(call.first, call.second)
           /\ call.of = "server" => X!ServesOnce(call.kind, call.calls)
           /\ call.of = "request" => X!LimitsHold(call.cfg, call.request)
<1>1. \/ \E a, b \in SomeRedis : call = [of |-> "redis", first |-> a, second |-> b]
      \/ \E a, b \in SomeServers : call = [of |-> "servers", first |-> a, second |-> b]
      \/ \E r, e, c, p : \E s \in SomeS3 :
             call = [of |-> "s3", cfg |-> [region |-> r, endpoint |-> e, credentials |-> c, profile |-> p, s3 |-> s]]
      \/ \E kind : \E n \in 0 .. 4 : \E calls \in [1 .. n -> ServerCalls] : call = [of |-> "server", kind |-> kind, calls |-> calls]
      \/ \E o : \E m \in Opt({1, 3}), t \in Opt({1}), size \in 1 .. 4, secs \in 1 .. 2, d, r \in BOOLEAN :
             call = [of |-> "request", cfg |-> [ServerBase EXCEPT !.max_body_size = m, !.request_read_secs = t],
                     request |-> [size |-> size, secs |-> secs, declared |-> d, reads |-> r, outcome |-> o]]
    BY Zenon DEF ServiceCalls
<1>2. CASE \E a, b \in SomeRedis : call = [of |-> "redis", first |-> a, second |-> b]
    <2>1. PICK a \in SomeRedis, b \in SomeRedis : call = [of |-> "redis", first |-> a, second |-> b]
        BY <1>2
    <2>2. ASSUME NEW c \in SomeRedis PROVE c.command \in Nat
        <3>1. PICK mode : c \in RedisOf(mode)
            BY <2>2 DEF SomeRedis
        <3>2. PICK s \in DOMAIN RedisOther : c \in {[RedisBase(mode) EXCEPT ![s] = v] : v \in {RedisBase(mode)[s]} \union RedisOther[s]}
            BY <3>1, Zenon DEF RedisOf
        <3>3. PICK v \in {RedisBase(mode)[s]} \union RedisOther[s] : c = [RedisBase(mode) EXCEPT ![s] = v]
            BY <3>2, Zenon
        <3>4. "command" \in DOMAIN RedisBase(mode) /\ RedisBase(mode)["command"] = 0 /\ RedisOther["command"] = {1}
            BY DEF RedisBase, RedisOther
        <3>5. c["command"] \in Nat
            <4>1. CASE s = "command"
                BY <3>3, <3>4, <4>1
            <4>2. CASE s # "command"
                BY <3>3, <3>4, <4>2
            <4> QED BY <4>1, <4>2
        <3> QED BY <3>5
    <2>3. X!PoolsAsWritten(a, b)
        BY <2>2, PoolsAsWrittenCorrect
    <2> QED BY <2>1, <2>3
<1>6. CASE \E a, b \in SomeServers : call = [of |-> "servers", first |-> a, second |-> b]
    <2>1. PICK a \in SomeServers, b \in SomeServers : call = [of |-> "servers", first |-> a, second |-> b]
        BY <1>6
    <2>2. DOMAIN a = DOMAIN ServerBase
        BY DEF SomeServers
    <2>3. DOMAIN ServerBase = {"host", "port", "shutdown_timeout_secs", "max_body_size", "request_read_secs"} \union X!Reserved
        BY DEF ServerBase, X!Reserved
    <2>4. X!ServersAsWritten(a, b)
        BY <2>2, <2>3, ServersAsWrittenCorrect
    <2> QED BY <2>1, <2>4
<1>3. CASE \E r, e, c, p : \E s \in SomeS3 :
               call = [of |-> "s3", cfg |-> [region |-> r, endpoint |-> e, credentials |-> c, profile |-> p, s3 |-> s]]
    <2>1. PICK r, e, c, p : \E s \in SomeS3 :
                   call = [of |-> "s3", cfg |-> [region |-> r, endpoint |-> e, credentials |-> c, profile |-> p, s3 |-> s]]
        BY <1>3, Zenon
    <2>2. PICK s \in SomeS3 : call = [of |-> "s3", cfg |-> [region |-> r, endpoint |-> e, credentials |-> c, profile |-> p, s3 |-> s]]
        BY <2>1
    <2>3. call.of = "s3" /\ call.cfg.s3 = s
        BY <2>2
    <2>4. \A one \in {s.request, s.response} : \A w \in one : one = {w}
        BY DEF SomeS3, Opt
    <2>5. X!S3AsWritten(call.cfg, Chain)
        <3> DEFINE cfg == call.cfg
        <3>1. \A one \in {cfg.s3.request, cfg.s3.response} : \A w \in one : one = {w}
            BY <2>3, <2>4
        <3> HIDE DEF cfg
        <3>2. X!S3AsWritten(cfg, Chain)
            BY <3>1, S3AsWrittenCorrect
        <3> QED BY <3>2 DEF cfg
    <2> QED BY <2>3, <2>5
<1>4. CASE \E kind : \E n \in 0 .. 4 : \E calls \in [1 .. n -> ServerCalls] : call = [of |-> "server", kind |-> kind, calls |-> calls]
    <2>1. PICK kind : \E n \in 0 .. 4 : \E calls \in [1 .. n -> ServerCalls] : call = [of |-> "server", kind |-> kind, calls |-> calls]
        BY <1>4
    <2>2. PICK n \in 0 .. 4 : \E calls \in [1 .. n -> ServerCalls] : call = [of |-> "server", kind |-> kind, calls |-> calls]
        BY <2>1
    <2>3. PICK calls \in [1 .. n -> ServerCalls] : call = [of |-> "server", kind |-> kind, calls |-> calls]
        BY <2>2
    <2>4. calls \in Seq(ServerCall)
        <3>1. ServerCalls = ServerCall
            BY DEF ServerCalls, ServerCall
        <3>2. n \in Nat
            OBVIOUS
        <3> QED BY <3>1, <3>2, SeqDef
    <2>5. X!ServesOnce(kind, calls)
        BY <2>4, ServesOnceCorrect
    <2> QED BY <2>3, <2>5
<1>5. CASE \E o : \E m \in Opt({1, 3}), t \in Opt({1}), size \in 1 .. 4, secs \in 1 .. 2, d, r \in BOOLEAN :
               call = [of |-> "request", cfg |-> [ServerBase EXCEPT !.max_body_size = m, !.request_read_secs = t],
                       request |-> [size |-> size, secs |-> secs, declared |-> d, reads |-> r, outcome |-> o]]
    <2>1. PICK o : \E m \in Opt({1, 3}), t \in Opt({1}), size \in 1 .. 4, secs \in 1 .. 2, d, r \in BOOLEAN :
                   call = [of |-> "request", cfg |-> [ServerBase EXCEPT !.max_body_size = m, !.request_read_secs = t],
                           request |-> [size |-> size, secs |-> secs, declared |-> d, reads |-> r, outcome |-> o]]
        BY <1>5, Zenon
    <2>2. PICK m \in Opt({1, 3}), t \in Opt({1}), size \in 1 .. 4, secs \in 1 .. 2, d \in BOOLEAN, r \in BOOLEAN :
                   call = [of |-> "request", cfg |-> [ServerBase EXCEPT !.max_body_size = m, !.request_read_secs = t],
                           request |-> [size |-> size, secs |-> secs, declared |-> d, reads |-> r, outcome |-> o]]
        BY <2>1, Zenon
    <2> DEFINE cfg == [ServerBase EXCEPT !.max_body_size = m, !.request_read_secs = t]
               request == [size |-> size, secs |-> secs, declared |-> d, reads |-> r, outcome |-> o]
    <2>3. cfg.max_body_size \in SUBSET Int /\ cfg.request_read_secs \in SUBSET Int
        BY DEF Opt, ServerBase
    <2>4. size \in Int /\ secs \in Int /\ ExtractorLimit \in Int
        BY NumbersAssumption
    <2> HIDE DEF cfg
    <2>5. X!LimitsHold(cfg, request)
        BY <2>3, <2>4, LimitsHoldCorrect
    <2> HIDE DEF request
    <2>6. call = [of |-> "request", cfg |-> cfg, request |-> request]
        BY <2>2, Zenon DEF cfg, request
    <2> QED BY <2>5, <2>6
<1> QED BY <1>1, <1>2, <1>3, <1>4, <1>5, <1>6, Zenon

\* Configuration: whatever is called, what is written takes effect or nothing starts, but for the
\* settings that are known to make no difference, and a setup of the logs that fails can be
\* repeated.
THEOREM SettingsMatterCorrect == Spec => []SettingsMatter
<1>1. Init => SettingsMatter
    <2>1. CASE DateCalls \/ CodeCalls \/ KeyCalls \/ RedactCalls \/ HttpCalls
        <3>1. call.of \notin {"db", "app", "apart", "env", "log", "redis", "s3", "servers", "server", "request"}
            BY <2>1, WhatIsCalled
        <3> QED BY <3>1 DEF SettingsMatter
    <2>2. CASE DbCalls
        <3>1. call.of = "db" /\ EverythingUsed(call)
            BY <2>2, WhatIsCalled, SomeDbIs
        <3> QED BY <3>1 DEF SettingsMatter
    <2>3. CASE AppCalls
        <3>1. call.of \in {"app", "apart", "env"}
            BY <2>3, WhatIsCalled
        <3>2. /\ call.of = "app" => SettingsWin(call.args, call.vars, call.disk)
              /\ call.of = "apart" => EnvironmentsApart(call.first, call.second, call.var)
              /\ call.of = "env" => VariablesWin(call.vars, call.name, "fallback")
            BY <2>3, SomeAppIs
        <3>3. call.of \notin {"db", "log", "redis", "s3", "servers", "server", "request"}
            BY <3>1
        <3> QED BY <3>2, <3>3, Zenon DEF SettingsMatter
    <2>4. CASE LogCalls
        <3>1. call.of = "log" /\ LogsKept(call.cfg, call.there, call.refused, call.installed, call.taken)
            BY <2>4, WhatIsCalled, SomeLogIs
        <3> QED BY <3>1 DEF SettingsMatter
    <2>5. CASE ServiceCalls
        <3>1. call.of \in {"redis", "s3", "servers", "server", "request"}
            BY <2>5, WhatIsCalled
        <3>2. /\ call.of = "redis" => X!PoolsAsWritten(call.first, call.second)
              /\ call.of = "s3" => X!S3AsWritten(call.cfg, Chain)
              /\ call.of = "servers" => X!ServersAsWritten(call.first, call.second)
              /\ call.of = "server" => X!ServesOnce(call.kind, call.calls)
              /\ call.of = "request" => X!LimitsHold(call.cfg, call.request)
            BY <2>5, SomeServicesAre
        <3>3. call.of \notin {"db", "app", "apart", "env", "log"}
            BY <3>1
        <3> QED BY <3>2, <3>3, Zenon DEF SettingsMatter
    <2> QED BY <2>1, <2>2, <2>3, <2>4, <2>5 DEF Init
<1>2. SettingsMatter /\ [Next]_vars => SettingsMatter'
    <2>1. [Next]_vars => UNCHANGED call
        BY DEF Next, Return, vars
    <2> QED BY <2>1 DEF SettingsMatter
<1> QED BY <1>1, <1>2, PTL DEF Spec

----------------------------------------------------------------------------
(* Redaction.                                                               *)

\* A field of a type that compiles but for its markers: its serde attributes are the user's.
IsField(item) ==
    /\ item.derives \in BOOLEAN /\ item.into \in BOOLEAN /\ item.omits \in BOOLEAN
    /\ item.serde = [a \in DOMAIN item.serde |-> "user"]
    /\ item.marks = <<>> \/ Len(item.marks) # 0

\* The attributes after a rewrite, if there is one.
LEMMA MaskedIs ==
    ASSUME NEW serde, serde = [a \in DOMAIN serde |-> "user"], NEW s \in R!RewriteField(serde, "mask")
    PROVE  /\ DOMAIN serde \cap {"skip", "skip_serializing"} = {} /\ DOMAIN s \cap {"skip", "skip_serializing"} = {}
           /\ "serialize_with" \in DOMAIN s
           /\ s["serialize_with"] = IF DOMAIN serde \cap {"serialize_with", "with"} # {} THEN "mask or user" ELSE "mask"
           /\ "skip_serializing_if" \in DOMAIN s <=> "skip_serializing_if" \in DOMAIN serde
           /\ "skip_serializing_if" \in DOMAIN s => s["skip_serializing_if"] = "user"
           /\ DOMAIN s \cap {"with", "deserialize_with"} # {} <=> DOMAIN serde \cap {"with", "deserialize_with"} # {}
<1>1. DOMAIN serde \cap {"skip", "skip_serializing"} = {}
    BY DEF R!RewriteField
<1> DEFINE mask == IF DOMAIN serde \cap {"with"} # {} THEN [serialize_with |-> "mask or user", deserialize_with |-> "user"]
                   ELSE [serialize_with |-> IF DOMAIN serde \cap {"serialize_with"} # {} THEN "mask or user" ELSE "mask"]
           new == [a \in DOMAIN mask \union (DOMAIN serde \ {"serialize_with", "with"}) |-> IF a \in DOMAIN mask THEN mask[a] ELSE serde[a]]
<1>2. s = new
    BY <1>1 DEF R!RewriteField
<1>3. CASE "with" \in DOMAIN serde
    <2>1. mask = [serialize_with |-> "mask or user", deserialize_with |-> "user"]
        BY <1>3
    <2>2. DOMAIN mask = {"serialize_with", "deserialize_with"} /\ mask["serialize_with"] = "mask or user"
        BY <2>1
    <2> HIDE DEF mask
    <2> QED BY <1>1, <1>2, <1>3, <2>2
<1>4. CASE "with" \notin DOMAIN serde
    <2>1. mask = [serialize_with |-> IF "serialize_with" \in DOMAIN serde THEN "mask or user" ELSE "mask"]
        BY <1>4
    <2>2. DOMAIN mask = {"serialize_with"} /\ mask["serialize_with"] = IF "serialize_with" \in DOMAIN serde THEN "mask or user" ELSE "mask"
        BY <2>1
    <2> HIDE DEF mask
    <2>3. /\ DOMAIN s = {"serialize_with"} \union (DOMAIN serde \ {"serialize_with", "with"})
          /\ s["serialize_with"] = mask["serialize_with"]
          /\ \A a \in DOMAIN serde \ {"serialize_with", "with"} : s[a] = serde[a]
        BY <1>2, <2>2
    <2>4. \A a \in DOMAIN serde : serde[a] = "user"
        OBVIOUS
    <2>5. "with" \notin DOMAIN s /\ ("deserialize_with" \in DOMAIN s <=> "deserialize_with" \in DOMAIN serde)
        BY <2>3
    <2>6. "skip_serializing_if" \in DOMAIN s <=> "skip_serializing_if" \in DOMAIN serde
        BY <2>3
    <2>7. "skip_serializing_if" \in DOMAIN s => s["skip_serializing_if"] = "user"
        BY <2>3, <2>4
    <2>8. DOMAIN s \cap {"skip", "skip_serializing"} = {} /\ "serialize_with" \in DOMAIN s
        BY <1>1, <2>3
    <2> HIDE DEF new
    <2>9. DOMAIN s \cap {"with", "deserialize_with"} # {} <=> DOMAIN serde \cap {"with", "deserialize_with"} # {}
        BY ONLY <1>4, <2>5
    <2>10. s["serialize_with"] = IF DOMAIN serde \cap {"serialize_with", "with"} # {} THEN "mask or user" ELSE "mask"
        BY ONLY <1>4, <2>2, <2>3
    <2> QED BY ONLY <1>1, <2>6, <2>7, <2>8, <2>9, <2>10, Zenon
<1> QED BY <1>3, <1>4

\* The attributes after a marker that leaves the field out.
LEMMA SkippedIs ==
    ASSUME NEW serde, serde = [a \in DOMAIN serde |-> "user"], NEW s \in R!RewriteField(serde, "skip")
    PROVE  /\ DOMAIN serde \cap {"skip", "skip_serializing"} = {}
           /\ DOMAIN s = DOMAIN serde \union {"skip_serializing_if"}
           /\ s["skip_serializing_if"] = IF "skip_serializing_if" \in DOMAIN serde THEN "skip or user" ELSE "skip"
           /\ \A a \in DOMAIN serde \ {"skip_serializing_if"} : s[a] = "user"
<1>1. DOMAIN serde \cap {"skip", "skip_serializing"} = {}
    BY DEF R!RewriteField
<1> DEFINE skip == [skip_serializing_if |-> IF DOMAIN serde \cap {"skip_serializing_if"} # {} THEN "skip or user" ELSE "skip"]
           new == [a \in DOMAIN skip \union (DOMAIN serde \ {"skip_serializing_if"}) |-> IF a \in DOMAIN skip THEN skip[a] ELSE serde[a]]
<1>2. s = new
    BY <1>1 DEF R!RewriteField
<1>3. DOMAIN skip = {"skip_serializing_if"} /\ skip["skip_serializing_if"] = IF "skip_serializing_if" \in DOMAIN serde THEN "skip or user" ELSE "skip"
    OBVIOUS
<1> HIDE DEF skip
<1> QED BY <1>1, <1>2, <1>3

\* A field that is marked and compiles is hidden in a log, and is otherwise as it was.
LEMMA FieldRedacted ==
    ASSUME NEW item, IsField(item), R!ExpandItem(item) # {}
    PROVE  /\ item.marks = <<>> => (CHOOSE s \in R!ExpandItem(item) : TRUE) = item.serde
           /\ \A s \in R!ExpandItem(item) :
                  /\ item.marks # <<>> => R!Field(item, s, TRUE) \in {"absent", "***"}
                  /\ R!Field(item, s, FALSE) = R!Field(item, item.serde, FALSE)
                  /\ R!Reads(s) = R!Reads(item.serde)
<1>1. CASE item.marks = <<>>
    <2>1. R!ExpandItem(item) = {item.serde}
        BY <1>1 DEF R!ExpandItem, R!TakeRedactAttr
    <2> QED BY <1>1, <2>1
<1>2. CASE item.marks # <<>>
    <2> SUFFICES ASSUME NEW s \in R!ExpandItem(item)
                 PROVE  /\ R!Field(item, s, TRUE) \in {"absent", "***"}
                        /\ R!Field(item, s, FALSE) = R!Field(item, item.serde, FALSE)
                        /\ R!Reads(s) = R!Reads(item.serde)
        BY <1>2
    <2>1. PICK a \in R!TakeRedactAttr(item.marks) :
              s \in IF a = "none" THEN {item.serde}
                    ELSE UNION {R!RewriteField(item.serde, a) :
                                    once \in {TRUE} \cap {item.where = "field" /\ ~item.into /\ item.variant = {} /\ item.derives}}
        BY DEF R!ExpandItem
    <2>2. a \in {"mask", "skip"}
        BY <1>2 DEF R!TakeRedactAttr
    <2>3. s \in R!RewriteField(item.serde, a) /\ ~item.into /\ item.variant = {} /\ item.derives
        BY <2>1, <2>2
    <2>4. /\ R!Field(item, s, TRUE) = IF R!Omitted(s, item.omits, TRUE) THEN "absent" ELSE R!Written(s, TRUE)
          /\ R!Field(item, s, FALSE) = IF R!Omitted(s, item.omits, FALSE) THEN "absent" ELSE R!Written(s, FALSE)
          /\ R!Field(item, item.serde, FALSE) = IF R!Omitted(item.serde, item.omits, FALSE) THEN "absent" ELSE R!Written(item.serde, FALSE)
        BY <2>3 DEF R!Field
    <2>5. item.serde = [b \in DOMAIN item.serde |-> "user"] /\ item.omits \in BOOLEAN
        BY DEF IsField
    <2> DEFINE own == item.serde
    <2>6. CASE a = "mask"
        <3>1. s \in R!RewriteField(own, "mask")
            BY <2>3, <2>6
        <3>2. /\ DOMAIN own \cap {"skip", "skip_serializing"} = {} /\ DOMAIN s \cap {"skip", "skip_serializing"} = {}
              /\ "serialize_with" \in DOMAIN s
              /\ s["serialize_with"] = IF DOMAIN own \cap {"serialize_with", "with"} # {} THEN "mask or user" ELSE "mask"
              /\ "skip_serializing_if" \in DOMAIN s <=> "skip_serializing_if" \in DOMAIN own
              /\ "skip_serializing_if" \in DOMAIN s => s["skip_serializing_if"] = "user"
              /\ DOMAIN s \cap {"with", "deserialize_with"} # {} <=> DOMAIN own \cap {"with", "deserialize_with"} # {}
            BY <2>5, <3>1, MaskedIs
        <3>3. R!Written(s, TRUE) = "***" /\ R!Written(s, FALSE) = IF DOMAIN own \cap {"serialize_with", "with"} # {} THEN "user" ELSE "plain"
            BY <3>2 DEF R!Written, R!Mask
        <3>4. R!Written(own, FALSE) = IF DOMAIN own \cap {"serialize_with", "with"} # {} THEN "user" ELSE "plain"
            BY <2>5 DEF R!Written, R!Mask
        <3>5. R!Omitted(s, item.omits, FALSE) <=> R!Omitted(own, item.omits, FALSE)
            BY <2>5, <3>2 DEF R!Omitted
        <3>6. R!Reads(s) = R!Reads(own)
            BY <3>2 DEF R!Reads
        <3> QED BY <2>4, <3>3, <3>4, <3>5, <3>6
    <2>7. CASE a = "skip"
        <3>1. s \in R!RewriteField(own, "skip")
            BY <2>3, <2>7
        <3>2. /\ DOMAIN own \cap {"skip", "skip_serializing"} = {}
              /\ DOMAIN s = DOMAIN own \union {"skip_serializing_if"}
              /\ s["skip_serializing_if"] = IF "skip_serializing_if" \in DOMAIN own THEN "skip or user" ELSE "skip"
              /\ \A b \in DOMAIN own \ {"skip_serializing_if"} : s[b] = "user"
            BY <2>5, <3>1, SkippedIs
        <3>3. R!Omitted(s, item.omits, TRUE)
            BY <3>2 DEF R!Omitted, R!Skip
        <3>4. R!Omitted(s, item.omits, FALSE) <=> R!Omitted(own, item.omits, FALSE)
            <4>1. DOMAIN s \cap {"skip", "skip_serializing"} = {} /\ "skip_serializing_if" \in DOMAIN s
                BY <3>2
            <4>2. R!Omitted(s, item.omits, FALSE) <=> "skip_serializing_if" \in DOMAIN own /\ item.omits
                <5>1. CASE "skip_serializing_if" \in DOMAIN own
                    BY <3>2, <4>1, <5>1 DEF R!Omitted, R!Skip
                <5>2. CASE "skip_serializing_if" \notin DOMAIN own
                    BY <3>2, <4>1, <5>2 DEF R!Omitted, R!Skip
                <5> QED BY <5>1, <5>2
            <4>3. R!Omitted(own, item.omits, FALSE) <=> "skip_serializing_if" \in DOMAIN own /\ item.omits
                BY <2>5, <3>2 DEF R!Omitted
            <4> QED BY <4>2, <4>3
        <3>5. R!Written(s, FALSE) = R!Written(own, FALSE)
            BY <2>5, <3>2 DEF R!Written
        <3>6. R!Reads(s) = R!Reads(own)
            BY <3>2 DEF R!Reads
        <3> QED BY <2>4, <3>3, <3>4, <3>5, <3>6
    <2> QED BY <2>2, <2>6, <2>7
<1> QED BY <1>1, <1>2

\* How a value is shown: hidden where one of its fields hides it.
LEMMA ShownHidden ==
    ASSUME NEW S, NEW path \in Seq(S), NEW serdes, NEW active, NEW i \in DOMAIN path, R!Field(path[i], serdes[i], active) \in {"absent", "***"}
    PROVE  R!Shown(path, serdes, active) \in {<<"absent">>, <<"***">>}
<1> DEFINE texts == [k \in DOMAIN path |-> R!Field(path[k], serdes[k], active)]
           hides == {k \in DOMAIN path : texts[k] \in {"absent", "***"}}
           at == CHOOSE k \in hides : \A j \in hides : k <= j
<1>1. i \in hides /\ hides \in SUBSET Nat
    OBVIOUS
<1>2. \E k \in hides : \A j \in hides : k <= j
    <2> HIDE DEF hides
    <2> QED BY <1>1, LeastOf
<1>3. at \in hides
    <2> HIDE DEF hides
    <2> QED BY <1>2
<1>4. R!Shown(path, serdes, active) = <<texts[at]>>
    <2>1. R!Shown(path, serdes, active) = IF hides = {} THEN texts ELSE <<texts[at]>>
        BY DEF R!Shown
    <2> HIDE DEF hides, texts, at
    <2> QED BY <1>1, <2>1
<1>5. texts[at] \in {"absent", "***"}
    <2> HIDE DEF texts, at
    <2> QED BY <1>3
<1> HIDE DEF texts, at
<1> QED BY <1>4, <1>5

\* The first field that hides the value decides, if there is one.
LEMMA ShownAs ==
    ASSUME NEW path, NEW s, NEW t, NEW a, NEW b, \A i \in DOMAIN path : R!Field(path[i], s[i], a) = R!Field(path[i], t[i], b)
    PROVE  R!Shown(path, s, a) = R!Shown(path, t, b)
<1>1. [i \in DOMAIN path |-> R!Field(path[i], s[i], a)] = [i \in DOMAIN path |-> R!Field(path[i], t[i], b)]
    OBVIOUS
<1> DEFINE Show(texts) == LET hides == {i \in DOMAIN path : texts[i] \in {"absent", "***"}}
                          IN  IF hides = {} THEN texts ELSE <<texts[CHOOSE i \in hides : \A j \in hides : i <= j]>>
<1>2. /\ R!Shown(path, s, a) = Show([i \in DOMAIN path |-> R!Field(path[i], s[i], a)])
      /\ R!Shown(path, t, b) = Show([i \in DOMAIN path |-> R!Field(path[i], t[i], b)])
    BY DEF R!Shown
<1> HIDE DEF Show
<1> QED BY ONLY <1>1, <1>2, Zenon

\* The calls of scope: no end before its start.
Event == {"enter", "return", "panic"}
Starts(events, i, j) == {k \in i .. j : events[k] = "enter"}
Ends(events, i, j) == (i .. j) \ Starts(events, i, j)
NestedEvents(events) == /\ events \in Seq(Event)
                        /\ \A n \in 0 .. Len(events) : Cardinality(Starts(events, 1, n)) >= Cardinality(Ends(events, 1, n))

\* The depth after every event.
LEMMA DepthOf ==
    ASSUME NEW events \in Seq(Event)
    PROVE  \E f \in [0 .. Len(events) -> Int] :
               /\ f[0] = 0 /\ \A k \in 1 .. Len(events) : f[k] = R!Change(f[k - 1], events[k])
               /\ R!Active(events) <=> f[Len(events)] > 0
<1> DEFINE n == Len(events)
           next == [k \in 1 .. n |-> [d \in Int |-> R!Change(d, events[k])]]
           F(f) == f = [k \in 0 .. n |-> IF k = 0 THEN 0 ELSE R!Change(f[k - 1], events[k])]
           depth == CHOOSE f : F(f)
<1>1. n \in Nat
    OBVIOUS
<1>2. \A e : \A d \in Int : R!Change(d, e) \in Int
    BY DEF R!Change
<1>10. 0 \in Int
    OBVIOUS
<1>3. Steps(n, Int, next)
    <2> HIDE DEF n
    <2> QED BY <1>1, <1>2 DEF Steps
<1>4. PICK g : Leads(n, Int, next, 0, g)
    <2> HIDE DEF n, next
    <2> QED BY <1>1, <1>3, <1>10, StepByStep
<1>5. F(g)
    <2> HIDE DEF n
    <2>1. ASSUME NEW k \in 0 .. n, k # 0 PROVE k \in 1 .. n /\ g[k - 1] \in Int
        BY <1>1, <1>4, <2>1 DEF Leads
    <2>2. \A k \in 0 .. n : g[k] = IF k = 0 THEN 0 ELSE R!Change(g[k - 1], events[k])
        BY <1>4, <2>1 DEF Leads
    <2>3. g \in [0 .. n -> Int]
        BY <1>4 DEF Leads
    <2> HIDE DEF next
    <2> QED BY <2>2, <2>3
<1>6. F(depth)
    <2> HIDE DEF F
    <2> QED BY <1>5
<1>7. depth[0] = 0 /\ \A k \in 1 .. n : depth[k] = R!Change(depth[k - 1], events[k])
    <2> HIDE DEF n, depth
    <2> QED BY <1>1, <1>6
<1>8. depth \in [0 .. n -> Int]
    <2> DEFINE T == {k \in 0 .. n : depth[k] \in Int}
    <2> HIDE DEF n, depth
    <2>1. 0 \in T
        BY <1>1, <1>7
    <2>2. ASSUME NEW k \in 0 .. n - 1, k \in T PROVE k + 1 \in T
        <3>1. k + 1 \in 1 .. n /\ k + 1 \in 0 .. n /\ (k + 1) - 1 = k
            BY <1>1
        <3>2. depth[k + 1] = R!Change(depth[k], events[k + 1])
            BY <1>7, <3>1
        <3> QED BY <1>1, <1>2, <2>2, <3>1, <3>2
    <2>3. \A k \in 0 .. n : k \in T
        <3> HIDE DEF T
        <3> QED BY <1>1, <2>1, <2>2, UpTo
    <2> QED BY <1>6, <2>3
<1>9. R!Active(events) <=> depth[n] > 0
    BY DEF R!Active
<1> HIDE DEF depth, n
<1> QED BY <1>7, <1>8, <1>9 DEF n

\* A set grows by one.
LEMMA AddOne ==
    ASSUME NEW S, IsFiniteSet(S), NEW x, x \notin S, NEW T, T = S \union {x}
    PROVE  IsFiniteSet(T) /\ Cardinality(T) = Cardinality(S) + 1
BY FS_AddElement

\* An interval grows by one.
LEMMA OneMore ==
    ASSUME NEW i \in Int, NEW k \in Int, i <= k
    PROVE  i .. k = (i .. k - 1) \union {k} /\ k \notin i .. k - 1
OBVIOUS

\* Between two events the depth changes by the starts without an end.
LEMMA DepthBetween ==
    ASSUME NEW events, NEW n \in Nat, NEW f \in [0 .. n -> Int],
           \A k \in 1 .. n : f[k] = R!Change(f[k - 1], events[k]),
           NEW i \in 1 .. n + 1, NEW j \in i - 1 .. n
    PROVE  /\ Cardinality(Starts(events, i, j)) \in Nat /\ Cardinality(Ends(events, i, j)) \in Nat
           /\ f[j] - f[i - 1] = Cardinality(Starts(events, i, j)) - Cardinality(Ends(events, i, j))
<1> DEFINE m == i - 1
           Fine(k) == /\ IsFiniteSet(Starts(events, i, k)) /\ IsFiniteSet(Ends(events, i, k))
                      /\ Cardinality(Starts(events, i, k)) \in Nat /\ Cardinality(Ends(events, i, k)) \in Nat
                      /\ f[k] - f[m] = Cardinality(Starts(events, i, k)) - Cardinality(Ends(events, i, k))
           S == {k \in 0 .. n : k >= m => Fine(k)}
<1>1. m \in 0 .. n /\ i = m + 1 /\ f[m] \in Int
    OBVIOUS
<1>2. Fine(m)
    <2>1. Starts(events, i, m) = {} /\ Ends(events, i, m) = {}
        BY DEF Starts, Ends
    <2>2. IsFiniteSet({}) /\ Cardinality({}) = 0
        BY FS_EmptySet
    <2>3. f[m] - f[m] = 0
        BY <1>1
    <2> HIDE DEF m
    <2> QED BY <2>1, <2>2, <2>3
<1> HIDE DEF m
<1>3. ASSUME NEW k \in 1 .. n, k > m, Fine(k - 1) PROVE Fine(k)
    <2>1. f[k] = R!Change(f[k - 1], events[k]) /\ f[k - 1] \in Int /\ i \in Int /\ k \in Int /\ i <= k
        BY <1>1, <1>3
    <2>2. i .. k = (i .. k - 1) \union {k} /\ k \notin i .. k - 1
        BY <2>1, OneMore
    <2>5. /\ IsFiniteSet(Starts(events, i, k - 1)) /\ IsFiniteSet(Ends(events, i, k - 1))
          /\ Cardinality(Starts(events, i, k - 1)) \in Nat /\ Cardinality(Ends(events, i, k - 1)) \in Nat
          /\ f[k - 1] - f[m] = Cardinality(Starts(events, i, k - 1)) - Cardinality(Ends(events, i, k - 1))
        BY <1>3
    <2>3. CASE events[k] = "enter"
        <3>1. Starts(events, i, k) = Starts(events, i, k - 1) \union {k} /\ Ends(events, i, k) = Ends(events, i, k - 1)
            BY <2>2, <2>3 DEF Starts, Ends
        <3>2. k \notin Starts(events, i, k - 1)
            BY <2>2 DEF Starts
        <3>3. IsFiniteSet(Starts(events, i, k)) /\ Cardinality(Starts(events, i, k)) = Cardinality(Starts(events, i, k - 1)) + 1
            BY ONLY <2>5, <3>1, <3>2, AddOne
        <3>5. IsFiniteSet(Ends(events, i, k)) /\ Cardinality(Ends(events, i, k)) = Cardinality(Ends(events, i, k - 1))
            BY ONLY <2>5, <3>1
        <3>4. f[k] = f[k - 1] + 1
            BY <2>1, <2>3 DEF R!Change
        <3>6. f[k] - f[m] = (f[k - 1] - f[m]) + 1
            BY ONLY <1>1, <2>1, <3>4
        <3>7. f[k] - f[m] = Cardinality(Starts(events, i, k)) - Cardinality(Ends(events, i, k))
            BY ONLY <2>5, <3>3, <3>5, <3>6
        <3> QED BY ONLY <2>5, <3>3, <3>5, <3>7 DEF Fine
    <2>4. CASE events[k] # "enter"
        <3>1. Starts(events, i, k) = Starts(events, i, k - 1) /\ Ends(events, i, k) = Ends(events, i, k - 1) \union {k}
            BY <2>2, <2>4 DEF Starts, Ends
        <3>2. k \notin Ends(events, i, k - 1)
            BY <2>2 DEF Ends
        <3>3. IsFiniteSet(Ends(events, i, k)) /\ Cardinality(Ends(events, i, k)) = Cardinality(Ends(events, i, k - 1)) + 1
            BY ONLY <2>5, <3>1, <3>2, AddOne
        <3>5. IsFiniteSet(Starts(events, i, k)) /\ Cardinality(Starts(events, i, k)) = Cardinality(Starts(events, i, k - 1))
            BY ONLY <2>5, <3>1
        <3>4. f[k] = f[k - 1] - 1
            BY <2>1, <2>4 DEF R!Change
        <3>6. f[k] - f[m] = (f[k - 1] - f[m]) - 1
            BY ONLY <1>1, <2>1, <3>4
        <3>7. f[k] - f[m] = Cardinality(Starts(events, i, k)) - Cardinality(Ends(events, i, k))
            BY ONLY <2>5, <3>3, <3>5, <3>6
        <3> QED BY ONLY <2>5, <3>3, <3>5, <3>7 DEF Fine
    <2> QED BY <2>3, <2>4
<1>4. 0 \in S
    <2> HIDE DEF Fine
    <2>1. 0 >= m => m = 0
        BY <1>1
    <2> QED BY <1>2, <2>1
<1>5. ASSUME NEW k \in 0 .. n - 1, k \in S PROVE k + 1 \in S
    <2>1. k + 1 \in 1 .. n /\ k + 1 \in 0 .. n /\ (k + 1) - 1 = k
        OBVIOUS
    <2>2. k + 1 >= m => k + 1 = m \/ (k + 1 > m /\ k >= m)
        BY <1>1
    <2> HIDE DEF Fine
    <2>3. k >= m => Fine(k)
        BY <1>5
    <2> QED BY <1>2, <1>3, <2>1, <2>2, <2>3
<1>6. \A k \in 0 .. n : k \in S
    <2> HIDE DEF S
    <2> QED BY <1>4, <1>5, UpTo
<1>7. j \in 0 .. n /\ j >= m
    BY <1>1
<1>8. Fine(j)
    <2> HIDE DEF Fine
    <2> QED BY <1>6, <1>7
<1> QED BY <1>8 DEF m

\* The mode of a thread is right whatever is nested, returns or panics.
LEMMA ActiveIsOpen ==
    ASSUME NEW events, NestedEvents(events)
    PROVE  R!Active(events) <=> R!Open(events)
<1> DEFINE n == Len(events)
<1>1. events \in Seq(Event) /\ n \in Nat /\ DOMAIN events = 1 .. n
    BY DEF NestedEvents
<1>2. PICK f \in [0 .. n -> Int] : /\ f[0] = 0 /\ \A k \in 1 .. n : f[k] = R!Change(f[k - 1], events[k])
                                   /\ R!Active(events) <=> f[n] > 0
    BY <1>1, DepthOf
<1> DEFINE More(i, j) == Cardinality(Starts(events, i, j)) > Cardinality(Ends(events, i, j))
<1>3. ASSUME NEW i \in 1 .. n, NEW j \in i .. n PROVE More(i, j) <=> f[j] > f[i - 1]
    <2>1. i \in 1 .. n + 1 /\ j \in i - 1 .. n /\ f[j] \in Int /\ f[i - 1] \in Int
        <3> HIDE DEF n
        <3>1. j \in 0 .. n /\ i - 1 \in 0 .. n
            BY <1>1
        <3> QED BY <1>1, <3>1
    <2>2. /\ Cardinality(Starts(events, i, j)) \in Nat /\ Cardinality(Ends(events, i, j)) \in Nat
          /\ f[j] - f[i - 1] = Cardinality(Starts(events, i, j)) - Cardinality(Ends(events, i, j))
        BY ONLY <1>1, <1>2, <2>1, DepthBetween
    <2> QED BY <2>1, <2>2
<1>4. ASSUME NEW j \in 0 .. n PROVE f[j] >= 0
    <2>1. 1 \in 1 .. n + 1 /\ j \in 1 - 1 .. n /\ f[j] \in Int /\ 1 - 1 = 0
        BY <1>1
    <2>2. /\ Cardinality(Starts(events, 1, j)) \in Nat /\ Cardinality(Ends(events, 1, j)) \in Nat
          /\ f[j] - f[0] = Cardinality(Starts(events, 1, j)) - Cardinality(Ends(events, 1, j))
        BY ONLY <1>1, <1>2, <2>1, DepthBetween
    <2>3. Cardinality(Starts(events, 1, j)) >= Cardinality(Ends(events, 1, j))
        BY DEF NestedEvents
    <2> QED BY <1>2, <2>1, <2>2, <2>3
<1>5. R!Open(events) <=> \E i \in 1 .. n : \A j \in i .. n : More(i, j)
    <2> HIDE DEF n
    <2> QED BY <1>1 DEF R!Open, Starts, Ends, n
<1> HIDE DEF More
<1>6. ASSUME NEW i \in 1 .. n, \A j \in i .. n : More(i, j) PROVE f[n] > 0
    <2>1. n \in i .. n /\ i - 1 \in 0 .. n /\ n \in 0 .. n
        BY <1>1
    <2>2. f[n] > f[i - 1] /\ f[i - 1] >= 0 /\ f[n] \in Int /\ f[i - 1] \in Int
        BY <1>3, <1>4, <1>6, <2>1
    <2> QED BY <2>2
<1>7. ASSUME f[n] > 0 PROVE \E i \in 1 .. n : \A j \in i .. n : More(i, j)
    <2> HIDE DEF n
    <2> DEFINE zeros == {k \in 0 .. n : f[k] = 0}
    <2>1. PICK z \in zeros : \A k \in zeros : k <= z
        <3>1. zeros \in SUBSET (0 .. n) /\ 0 \in zeros
            BY <1>1, <1>2
        <3> HIDE DEF zeros, n
        <3> QED BY <1>1, <3>1, GreatestOf
    <2>2. z \in 0 .. n /\ f[z] = 0 /\ z # n
        BY <1>7
    <2>3. z + 1 \in 1 .. n /\ (z + 1) - 1 = z
        BY <1>1, <2>2
    <2>4. ASSUME NEW j \in z + 1 .. n PROVE More(z + 1, j)
        <3>1. j \in 0 .. n /\ j > z
            BY <1>1, <2>2
        <3>2. f[j] # 0
            BY <2>1, <2>2, <3>1
        <3>3. f[j] > f[z]
            BY <1>4, <2>2, <3>1, <3>2
        <3> QED BY <1>3, <2>3, <3>3
    <2> QED BY <2>3, <2>4
<1> HIDE DEF n
<1> QED BY <1>2, <1>5, <1>6, <1>7

\* Logs have nothing that is marked, and all else is as if there was no marker, for paths of any
\* length and previews that are nested, return and panic in any way.
THEOREM OnlyLogsRedactedCorrect ==
    ASSUME NEW S, \A item \in S : IsField(item), NEW path \in Seq(S), NEW events, NestedEvents(events)
    PROVE  R!OnlyLogsRedacted(path, events)
<1> DEFINE plain == [i \in DOMAIN path |-> path[i].serde]
           marked == \E i \in DOMAIN path : path[i].marks # <<>>
           serdes == [i \in DOMAIN path |-> CHOOSE s \in R!ExpandItem(path[i]) : TRUE]
           active == R!Active(events)
           shown == R!Shown(path, serdes, active)
           off == FALSE
<1> SUFFICES ASSUME \A i \in DOMAIN path : R!ExpandItem(path[i]) # {}
             PROVE  /\ IF active /\ marked THEN shown \in {<<"absent">>, <<"***">>} ELSE shown = R!Shown(path, plain, FALSE)
                    /\ \A i \in DOMAIN path : R!Reads(serdes[i]) = R!Reads(plain[i])
    <2>1. active <=> R!Open(events)
        BY ActiveIsOpen
    <2> HIDE DEF plain, marked, shown, serdes, active
    <2> QED BY <2>1 DEF R!OnlyLogsRedacted, plain, marked, shown, serdes, active
<1>1. ASSUME NEW i \in DOMAIN path
      PROVE  /\ serdes[i] \in R!ExpandItem(path[i])
             /\ path[i].marks = <<>> => serdes[i] = plain[i]
             /\ path[i].marks # <<>> => R!Field(path[i], serdes[i], TRUE) \in {"absent", "***"}
             /\ R!Field(path[i], serdes[i], FALSE) = R!Field(path[i], plain[i], FALSE)
             /\ R!Reads(serdes[i]) = R!Reads(plain[i])
    <2>1. IsField(path[i]) /\ R!ExpandItem(path[i]) # {} /\ plain[i] = path[i].serde
        OBVIOUS
    <2>2. /\ path[i].marks = <<>> => (CHOOSE s \in R!ExpandItem(path[i]) : TRUE) = path[i].serde
          /\ \A s \in R!ExpandItem(path[i]) :
                 /\ path[i].marks # <<>> => R!Field(path[i], s, TRUE) \in {"absent", "***"}
                 /\ R!Field(path[i], s, FALSE) = R!Field(path[i], path[i].serde, FALSE)
                 /\ R!Reads(s) = R!Reads(path[i].serde)
        BY <2>1, FieldRedacted
    <2>3. serdes[i] = (CHOOSE s \in R!ExpandItem(path[i]) : TRUE) /\ serdes[i] \in R!ExpandItem(path[i])
        BY <2>1
    <2> HIDE DEF serdes, plain
    <2> QED BY <2>1, <2>2, <2>3
<1> HIDE DEF serdes, plain
<1>2. active \in BOOLEAN
    BY DEF R!Active
<1>3. CASE active /\ marked
    <2>1. active = TRUE
        BY <1>2, <1>3
    <2>2. PICK i \in DOMAIN path : path[i].marks # <<>>
        BY <1>3
    <2>3. R!Field(path[i], serdes[i], active) \in {"absent", "***"}
        BY <1>1, <2>1, <2>2
    <2> HIDE DEF active, marked
    <2>4. shown \in {<<"absent">>, <<"***">>}
        BY <2>3, ShownHidden
    <2> QED BY <1>1, <1>3, <2>4
<1>4. CASE ~active
    <2>1. active = FALSE
        BY <1>2, <1>4
    <2>2. \A i \in DOMAIN path : R!Field(path[i], serdes[i], active) = R!Field(path[i], plain[i], off)
        BY <1>1, <2>1
    <2> HIDE DEF active, marked, off
    <2>3. shown = R!Shown(path, plain, off)
        BY <2>2, ShownAs
    <2> QED BY <1>1, <1>4, <2>3 DEF off
<1>5. CASE ~marked
    <2>1. ASSUME NEW i \in DOMAIN path PROVE R!Field(path[i], serdes[i], active) = R!Field(path[i], plain[i], off)
        <3>1. plain[i] = path[i].serde /\ path[i].marks = <<>>
            BY <1>5 DEF plain
        <3>2. serdes[i] = plain[i]
            BY <1>1, <3>1
        <3>7. IsField(path[i])
            OBVIOUS
        <3> HIDE DEF active
        <3> DEFINE own == path[i].serde
        <3>3. \A a \in DOMAIN own : own[a] = "user"
            BY <3>7 DEF IsField
        <3>4. R!Omitted(own, path[i].omits, active) <=> R!Omitted(own, path[i].omits, FALSE)
            BY <3>3 DEF R!Omitted
        <3>5. R!Written(own, active) = R!Written(own, FALSE)
            BY <3>3 DEF R!Written
        <3> HIDE DEF own
        <3>6. R!Field(path[i], own, active) = R!Field(path[i], own, FALSE)
            BY <3>4, <3>5 DEF R!Field
        <3> QED BY <3>1, <3>2, <3>6 DEF own
    <2> HIDE DEF active, marked, off
    <2>2. shown = R!Shown(path, plain, off)
        BY <2>1, ShownAs
    <2> QED BY <1>1, <1>5, <2>2 DEF off
<1> QED BY <1>3, <1>4, <1>5

----------------------------------------------------------------------------
(* Messages of errors.                                                      *)

\* Messages of errors: nothing that was given is lost, and {} shows no cause.
THEOREM MessagesRightCorrect ==
    ASSUME NEW names, NEW ask, ask.how \in {"bare", "value", "keys"}, ask.literal \in BOOLEAN, NEW causes
    PROVE  C!MessagesRight(names, ask, causes)
<1> DEFINE args == C!Args(names, ask)
           d == C!Display(names, args, causes)
           all == C!DisplayAll(names, args, causes)
           debug == C!Debug(names, args, causes)
<1> SUFFICES ASSUME C!Compiles(names, ask)
             PROVE  /\ ask.literal => C!Renders(names, args)
                    /\ d.causes = 0 /\ d.args \subseteq names \cap args
                    /\ \A m \in {all, debug} : m.causes = causes /\ names \cap args \subseteq m.args
    BY DEF C!MessagesRight
<1>1. ask.literal => C!Renders(names, args)
    BY DEF C!Compiles, C!Renders, C!Args
<1> HIDE DEF args
<1>2. CASE C!Renders(names, args)
    <2>1. d = [args |-> names, template |-> FALSE, causes |-> 0]
        BY <1>2 DEF C!Display, C!WriteMessage
    <2> DEFINE m == [args |-> names, template |-> FALSE, causes |-> 0]
    <2>2. all = [m EXCEPT !.causes = causes] /\ debug = all
        BY <1>2 DEF C!DisplayAll, C!Debug, C!WriteMessage
    <2>4. all.args = names /\ all.causes = causes
        BY ONLY <2>2
    <2>3. names \subseteq args
        BY <1>2 DEF C!Renders
    <2> HIDE DEF d, all, debug
    <2> QED BY <1>1, <2>1, <2>2, <2>3, <2>4
<1>3. CASE ~C!Renders(names, args)
    <2>1. d = [args |-> {}, template |-> TRUE, causes |-> 0]
        BY <1>3 DEF C!Display, C!WriteMessage
    <2> DEFINE m == [args |-> args, template |-> TRUE, causes |-> 0]
    <2>2. all = [m EXCEPT !.causes = causes] /\ debug = all
        BY <1>3 DEF C!DisplayAll, C!Debug, C!WriteMessage
    <2>4. all.args = args /\ all.causes = causes
        BY ONLY <2>2
    <2> HIDE DEF d, all, debug
    <2> QED BY <1>1, <2>1, <2>2, <2>4
<1> QED BY <1>2, <1>3

----------------------------------------------------------------------------
(* HTTP: bodies that are written to a file; headers, configuration, logs    *)
(* and errors.                                                              *)

Chunk == [bytes : Nat, broken : BOOLEAN]

\* The sizes of chunks add up, one after the other.
LEMMA BytesAre ==
    ASSUME NEW chunks \in Seq(Chunk)
    PROVE  /\ \A k \in 0 .. Len(chunks) : H!Bytes(chunks, k) \in Nat
           /\ H!Bytes(chunks, 0) = 0
           /\ \A k \in 1 .. Len(chunks) : H!Bytes(chunks, k) = H!Bytes(chunks, k - 1) + chunks[k].bytes
<1> DEFINE n == Len(chunks)
           next == [k \in 1 .. n |-> [d \in Nat |-> d + chunks[k].bytes]]
           F(f) == f = [k \in 0 .. n |-> IF k = 0 THEN 0 ELSE f[k - 1] + chunks[k].bytes]
           sum == CHOOSE f : F(f)
<1>1. n \in Nat /\ 0 \in Nat /\ \A k \in 1 .. n : chunks[k].bytes \in Nat
    <2>1. \A k \in 1 .. n : chunks[k] \in Chunk
        OBVIOUS
    <2> QED BY <2>1 DEF Chunk
<1>2. Steps(n, Nat, next)
    <2> HIDE DEF n
    <2> QED BY <1>1 DEF Steps
<1>3. PICK g : Leads(n, Nat, next, 0, g)
    <2> HIDE DEF n, next
    <2> QED BY <1>1, <1>2, StepByStep
<1>4. F(g)
    <2> HIDE DEF n
    <2>1. ASSUME NEW k \in 0 .. n, k # 0 PROVE k \in 1 .. n /\ g[k - 1] \in Nat
        BY <1>1, <1>3, <2>1 DEF Leads
    <2>2. \A k \in 0 .. n : g[k] = IF k = 0 THEN 0 ELSE g[k - 1] + chunks[k].bytes
        BY <1>3, <2>1 DEF Leads
    <2>3. g \in [0 .. n -> Nat]
        BY <1>3 DEF Leads
    <2> HIDE DEF next
    <2> QED BY <2>2, <2>3
<1>5. F(sum)
    <2> HIDE DEF F
    <2> QED BY <1>4
<1>6. sum[0] = 0 /\ \A k \in 1 .. n : sum[k] = sum[k - 1] + chunks[k].bytes
    <2> HIDE DEF n, sum
    <2> QED BY <1>1, <1>5
<1>7. \A k \in 0 .. n : sum[k] \in Nat
    <2> DEFINE T == {k \in 0 .. n : sum[k] \in Nat}
    <2> HIDE DEF n, sum
    <2>1. 0 \in T
        BY <1>1, <1>6
    <2>2. ASSUME NEW k \in 0 .. n - 1, k \in T PROVE k + 1 \in T
        <3>1. k + 1 \in 1 .. n /\ k + 1 \in 0 .. n /\ (k + 1) - 1 = k
            BY <1>1
        <3>2. sum[k + 1] = sum[k] + chunks[k + 1].bytes
            BY <1>6, <3>1
        <3> QED BY <1>1, <2>2, <3>1, <3>2
    <2> HIDE DEF T
    <2>3. \A k \in 0 .. n : k \in T
        BY <1>1, <2>1, <2>2, UpTo
    <2> QED BY <2>3 DEF T
<1>8. \A k : H!Bytes(chunks, k) = sum[k]
    BY DEF H!Bytes
<1> HIDE DEF sum
<1> QED BY <1>6, <1>7, <1>8

\* More chunks have no fewer bytes.
LEMMA BytesGrow ==
    ASSUME NEW chunks \in Seq(Chunk), NEW i \in 0 .. Len(chunks)
    PROVE  H!Bytes(chunks, i) <= H!Bytes(chunks, Len(chunks))
<1> DEFINE n == Len(chunks)
           B(k) == H!Bytes(chunks, k)
           T == {k \in 0 .. n : k >= i => B(i) <= B(k)}
<1>1. n \in Nat /\ (\A k \in 0 .. n : B(k) \in Nat) /\ \A k \in 1 .. n : B(k) = B(k - 1) + chunks[k].bytes /\ chunks[k].bytes \in Nat
    <2>1. \A k \in 1 .. n : chunks[k] \in Chunk
        OBVIOUS
    <2> QED BY <2>1, BytesAre DEF Chunk
<1> HIDE DEF n, B
<1>2. 0 \in T
    BY <1>1 DEF n
<1>3. ASSUME NEW k \in 0 .. n - 1, k \in T PROVE k + 1 \in T
    <2>1. k + 1 \in 1 .. n /\ k + 1 \in 0 .. n /\ (k + 1) - 1 = k /\ i \in 0 .. n
        BY <1>1 DEF n
    <2>2. B(k + 1) = B(k) + chunks[k + 1].bytes /\ chunks[k + 1].bytes \in Nat /\ B(k) \in Nat /\ B(i) \in Nat /\ B(k + 1) \in Nat
        BY <1>1, <2>1
    <2>3. CASE k >= i
        BY <1>3, <2>1, <2>2, <2>3
    <2>4. CASE ~(k >= i)
        <3>1. k + 1 >= i => k + 1 = i
            BY <2>1, <2>4
        <3> QED BY <2>1, <2>2, <3>1
    <2> QED BY <2>3, <2>4
<1>4. \A k \in 0 .. n : k \in T
    <2> HIDE DEF T
    <2> QED BY <1>1, <1>2, <1>3, UpTo
<1>5. n \in 0 .. n /\ n >= i
    BY <1>1 DEF n
<1>6. B(i) <= B(n)
    BY <1>4, <1>5
<1> QED BY <1>6 DEF B, n

\* Bodies of any number of chunks, into a writer of any size.
THEOREM WriteRightCorrect ==
    ASSUME NEW chunks \in Seq(Chunk), NEW room \in Nat
    PROVE  H!WriteRight(chunks, room)
<1> DEFINE n == Len(chunks)
           B(k) == H!Bytes(chunks, k)
           stops == {i \in DOMAIN chunks : chunks[i].broken \/ B(i) > room}
           least == CHOOSE i \in stops : \A j \in stops : i <= j
           at == IF stops = {} THEN n ELSE least - 1
           w == H!WriteTo(chunks, room)
<1>1. n \in Nat /\ DOMAIN chunks = 1 .. n /\ (\A k \in 0 .. n : B(k) \in Nat) /\ B(0) = 0 /\ \A k \in 0 .. n : B(k) <= B(n)
    BY BytesAre, BytesGrow
<1>2. w = [written |-> B(at), count |-> {B(at) : once \in {TRUE} \cap {stops = {}}}]
    BY DEF H!WriteTo
<1>3. w.written = B(at) /\ w.count = {B(at) : once \in {TRUE} \cap {stops = {}}}
    <2> HIDE DEF at, w, stops, B
    <2> QED BY <1>2
<1>4. stops \in SUBSET Nat /\ \A k \in 1 .. n : k \notin stops => ~chunks[k].broken /\ ~(B(k) > room)
    <2> HIDE DEF n, B
    <2> QED BY <1>1
<1>5. stops # {} => least \in stops /\ \A j \in stops : least <= j
    <2> HIDE DEF stops
    <2>1. stops # {} => \E i \in stops : \A j \in stops : i <= j
        BY <1>4, LeastOf
    <2> QED BY <2>1
<1>6. stops \subseteq 1 .. n
    <2> HIDE DEF B, n
    <2> QED BY <1>1
<1> HIDE DEF least, B, n, w
<1>7. at \in 0 .. n /\ \A k \in 1 .. at : k \notin stops
    <2>1. CASE stops = {}
        <3> HIDE DEF stops
        <3>1. at = n /\ n \in 0 .. n
            BY <1>1, <2>1
        <3> QED BY <2>1, <3>1
    <2>2. CASE stops # {}
        <3> HIDE DEF stops
        <3>1. least \in 1 .. n /\ at = least - 1
            BY <1>5, <1>6, <2>2
        <3>2. at \in 0 .. n /\ \A k \in 1 .. at : k < least
            BY <1>1, <3>1
        <3>3. \A k \in 1 .. at : ~(least <= k)
            BY <1>1, <3>1, <3>2
        <3> QED BY <1>5, <2>2, <3>2, <3>3
    <2> QED BY <2>1, <2>2
<1> HIDE DEF at, stops
<1>8. B(at) <= room
    <2>1. CASE at = 0
        BY <1>1, <2>1
    <2>2. CASE at # 0
        <3>1. at \in 1 .. at /\ at \in 1 .. n
            BY <1>1, <1>7, <2>2
        <3>2. ~(B(at) > room) /\ B(at) \in Nat
            BY <1>1, <1>4, <1>7, <3>1
        <3> QED BY <3>2
    <2> QED BY <2>1, <2>2
<1>9. \A i \in 1 .. at : ~chunks[i].broken
    <2>1. \A i \in 1 .. at : i \in 1 .. n
        BY <1>1, <1>7
    <2> QED BY <1>4, <1>7, <2>1
<1>10. ASSUME NEW c \in w.count PROVE c = B(n) /\ w.written = c
    <2>1. stops = {} /\ c = B(at)
        BY <1>3
    <2> QED BY <1>3, <2>1 DEF at
<1>11. ASSUME w.count = {} PROVE (\E i \in DOMAIN chunks : chunks[i].broken) \/ B(n) > room
    <2>1. stops # {}
        BY <1>3, <1>11
    <2>2. PICK i \in 1 .. n : chunks[i].broken \/ B(i) > room
        BY <1>1, <2>1 DEF stops
    <2>3. B(i) <= B(n) /\ B(i) \in Nat /\ B(n) \in Nat /\ i \in DOMAIN chunks
        BY <1>1
    <2> QED BY <2>2, <2>3
<1>12. /\ w.written <= room /\ \E k \in 0 .. n : w.written = B(k) /\ \A i \in 1 .. k : ~chunks[i].broken
       /\ \A c \in w.count : c = B(n) /\ w.written = c
       /\ w.count = {} => (\E i \in DOMAIN chunks : chunks[i].broken) \/ B(n) > room
    BY <1>3, <1>7, <1>8, <1>9, <1>10, <1>11
<1> QED BY <1>12 DEF H!WriteRight, w, B, n

\* Header maps, and headers as a file has them, in any order and as often as somebody likes.
HeaderMaps(N, V) == UNION {[S -> Seq(V)] : S \in {T \in SUBSET N : IsFiniteSet(T)}}
Entries(N, V) == Seq([name : N, values : Seq(V)])
NamesIn(entries) == {entries[i].name : i \in DOMAIN entries}

\* A map of headers has finitely many names and a sequence of values for each.
LEMMA HeaderMapIs ==
    ASSUME NEW N, NEW V, NEW h \in HeaderMaps(N, V)
    PROVE  /\ h = [n \in DOMAIN h |-> h[n]] /\ IsFiniteSet(DOMAIN h) /\ DOMAIN h \subseteq N
           /\ \A n \in DOMAIN h : h[n] \in Seq(V)
BY DEF HeaderMaps

\* What has these is one.
LEMMA HeaderMapOf ==
    ASSUME NEW N, NEW V, NEW h, h = [n \in DOMAIN h |-> h[n]], IsFiniteSet(DOMAIN h), DOMAIN h \subseteq N, \A n \in DOMAIN h : h[n] \in Seq(V)
    PROVE  h \in HeaderMaps(N, V)
<1>1. h \in [DOMAIN h -> Seq(V)]
    OBVIOUS
<1> QED BY <1>1 DEF HeaderMaps

\* What replaces wins, the rest stays.
LEMMA ExtendNew ==
    ASSUME NEW h, NEW more, NEW n \in DOMAIN more
    PROVE  n \in DOMAIN H!Extend(h, more) /\ H!Extend(h, more)[n] = more[n]
BY DEF H!Extend

\* And what nothing replaces stays.
LEMMA ExtendOld ==
    ASSUME NEW h, NEW more, NEW n \in DOMAIN h, n \notin DOMAIN more
    PROVE  n \in DOMAIN H!Extend(h, more) /\ H!Extend(h, more)[n] = h[n]
BY DEF H!Extend

\* A map extended by a map is one.
LEMMA ExtendMaps ==
    ASSUME NEW N, NEW V, NEW h \in HeaderMaps(N, V), NEW more \in HeaderMaps(N, V)
    PROVE  H!Extend(h, more) \in HeaderMaps(N, V)
<1> DEFINE x == H!Extend(h, more)
<1>1. /\ IsFiniteSet(DOMAIN h) /\ DOMAIN h \subseteq N /\ \A n \in DOMAIN h : h[n] \in Seq(V)
      /\ IsFiniteSet(DOMAIN more) /\ DOMAIN more \subseteq N /\ \A n \in DOMAIN more : more[n] \in Seq(V)
    BY HeaderMapIs
<1>2. x = [n \in DOMAIN h \union DOMAIN more |-> IF n \in DOMAIN more THEN more[n] ELSE h[n]]
    BY DEF H!Extend
<1>3. DOMAIN x = DOMAIN h \union DOMAIN more /\ x = [n \in DOMAIN x |-> x[n]]
    <2> HIDE DEF x
    <2> QED BY <1>2
<1>4. IsFiniteSet(DOMAIN x)
    BY <1>1, <1>3, FS_Union
<1>5. \A n \in DOMAIN x : x[n] \in Seq(V)
    <2> HIDE DEF x
    <2> QED BY <1>1, <1>2, <1>3
<1> HIDE DEF x
<1>6. DOMAIN x \subseteq N
    BY <1>1, <1>3
<1>7. x \in HeaderMaps(N, V)
    BY <1>3, <1>4, <1>5, <1>6, HeaderMapOf
<1> QED BY <1>7 DEF x

\* The last part that has a name decides.
LEMMA MergedHeaders ==
    ASSUME NEW N, NEW V, NEW parts \in Seq(HeaderMaps(N, V))
    PROVE  /\ H!IntoHeaders(parts) \in HeaderMaps(N, V)
           /\ \A i \in DOMAIN parts : \A n \in DOMAIN parts[i] :
                  (\A j \in i + 1 .. Len(parts) : n \notin DOMAIN parts[j]) =>
                      n \in DOMAIN H!IntoHeaders(parts) /\ H!IntoHeaders(parts)[n] = parts[i][n]
<1> DEFINE z == Len(parts)
           M == HeaderMaps(N, V)
           next == [k \in 1 .. z |-> [h \in M |-> H!Extend(h, parts[k])]]
           F(f) == f = [k \in 0 .. z |-> IF k = 0 THEN <<>> ELSE H!Extend(f[k - 1], parts[k])]
           merged == CHOOSE f : F(f)
<1>1. z \in Nat /\ DOMAIN parts = 1 .. z /\ \A k \in 1 .. z : parts[k] \in M
    OBVIOUS
<1>2. \A h, p \in M : H!Extend(h, p) \in M
    BY ExtendMaps
<1>3. <<>> \in M
    <2>1. DOMAIN <<>> = {} /\ <<>> = [k \in {} |-> <<>>[k]]
        OBVIOUS
    <2>2. IsFiniteSet({})
        BY FS_EmptySet
    <2> QED BY <2>1, <2>2, HeaderMapOf
<1>4. Steps(z, M, next)
    <2> HIDE DEF z, M
    <2> QED BY <1>1, <1>2 DEF Steps
<1>5. PICK g : Leads(z, M, next, <<>>, g)
    <2> HIDE DEF z, M, next
    <2> QED BY <1>1, <1>3, <1>4, StepByStep
<1>6. F(g)
    <2> HIDE DEF z, M
    <2>1. ASSUME NEW k \in 0 .. z, k # 0 PROVE k \in 1 .. z /\ g[k - 1] \in M
        BY <1>1, <1>5, <2>1 DEF Leads
    <2>2. \A k \in 0 .. z : g[k] = IF k = 0 THEN <<>> ELSE H!Extend(g[k - 1], parts[k])
        BY <1>5, <2>1 DEF Leads
    <2>3. g \in [0 .. z -> M]
        BY <1>5 DEF Leads
    <2> HIDE DEF next
    <2> QED BY <2>2, <2>3
<1>7. F(merged)
    <2> HIDE DEF F
    <2> QED BY <1>6
<1>8. merged[0] = <<>> /\ \A k \in 1 .. z : merged[k] = H!Extend(merged[k - 1], parts[k])
    <2> HIDE DEF z, merged
    <2> QED BY <1>1, <1>7
<1>9. \A k \in 0 .. z : merged[k] \in M
    <2> DEFINE T == {k \in 0 .. z : merged[k] \in M}
    <2> HIDE DEF z, M, merged
    <2>1. 0 \in T
        BY <1>1, <1>3, <1>8
    <2>2. ASSUME NEW k \in 0 .. z - 1, k \in T PROVE k + 1 \in T
        <3>1. k + 1 \in 1 .. z /\ k + 1 \in 0 .. z /\ (k + 1) - 1 = k
            BY <1>1
        <3>2. merged[k + 1] = H!Extend(merged[k], parts[k + 1])
            BY <1>8, <3>1
        <3> QED BY <1>1, <1>2, <2>2, <3>1, <3>2
    <2> HIDE DEF T
    <2>3. \A k \in 0 .. z : k \in T
        BY <1>1, <2>1, <2>2, UpTo
    <2> QED BY <2>3 DEF T
<1>10. H!IntoHeaders(parts) = merged[z]
    BY DEF H!IntoHeaders
<1> HIDE DEF merged, M
<1>11. ASSUME NEW i \in 1 .. z, NEW n \in DOMAIN parts[i], \A j \in i + 1 .. z : n \notin DOMAIN parts[j]
       PROVE  n \in DOMAIN merged[z] /\ merged[z][n] = parts[i][n]
    <2> DEFINE T == {k \in 0 .. z : k >= i => n \in DOMAIN merged[k] /\ merged[k][n] = parts[i][n]}
    <2> HIDE DEF z
    <2>1. 0 \in T
        BY <1>1
    <2>2. ASSUME NEW k \in 0 .. z - 1, k \in T PROVE k + 1 \in T
        <3>1. k + 1 \in 1 .. z /\ k + 1 \in 0 .. z /\ (k + 1) - 1 = k
            BY <1>1
        <3>2. merged[k + 1] = H!Extend(merged[k], parts[k + 1])
            BY <1>8, <3>1
        <3>3. CASE k + 1 < i
            <4>1. ~(k + 1 >= i)
                BY <3>1, <3>3
            <4> QED BY <3>1, <4>1
        <3>4. CASE k + 1 = i
            <4>1. n \in DOMAIN H!Extend(merged[k], parts[i]) /\ H!Extend(merged[k], parts[i])[n] = parts[i][n]
                BY ExtendNew
            <4> QED BY <3>1, <3>2, <3>4, <4>1
        <3>5. CASE k >= i
            <4>1. k + 1 \in i + 1 .. z
                BY <1>1, <3>1, <3>5
            <4>2. n \notin DOMAIN parts[k + 1] /\ n \in DOMAIN merged[k] /\ merged[k][n] = parts[i][n]
                BY <1>11, <2>2, <3>5, <4>1
            <4>3. n \in DOMAIN merged[k + 1] /\ merged[k + 1][n] = merged[k][n]
                <5>1. n \in DOMAIN H!Extend(merged[k], parts[k + 1]) /\ H!Extend(merged[k], parts[k + 1])[n] = merged[k][n]
                    BY <4>2, ExtendOld
                <5> QED BY <3>2, <5>1
            <4> QED BY <3>1, <4>2, <4>3
        <3> QED BY <1>1, <3>3, <3>4, <3>5
    <2>3. \A k \in 0 .. z : k \in T
        <3> HIDE DEF T
        <3> QED BY <1>1, <2>1, <2>2, UpTo
    <2>4. z \in 0 .. z /\ z >= i
        BY <1>1
    <2> QED BY <2>3, <2>4
<1>12. merged[z] \in M
    <2> HIDE DEF z
    <2>1. z \in 0 .. z
        BY <1>1
    <2> QED BY <1>9, <2>1
<1>13. \A i \in DOMAIN parts : \A n \in DOMAIN parts[i] :
           (\A j \in i + 1 .. z : n \notin DOMAIN parts[j]) => n \in DOMAIN merged[z] /\ merged[z][n] = parts[i][n]
    <2> HIDE DEF z
    <2> QED BY <1>1, <1>11
<1> QED BY <1>10, <1>12, <1>13 DEF M

\* Entries have a name and a sequence of values each.
LEMMA EntriesAre ==
    ASSUME NEW N, NEW V, NEW entries \in Entries(N, V)
    PROVE  /\ Len(entries) \in Nat /\ DOMAIN entries = 1 .. Len(entries)
           /\ \A k \in 1 .. Len(entries) : entries[k].name \in N /\ entries[k].values \in Seq(V)
<1> DEFINE E == [name : N, values : Seq(V)]
<1>1. entries \in Seq(E)
    BY DEF Entries
<1>2. \A e \in E : e.name \in N /\ e.values \in Seq(V)
    OBVIOUS
<1> HIDE DEF E
<1>3. Len(entries) \in Nat /\ DOMAIN entries = 1 .. Len(entries) /\ \A k \in 1 .. Len(entries) : entries[k] \in E
    BY <1>1
<1> QED BY <1>2, <1>3

\* The values of a name in a file.
Collects(entries, name, V, f) ==
    /\ f \in [0 .. Len(entries) -> Seq(V)] /\ f[0] = <<>>
    /\ \A k \in 1 .. Len(entries) : f[k] = IF entries[k].name = name THEN f[k - 1] \o entries[k].values ELSE f[k - 1]
    /\ H!ValuesOf(entries, name) = f[Len(entries)]

\* The values of a name, collected entry by entry.
LEMMA ValuesAre ==
    ASSUME NEW N, NEW V, NEW entries \in Entries(N, V), NEW name
    PROVE  \E f : Collects(entries, name, V, f)
<1> DEFINE z == Len(entries)
           M == Seq(V)
           Add(s, k) == IF entries[k].name = name THEN s \o entries[k].values ELSE s
           next == [k \in 1 .. z |-> [s \in M |-> Add(s, k)]]
           F(f) == f = [k \in 0 .. z |-> IF k = 0 THEN <<>> ELSE Add(f[k - 1], k)]
           upTo == CHOOSE f : F(f)
<1>1. z \in Nat /\ \A k \in 1 .. z : entries[k].values \in M
    BY EntriesAre
<1>2. \A s \in M, k \in 1 .. z : Add(s, k) \in M
    <2>1. \A s, t \in M : s \o t \in M
        OBVIOUS
    <2> HIDE DEF M, z
    <2> QED BY <1>1, <2>1
<1>3. <<>> \in M
    OBVIOUS
<1> HIDE DEF Add
<1>4. Steps(z, M, next)
    <2> HIDE DEF z, M
    <2> QED BY <1>1, <1>2 DEF Steps
<1>5. PICK g : Leads(z, M, next, <<>>, g)
    <2> HIDE DEF z, M, next
    <2> QED BY <1>1, <1>3, <1>4, StepByStep
<1>6. F(g)
    <2> HIDE DEF z, M
    <2>1. ASSUME NEW k \in 0 .. z, k # 0 PROVE k \in 1 .. z /\ g[k - 1] \in M
        BY <1>1, <1>5, <2>1 DEF Leads
    <2>2. \A k \in 0 .. z : g[k] = IF k = 0 THEN <<>> ELSE Add(g[k - 1], k)
        BY <1>5, <2>1 DEF Leads
    <2>3. g \in [0 .. z -> M]
        BY <1>5 DEF Leads
    <2> HIDE DEF next
    <2> QED BY <2>2, <2>3
<1>7. F(upTo)
    <2> HIDE DEF F
    <2> QED BY <1>6
<1>8. upTo[0] = <<>> /\ (\A k \in 1 .. z : upTo[k] = Add(upTo[k - 1], k)) /\ upTo = [k \in 0 .. z |-> upTo[k]]
    <2> HIDE DEF z, upTo
    <2>1. DOMAIN upTo = 0 .. z
        BY <1>7
    <2>2. \A k \in 0 .. z : upTo[k] = IF k = 0 THEN <<>> ELSE Add(upTo[k - 1], k)
        BY <1>7
    <2>3. upTo = [k \in 0 .. z |-> upTo[k]]
        BY <1>7, <2>1
    <2>4. 0 \in 0 .. z /\ \A k \in 1 .. z : k \in 0 .. z /\ k # 0
        BY <1>1
    <2> QED BY ONLY <2>2, <2>3, <2>4, Zenon
<1>9. \A k \in 0 .. z : upTo[k] \in M
    <2> DEFINE T == {k \in 0 .. z : upTo[k] \in M}
    <2> HIDE DEF z, M, upTo
    <2>1. 0 \in T
        BY <1>1, <1>3, <1>8
    <2>2. ASSUME NEW k \in 0 .. z - 1, k \in T PROVE k + 1 \in T
        <3>1. k + 1 \in 1 .. z /\ k + 1 \in 0 .. z /\ (k + 1) - 1 = k
            BY <1>1
        <3>2. upTo[k + 1] = Add(upTo[k], k + 1)
            BY <1>8, <3>1
        <3> QED BY <1>1, <1>2, <2>2, <3>1, <3>2
    <2> HIDE DEF T
    <2>3. \A k \in 0 .. z : k \in T
        BY <1>1, <2>1, <2>2, UpTo
    <2> QED BY <2>3 DEF T
<1>10. H!ValuesOf(entries, name) = upTo[z]
    BY DEF H!ValuesOf, Add
<1>11. upTo \in [0 .. z -> M]
    <2> HIDE DEF upTo, z, M
    <2> QED BY <1>8, <1>9
<1> HIDE DEF upTo
<1> QED BY <1>8, <1>10, <1>11 DEF Add, Collects

\* Each of them is written somewhere.
LEMMA ValuesFrom ==
    ASSUME NEW N, NEW V, NEW entries \in Entries(N, V), NEW name
    PROVE  /\ H!ValuesOf(entries, name) \in Seq(V)
           /\ \A v \in H!ToSet(H!ValuesOf(entries, name)) : \E i \in 1 .. Len(entries) : v \in H!ToSet(entries[i].values)
<1> DEFINE z == Len(entries)
           Listed(v) == \E i \in 1 .. z : v \in H!ToSet(entries[i].values)
<1>10. PICK f : Collects(entries, name, V, f)
    BY ValuesAre
<1>1. /\ f \in [0 .. z -> Seq(V)] /\ f[0] = <<>>
      /\ \A k \in 1 .. z : f[k] = IF entries[k].name = name THEN f[k - 1] \o entries[k].values ELSE f[k - 1]
      /\ H!ValuesOf(entries, name) = f[z]
    BY <1>10 DEF Collects
<1>2. z \in Nat /\ \A k \in 1 .. z : entries[k].values \in Seq(V)
    BY EntriesAre
<1> DEFINE T == {k \in 0 .. z : \A v \in H!ToSet(f[k]) : Listed(v)}
<1> HIDE DEF Listed, z
<1>3. 0 \in T
    <2>1. H!ToSet(<<>>) = {}
        BY DEF H!ToSet
    <2> QED BY <1>1, <1>2, <2>1
<1>4. ASSUME NEW k \in 0 .. z - 1, k \in T PROVE k + 1 \in T
    <2>1. k + 1 \in 1 .. z /\ k + 1 \in 0 .. z /\ (k + 1) - 1 = k /\ k \in 0 .. z
        BY <1>2
    <2>2. f[k + 1] = IF entries[k + 1].name = name THEN f[k] \o entries[k + 1].values ELSE f[k]
        BY <1>1, <2>1
    <2>3. f[k] \in Seq(V) /\ entries[k + 1].values \in Seq(V)
        BY <1>1, <1>2, <2>1
    <2>4. ASSUME NEW v \in H!ToSet(f[k] \o entries[k + 1].values) PROVE v \in H!ToSet(f[k]) \/ v \in H!ToSet(entries[k + 1].values)
        <3> DEFINE s == f[k]
                   t == entries[k + 1].values
        <3>1. s \in Seq(V) /\ t \in Seq(V)
            BY <2>3
        <3> HIDE DEF s, t
        <3>2. PICK j \in DOMAIN (s \o t) : v = (s \o t)[j]
            BY DEF H!ToSet, s, t
        <3>3. j \in 1 .. Len(s) + Len(t) /\ Len(s) \in Nat /\ Len(t) \in Nat
            BY <3>1, ConcatProperties
        <3>4. (s \o t)[j] = IF j <= Len(s) THEN s[j] ELSE t[j - Len(s)]
            BY <3>1, <3>3, ConcatProperties
        <3>5. j <= Len(s) => j \in DOMAIN s
            BY <3>1, <3>3
        <3>6. ~(j <= Len(s)) => j - Len(s) \in DOMAIN t
            BY <3>1, <3>3
        <3>7. v \in H!ToSet(s) \/ v \in H!ToSet(t)
            BY <3>2, <3>4, <3>5, <3>6 DEF H!ToSet
        <3> QED BY <3>7 DEF s, t
    <2>5. \A v \in H!ToSet(entries[k + 1].values) : Listed(v)
        BY <2>1 DEF Listed
    <2>6. \A v \in H!ToSet(f[k]) : Listed(v)
        BY <1>4
    <2>7. \A v \in H!ToSet(f[k + 1]) : Listed(v)
        BY <2>2, <2>4, <2>5, <2>6
    <2> QED BY <2>1, <2>7
<1>5. \A k \in 0 .. z : k \in T
    <2> HIDE DEF T
    <2> QED BY <1>2, <1>3, <1>4, UpTo
<1>6. z \in 0 .. z
    BY <1>2
<1>7. f[z] \in Seq(V) /\ \A v \in H!ToSet(f[z]) : Listed(v)
    BY <1>1, <1>5, <1>6
<1> QED BY <1>1, <1>7 DEF Listed, z

\* The values of a name that is written once.
LEMMA ValuesOnce ==
    ASSUME NEW N, NEW V, NEW entries \in Entries(N, V), NEW i \in 1 .. Len(entries),
           \A j \in 1 .. Len(entries) : entries[j].name = entries[i].name => j = i
    PROVE  H!ValuesOf(entries, entries[i].name) = entries[i].values
<1> DEFINE z == Len(entries)
           name == entries[i].name
<1>10. PICK f : Collects(entries, name, V, f)
    BY ValuesAre
<1>1. /\ f \in [0 .. z -> Seq(V)] /\ f[0] = <<>>
      /\ \A k \in 1 .. z : f[k] = IF entries[k].name = name THEN f[k - 1] \o entries[k].values ELSE f[k - 1]
      /\ H!ValuesOf(entries, name) = f[z]
    BY <1>10 DEF Collects
<1>2. z \in Nat /\ \A k \in 1 .. z : entries[k].values \in Seq(V)
    BY EntriesAre
<1> DEFINE values == entries[i].values
           T == {k \in 0 .. z : f[k] = IF k < i THEN <<>> ELSE values}
<1>3. i \in 1 .. z /\ \A j \in 1 .. z : entries[j].name = name => j = i
    OBVIOUS
<1>4. <<>> \o values = values
    BY <1>2, <1>3
<1> HIDE DEF z, values
<1>5. 0 \in T
    BY <1>1, <1>2, <1>3
<1>6. ASSUME NEW k \in 0 .. z - 1, k \in T PROVE k + 1 \in T
    <2>1. k + 1 \in 1 .. z /\ k + 1 \in 0 .. z /\ (k + 1) - 1 = k /\ i \in Int /\ k \in Int
        BY <1>2, <1>3
    <2>2. f[k + 1] = IF entries[k + 1].name = name THEN f[k] \o entries[k + 1].values ELSE f[k]
        BY <1>1, <2>1
    <2>3. f[k] = IF k < i THEN <<>> ELSE values
        BY <1>6
    <2>4. CASE k + 1 = i
        <3>1. f[k + 1] = <<>> \o values
            <4>1. k < i
                BY <2>1, <2>4
            <4> QED BY <2>2, <2>3, <2>4, <4>1 DEF values
        <3>2. ~(k + 1 < i)
            BY <2>1, <2>4
        <3> QED BY <1>4, <2>1, <3>1, <3>2
    <2>5. CASE k + 1 # i
        <3>1. entries[k + 1].name # name
            BY <1>3, <2>1, <2>5
        <3>2. k < i <=> k + 1 < i
            BY <2>1, <2>5
        <3> HIDE DEF name
        <3> QED BY <2>1, <2>2, <2>3, <3>1, <3>2
    <2> QED BY <2>4, <2>5
<1>7. \A k \in 0 .. z : k \in T
    <2> HIDE DEF T
    <2> QED BY <1>2, <1>5, <1>6, UpTo
<1>8. z \in 0 .. z /\ ~(z < i)
    BY <1>2, <1>3
<1>9. f[z] = values
    BY <1>7, <1>8
<1> QED BY <1>1, <1>9 DEF values

\* What a file's headers are read as.
LEMMA ToHeadersIs ==
    ASSUME NEW N, NEW V, NEW entries \in Entries(N, V), NEW h \in H!ToHeaders(entries)
    PROVE  /\ h \in HeaderMaps(N, V) /\ DOMAIN h = NamesIn(entries)
           /\ \A n \in DOMAIN h : h[n] = H!ValuesOf(entries, n)
<1>1. h = [n \in NamesIn(entries) |-> H!ValuesOf(entries, n)]
    BY DEF H!ToHeaders, NamesIn
<1>2. DOMAIN h = NamesIn(entries) /\ (\A n \in DOMAIN h : h[n] = H!ValuesOf(entries, n)) /\ h = [n \in DOMAIN h |-> h[n]]
    BY <1>1
<1>3. Len(entries) \in Nat /\ DOMAIN entries = 1 .. Len(entries) /\ \A k \in 1 .. Len(entries) : entries[k].name \in N
    BY EntriesAre
<1>4. NamesIn(entries) \subseteq N
    BY <1>3 DEF NamesIn
<1>5. IsFiniteSet(NamesIn(entries))
    <2> DEFINE f == [k \in 1 .. Len(entries) |-> entries[k].name]
    <2>1. f \in Surjection(1 .. Len(entries), NamesIn(entries))
        BY <1>3 DEF Surjection, NamesIn
    <2>2. IsFiniteSet(1 .. Len(entries))
        BY <1>3, FS_Interval
    <2> HIDE DEF f
    <2> QED BY <2>1, <2>2, FS_Surjection
<1>6. \A n \in DOMAIN h : h[n] \in Seq(V)
    BY <1>2, ValuesFrom
<1>7. h \in HeaderMaps(N, V)
    BY <1>2, <1>4, <1>5, <1>6, HeaderMapOf
<1> QED BY <1>2, <1>7

\* A finite set in some order, each element once.
LEMMA Enumerated ==
    ASSUME NEW S, IsFiniteSet(S)
    PROVE  /\ Cardinality(S) \in Nat /\ H!SetToSeq(S) \in [1 .. Cardinality(S) -> S]
           /\ \A i, j \in 1 .. Cardinality(S) : H!SetToSeq(S)[i] = H!SetToSeq(S)[j] => i = j
           /\ \A s \in S : \E i \in 1 .. Cardinality(S) : H!SetToSeq(S)[i] = s
<1> DEFINE c == Cardinality(S)
           I == {f \in [1 .. c -> S] : H!IsInjective(f)}
           e == H!SetToSeq(S)
<1>1. c \in Nat /\ ExistsBijection(1 .. c, S)
    BY FS_CardinalityType
<1>2. I # {}
    <2>1. PICK f : f \in Bijection(1 .. c, S)
        BY <1>1 DEF ExistsBijection
    <2>2. f \in [1 .. c -> S] /\ \A a, b \in 1 .. c : f[a] = f[b] => a = b
        BY <2>1 DEF Bijection, Injection, IsInjective
    <2> HIDE DEF c
    <2>3. H!IsInjective(f)
        BY <2>2 DEF H!IsInjective
    <2> QED BY <2>2, <2>3
<1>3. e = CHOOSE f \in [1 .. c -> S] : H!IsInjective(f)
    <2>1. H!Cardinality(S) = c
        BY DEF H!Cardinality, Cardinality
    <2>2. e = CHOOSE f \in [1 .. H!Cardinality(S) -> S] : H!IsInjective(f)
        BY DEF H!SetToSeq
    <2> HIDE DEF e, c
    <2> QED BY <2>1, <2>2
<1>4. e \in [1 .. c -> S] /\ H!IsInjective(e)
    <2> HIDE DEF e, c
    <2> QED BY <1>2, <1>3
<1> HIDE DEF e
<1>5. \A i, j \in 1 .. c : e[i] = e[j] => i = j
    <2> HIDE DEF c
    <2> QED BY <1>4 DEF H!IsInjective
<1>6. e \in Surjection(1 .. c, S)
    <2>1. e \in Injection(1 .. c, S)
        <3> HIDE DEF c
        <3> QED BY <1>4, <1>5 DEF Injection, IsInjective
    <2>2. Cardinality(1 .. c) = c
        <3>1. c \in Int /\ 1 \in Int
            BY <1>1
        <3>2. Cardinality(1 .. c) = IF 1 > c THEN 0 ELSE c - 1 + 1
            <4> HIDE DEF c
            <4> QED BY <3>1, FS_Interval
        <3> HIDE DEF c
        <3> QED BY <1>1, <3>2
    <2> QED BY <2>1, <2>2, FS_Injection
<1>7. \A s \in S : \E i \in 1 .. c : e[i] = s
    <2> HIDE DEF c
    <2> QED BY <1>6 DEF Surjection
<1> QED BY <1>1, <1>4, <1>5, <1>7 DEF e

\* Headers that are written into a configuration are read back.
LEMMA WrittenBack ==
    ASSUME NEW N, NEW V, NEW x \in HeaderMaps(N, V)
    PROVE  /\ H!HeaderMapConfig(x) \in Entries(N, V) /\ NamesIn(H!HeaderMapConfig(x)) = DOMAIN x
           /\ \A n \in DOMAIN x : H!ValuesOf(H!HeaderMapConfig(x), n) = x[n]
<1> DEFINE c == Cardinality(DOMAIN x)
           names == H!SetToSeq(DOMAIN x)
           e == H!HeaderMapConfig(x)
<1>1. IsFiniteSet(DOMAIN x) /\ DOMAIN x \subseteq N /\ \A n \in DOMAIN x : x[n] \in Seq(V)
    BY HeaderMapIs
<1>2. /\ c \in Nat /\ names \in [1 .. c -> DOMAIN x]
      /\ \A i, j \in 1 .. c : names[i] = names[j] => i = j
      /\ \A n \in DOMAIN x : \E i \in 1 .. c : names[i] = n
    <2>1. IsFiniteSet(DOMAIN x)
        BY <1>1
    <2> QED BY <2>1, Enumerated, Zenon
<1>3. e = [i \in DOMAIN names |-> [name |-> names[i], values |-> x[names[i]]]]
    BY DEF H!HeaderMapConfig
<1> HIDE DEF names, c, e
<1>4. DOMAIN names = 1 .. c
    BY <1>2
<1>5. e = [i \in 1 .. c |-> [name |-> names[i], values |-> x[names[i]]]]
    BY <1>3, <1>4
<1>6. \A i \in 1 .. c : names[i] \in DOMAIN x /\ names[i] \in N /\ x[names[i]] \in Seq(V)
    BY <1>1, <1>2
<1>7. \A i \in 1 .. c : e[i].name = names[i] /\ e[i].values = x[names[i]]
    BY <1>5
<1>8. e \in Entries(N, V)
    <2> DEFINE E == [name : N, values : Seq(V)]
    <2>1. \A i \in 1 .. c : e[i] \in E
        BY <1>5, <1>6
    <2> HIDE DEF E
    <2>2. e \in [1 .. c -> E]
        BY <1>5, <2>1
    <2>3. e \in Seq(E)
        BY <1>2, <2>2, SeqDef
    <2> QED BY <2>3 DEF Entries, E
<1>9. Len(e) = c /\ DOMAIN e = 1 .. c
    BY <1>2, <1>5, <1>8, EntriesAre
<1>10. NamesIn(e) = DOMAIN x
    <2>1. NamesIn(e) = {e[i].name : i \in 1 .. c}
        BY <1>9 DEF NamesIn
    <2>2. ASSUME NEW n \in DOMAIN x PROVE \E i \in 1 .. c : e[i].name = n
        BY <1>2, <1>7
    <2>3. \A i \in 1 .. c : e[i].name \in DOMAIN x
        BY <1>6, <1>7
    <2> QED BY ONLY <2>1, <2>2, <2>3
<1>11. ASSUME NEW n \in DOMAIN x PROVE H!ValuesOf(e, n) = x[n]
    <2>1. PICK i \in 1 .. c : names[i] = n
        BY <1>2
    <2>2. i \in 1 .. Len(e) /\ e[i].name = n /\ e[i].values = x[n]
        BY <1>7, <1>9, <2>1
    <2>3. ASSUME NEW j \in 1 .. Len(e), e[j].name = e[i].name PROVE j = i
        <3>1. j \in 1 .. c /\ names[j] = names[i]
            BY <1>7, <1>9, <2>3
        <3> QED BY <1>2, <3>1
    <2>4. H!ValuesOf(e, e[i].name) = e[i].values
        BY <1>8, <2>2, <2>3, ValuesOnce
    <2> QED BY <2>2, <2>4
<1> QED BY <1>8, <1>10, <1>11 DEF e

\* The headers of a client: of several values the last one.
LEMMA DefaultsAre ==
    ASSUME NEW N, NEW V, NEW config, config.headers \in Entries(N, V), NEW d \in H!ClientDefaults(config)
    PROVE  \A n \in NamesIn(config.headers) : n \in DOMAIN d /\ d[n] = <<H!Last(H!ValuesOf(config.headers, n))>>
<1> DEFINE agent == IF config.agent = {} THEN <<>> ELSE [user_agent |-> [text |-> config.agent, sensitive |-> FALSE]]
           first == H!Extend([accept |-> [text |-> {"any"}, sensitive |-> FALSE]], agent)
           Set(h) == [n \in DOMAIN h |-> H!Last(h[n])]
<1>1. PICK h \in H!ToHeaders(config.headers) :
          d = [n \in DOMAIN H!Extend(first, Set(h)) |-> <<H!Extend(first, Set(h))[n]>>]
    BY DEF H!ClientDefaults
<1>2. DOMAIN h = NamesIn(config.headers) /\ \A n \in DOMAIN h : h[n] = H!ValuesOf(config.headers, n)
    BY ToHeadersIs
<1> HIDE DEF first
<1>3. ASSUME NEW n \in NamesIn(config.headers) PROVE n \in DOMAIN d /\ d[n] = <<H!Last(H!ValuesOf(config.headers, n))>>
    <2> DEFINE set == Set(h)
               all == H!Extend(first, set)
    <2>1. n \in DOMAIN set /\ set[n] = H!Last(H!ValuesOf(config.headers, n))
        BY <1>2
    <2> HIDE DEF set
    <2>2. n \in DOMAIN all /\ all[n] = set[n]
        BY <2>1, ExtendNew
    <2>3. d = [k \in DOMAIN all |-> <<all[k]>>]
        BY <1>1 DEF set
    <2> HIDE DEF all
    <2> QED BY <2>1, <2>2, <2>3
<1> QED BY <1>3

\* A request as it is built: with the headers of a call that are not reserved.
Kinds == {"none", "json", "form", "raw", "stream", "multipart", "native"}
IsCall(cfg) ==
    /\ {"url", "params", "headers", "auth", "body"} \subseteq DOMAIN cfg
    /\ cfg.body.kind \in Kinds /\ \A a, b \in cfg.auth : a = b

Added(x, headers, name, value) ==
    /\ DOMAIN x = DOMAIN headers \union {name} /\ x[name] = <<value>>
    /\ \A n \in DOMAIN headers : x[n] = headers[n]

\* A header that is new has the one value that is added.
LEMMA AddedValue ==
    ASSUME NEW headers, NEW name, name \notin DOMAIN headers, NEW value
    PROVE  Added(H!AddValue(headers, name, value), headers, name, value)
<1> DEFINE one == [n \in {name} |-> IF name \in DOMAIN headers THEN Append(headers[name], value) ELSE <<value>>]
           x == H!Extend(headers, one)
<1>1. H!AddValue(headers, name, value) = x
    BY DEF H!AddValue
<1>2. DOMAIN one = {name} /\ one[name] = <<value>>
    OBVIOUS
<1> HIDE DEF one
<1>3. DOMAIN x = DOMAIN headers \union {name} /\ x[name] = <<value>> /\ \A n \in DOMAIN headers : x[n] = headers[n]
    BY <1>2 DEF H!Extend
<1> QED BY <1>1, <1>3 DEF Added

\* A body has one type, or there is no body.
LEMMA OneType ==
    ASSUME NEW body, body.kind \in Kinds
    PROVE  IF body.kind = "none" THEN H!ContentType(body) = {} ELSE \E t : H!ContentType(body) = {t}
<1>1. CASE body.kind = "none"
    BY <1>1 DEF H!ContentType
<1>2. CASE body.kind = "json"
    BY <1>2 DEF H!ContentType
<1>3. CASE body.kind = "form"
    BY <1>3 DEF H!ContentType
<1>4. CASE body.kind \in {"raw", "stream"}
    BY <1>4 DEF H!ContentType
<1>5. CASE body.kind \in {"multipart", "native"}
    BY <1>5 DEF H!ContentType
<1> QED BY <1>1, <1>2, <1>3, <1>4, <1>5 DEF Kinds

\* What a request's headers are.
Requested(cfg, headers) ==
    /\ DOMAIN cfg.headers \subseteq DOMAIN headers /\ DOMAIN headers \subseteq DOMAIN cfg.headers \union {"content-type", "authorization"}
    /\ \A n \in DOMAIN cfg.headers : headers[n] = cfg.headers[n]
    /\ "content-type" \in DOMAIN headers <=> cfg.body.kind # "none"
    /\ \A t \in H!ContentType(cfg.body) : headers["content-type"] = <<[text |-> {t}, sensitive |-> FALSE]>>
    /\ "authorization" \in DOMAIN headers <=> cfg.auth # {}
    /\ \A a \in cfg.auth : \E v \in H!AuthValue(a) : headers["authorization"] = <<v>>

\* What into_request makes of a call whose headers are not reserved.
LEMMA RequestIs ==
    ASSUME NEW cfg, IsCall(cfg), DOMAIN cfg.headers \cap H!Reserved = {}, NEW r \in H!IntoRequest(cfg)
    PROVE  /\ DOMAIN r = {"url", "body", "headers"} /\ r.url = cfg.url \union cfg.params /\ r.body = H!Content(cfg.body)
           /\ Requested(cfg, r.headers)
<1> DEFINE v == CHOOSE v \in UNION {H!AuthValue(a) : a \in cfg.auth} : TRUE
           auth == IF cfg.auth = {} THEN cfg.headers ELSE H!AddValue(cfg.headers, "authorization", v)
           type == CHOOSE t \in H!ContentType(cfg.body) : TRUE
           value == [text |-> {type}, sensitive |-> FALSE]
           typed == cfg.body.kind = "none" \/ (cfg.body.kind \in {"json", "form"} /\ "content-type" \in DOMAIN auth)
           headers == IF typed THEN auth ELSE H!AddValue(auth, "content-type", value)
<1>1. /\ r = [url |-> cfg.url \union cfg.params, body |-> H!Content(cfg.body), headers |-> headers]
      /\ \A a \in cfg.auth : H!AuthValue(a) # {}
    BY DEF H!IntoRequest
<1>2. "content-type" \notin DOMAIN cfg.headers /\ "authorization" \notin DOMAIN cfg.headers
    BY DEF H!Reserved
<1>3. cfg.auth = {} => auth = cfg.headers
    OBVIOUS
<1>4. cfg.auth # {} => Added(auth, cfg.headers, "authorization", v)
    <2> HIDE DEF v
    <2> QED BY <1>2, AddedValue
<1>5. \A a \in cfg.auth : v \in H!AuthValue(a)
    <2>1. ASSUME NEW a \in cfg.auth PROVE v \in H!AuthValue(a)
        <3>1. UNION {H!AuthValue(b) : b \in cfg.auth} # {}
            BY <1>1, <2>1
        <3>2. v \in UNION {H!AuthValue(b) : b \in cfg.auth}
            BY <3>1
        <3> HIDE DEF v
        <3>3. PICK b \in cfg.auth : v \in H!AuthValue(b)
            BY <3>2
        <3> QED BY <2>1, <3>3 DEF IsCall
    <2> QED BY <2>1
<1> HIDE DEF v, auth
<1>6. "content-type" \notin DOMAIN auth
    BY <1>2, <1>3, <1>4 DEF Added
<1>7. typed <=> cfg.body.kind = "none"
    BY <1>6
<1>8. IF cfg.body.kind = "none" THEN H!ContentType(cfg.body) = {} ELSE H!ContentType(cfg.body) = {type}
    <2>1. cfg.body.kind \in Kinds
        BY DEF IsCall
    <2>2. IF cfg.body.kind = "none" THEN H!ContentType(cfg.body) = {} ELSE \E t : H!ContentType(cfg.body) = {t}
        BY <2>1, OneType
    <2> QED BY <2>2
<1> HIDE DEF type, typed
<1>9. cfg.body.kind = "none" => headers = auth
    BY <1>7
<1>10. cfg.body.kind # "none" => Added(headers, auth, "content-type", value)
    <2> HIDE DEF value
    <2> QED BY <1>6, <1>7, AddedValue
<1> HIDE DEF headers
<1>11. /\ DOMAIN cfg.headers \subseteq DOMAIN auth /\ DOMAIN auth \subseteq DOMAIN cfg.headers \union {"authorization"}
       /\ \A n \in DOMAIN cfg.headers : auth[n] = cfg.headers[n]
       /\ "authorization" \in DOMAIN auth <=> cfg.auth # {}
       /\ cfg.auth # {} => auth["authorization"] = <<v>>
    <2>1. CASE cfg.auth = {}
        BY <1>2, <1>3, <2>1
    <2>2. CASE cfg.auth # {}
        BY <1>4, <2>2 DEF Added
    <2> QED BY <2>1, <2>2
<1>12. /\ DOMAIN auth \subseteq DOMAIN headers /\ DOMAIN headers \subseteq DOMAIN auth \union {"content-type"}
       /\ \A n \in DOMAIN auth : headers[n] = auth[n]
       /\ "content-type" \in DOMAIN headers <=> cfg.body.kind # "none"
       /\ cfg.body.kind # "none" => headers["content-type"] = <<value>>
    <2> HIDE DEF value
    <2>1. CASE cfg.body.kind = "none"
        BY <1>6, <1>9, <2>1
    <2>2. CASE cfg.body.kind # "none"
        BY <1>10, <2>2 DEF Added
    <2> QED BY <2>1, <2>2
<1>13. \A t \in H!ContentType(cfg.body) : headers["content-type"] = <<[text |-> {t}, sensitive |-> FALSE]>>
    BY <1>8, <1>12
<1>14. "authorization" \in DOMAIN headers <=> cfg.auth # {}
    BY <1>11, <1>12
<1>15. \A a \in cfg.auth : \E x \in H!AuthValue(a) : headers["authorization"] = <<x>>
    BY <1>5, <1>11, <1>12
<1> HIDE DEF value
<1>16. Requested(cfg, headers)
    <2>1. DOMAIN cfg.headers \subseteq DOMAIN headers /\ DOMAIN headers \subseteq DOMAIN cfg.headers \union {"content-type", "authorization"}
        BY ONLY <1>11, <1>12
    <2>2. \A n \in DOMAIN cfg.headers : headers[n] = cfg.headers[n]
        BY ONLY <1>11, <1>12
    <2> QED BY <1>12, <1>13, <1>14, <1>15, <2>1, <2>2 DEF Requested
<1> QED BY <1>1, <1>16

\* What is sent.
LEMMA SentIs ==
    ASSUME NEW r, "headers" \in DOMAIN r, NEW d
    PROVE  H!Sent(r, d).headers = H!Extend(d, r.headers)
BY DEF H!Sent

\* The values of credentials are sensitive.
LEMMA AuthSensitive ==
    ASSUME NEW a, NEW v \in H!AuthValue(a)
    PROVE  v.sensitive = TRUE /\ v.text \subseteq a.text /\ v.text \cap Control = {}
<1>1. PICK t \in {x \in {IF a.scheme = "Basic" THEN a.text \ Control ELSE a.text} : ~H!Illegal(x)} : v = [text |-> t, sensitive |-> TRUE]
    BY DEF H!AuthValue
<1>2. t \subseteq a.text /\ t \cap Control = {}
    BY DEF H!Illegal
<1> QED BY <1>1, <1>2

\* Headers of any names and values, from any parts, files and clients.
THEOREM HeadersRightCorrect ==
    ASSUME NEW N, NEW V, NEW cfg, IsCall(cfg), NEW parts \in Seq(HeaderMaps(N, V)),
           NEW config, "headers" \in DOMAIN config, config.headers \in Entries(N, V)
    PROVE  H!HeadersRight(cfg, parts, config)
<1> SUFFICES ASSUME NEW h \in H!CheckedHeaders(parts), NEW d \in H!ClientDefaults(config), NEW r \in H!IntoRequest([cfg EXCEPT !.headers = h])
             PROVE  LET sent == H!Sent(r, d).headers IN
                    /\ cfg.body.kind # "none" => \A t \in H!ContentType(cfg.body) : sent["content-type"] = <<[text |-> {t}, sensitive |-> FALSE]>>
                    /\ \A a \in cfg.auth : sent["authorization"] \in {<<v>> : v \in H!AuthValue(a)} /\ sent["authorization"][1].sensitive
                    /\ \A i \in DOMAIN parts : \A n \in DOMAIN parts[i] :
                           (\A j \in i + 1 .. Len(parts) : n \notin DOMAIN parts[j]) =>
                               /\ sent[n] = parts[i][n]
                               /\ \A e \in H!DefaultHeaders(config.headers, parts) : \A c \in H!ClientDefaults([config EXCEPT !.headers = e]) :
                                      c[n] = <<H!Last(parts[i][n])>>
                    /\ \A i \in DOMAIN config.headers : LET n == config.headers[i].name IN
                           n \in DOMAIN sent /\ (sent[n] = d[n] \/ n \in DOMAIN h \union {"content-type", "authorization"})
    BY DEF H!HeadersRight
<1> DEFINE asked == [cfg EXCEPT !.headers = h]
           sent == H!Sent(r, d).headers
<1>1. h = H!IntoHeaders(parts) /\ DOMAIN h \cap H!Reserved = {}
    BY DEF H!CheckedHeaders
<1>2. asked.headers = h /\ asked.body = cfg.body /\ asked.auth = cfg.auth /\ DOMAIN asked = DOMAIN cfg
    BY DEF IsCall
<1>3. IsCall(asked)
    <2> HIDE DEF asked
    <2> QED BY <1>2 DEF IsCall
<1>4. r \in H!IntoRequest(asked)
    OBVIOUS
<1> HIDE DEF asked
<1>5. "headers" \in DOMAIN r /\ Requested(asked, r.headers)
    <2>1. DOMAIN asked.headers \cap H!Reserved = {}
        BY <1>1, <1>2
    <2> QED BY <1>3, <1>4, <2>1, RequestIs
<1>6. sent = H!Extend(d, r.headers)
    BY <1>5, SentIs
<1> HIDE DEF sent
<1>7. \A n \in DOMAIN r.headers : sent[n] = r.headers[n]
    BY <1>6, ExtendNew
<1>8. \A n \in DOMAIN d : n \in DOMAIN sent /\ (n \notin DOMAIN r.headers => sent[n] = d[n])
    BY <1>6, ExtendOld DEF H!Extend
<1>9. ASSUME cfg.body.kind # "none", NEW t \in H!ContentType(cfg.body)
      PROVE  sent["content-type"] = <<[text |-> {t}, sensitive |-> FALSE]>>
    <2>1. "content-type" \in DOMAIN r.headers
        BY <1>2, <1>5, <1>9 DEF Requested
    <2>2. r.headers["content-type"] = <<[text |-> {t}, sensitive |-> FALSE]>>
        BY <1>2, <1>5 DEF Requested
    <2> QED BY <1>7, <2>1, <2>2
<1>10. ASSUME NEW a \in cfg.auth
       PROVE  sent["authorization"] \in {<<v>> : v \in H!AuthValue(a)} /\ sent["authorization"][1].sensitive
    <2>1. "authorization" \in DOMAIN r.headers
        BY <1>2, <1>5 DEF Requested
    <2>2. PICK v \in H!AuthValue(a) : r.headers["authorization"] = <<v>>
        BY <1>2, <1>5 DEF Requested
    <2>3. v.sensitive = TRUE
        BY AuthSensitive
    <2>4. sent["authorization"] = <<v>>
        BY <1>7, <2>1, <2>2
    <2> QED BY <2>3, <2>4
<1>11. ASSUME NEW i \in DOMAIN parts, NEW n \in DOMAIN parts[i], \A j \in i + 1 .. Len(parts) : n \notin DOMAIN parts[j]
       PROVE  n \in DOMAIN h /\ h[n] = parts[i][n]
    BY <1>1, <1>11, MergedHeaders
<1>12. ASSUME NEW n \in DOMAIN h PROVE sent[n] = h[n]
    <2>1. n \in DOMAIN r.headers /\ r.headers[n] = h[n]
        BY <1>2, <1>5 DEF Requested
    <2> QED BY <1>7, <2>1
<1>13. ASSUME NEW i \in DOMAIN parts, NEW n \in DOMAIN parts[i], \A j \in i + 1 .. Len(parts) : n \notin DOMAIN parts[j],
              NEW e \in H!DefaultHeaders(config.headers, parts), NEW c \in H!ClientDefaults([config EXCEPT !.headers = e])
       PROVE  c[n] = <<H!Last(parts[i][n])>>
    <2> DEFINE other == [config EXCEPT !.headers = e]
    <2>1. PICK f \in H!ToHeaders(config.headers) : \E p \in H!CheckedHeaders(parts) : e = H!HeaderMapConfig(H!Extend(f, p))
        BY DEF H!DefaultHeaders
    <2>2. PICK p \in H!CheckedHeaders(parts) : e = H!HeaderMapConfig(H!Extend(f, p))
        BY <2>1
    <2>3. p = h
        BY <1>1 DEF H!CheckedHeaders
    <2>4. f \in HeaderMaps(N, V) /\ h \in HeaderMaps(N, V)
        BY <1>1, ToHeadersIs, MergedHeaders
    <2> DEFINE x == H!Extend(f, h)
    <2>5. x \in HeaderMaps(N, V) /\ e = H!HeaderMapConfig(x)
        BY <2>2, <2>3, <2>4, ExtendMaps
    <2>6. n \in DOMAIN x /\ x[n] = parts[i][n]
        BY <1>11, <1>13, ExtendNew
    <2> HIDE DEF x
    <2>7. e \in Entries(N, V) /\ n \in NamesIn(e) /\ H!ValuesOf(e, n) = parts[i][n]
        BY <2>5, <2>6, WrittenBack
    <2>8. other.headers = e
        OBVIOUS
    <2>9. c \in H!ClientDefaults(other)
        OBVIOUS
    <2> HIDE DEF other
    <2>10. other.headers \in Entries(N, V) /\ n \in NamesIn(other.headers)
        BY <2>7, <2>8
    <2>11. c[n] = <<H!Last(H!ValuesOf(other.headers, n))>>
        BY <2>9, <2>10, DefaultsAre
    <2> QED BY <2>7, <2>8, <2>11
<1>14. ASSUME NEW i \in DOMAIN config.headers
       PROVE  LET n == config.headers[i].name IN n \in DOMAIN sent /\ (sent[n] = d[n] \/ n \in DOMAIN h \union {"content-type", "authorization"})
    <2> DEFINE n == config.headers[i].name
    <2>1. n \in NamesIn(config.headers)
        BY DEF NamesIn
    <2> HIDE DEF n
    <2>2. n \in DOMAIN d
        BY <2>1, DefaultsAre
    <2>3. n \in DOMAIN r.headers => n \in DOMAIN h \union {"content-type", "authorization"}
        BY <1>2, <1>5 DEF Requested
    <2>4. n \in DOMAIN sent /\ (sent[n] = d[n] \/ n \in DOMAIN h \union {"content-type", "authorization"})
        BY <1>8, <2>2, <2>3
    <2> QED BY <2>4 DEF n
<1>15. \A i \in DOMAIN parts : \A n \in DOMAIN parts[i] :
           (\A j \in i + 1 .. Len(parts) : n \notin DOMAIN parts[j]) =>
               /\ sent[n] = parts[i][n]
               /\ \A e \in H!DefaultHeaders(config.headers, parts) : \A c \in H!ClientDefaults([config EXCEPT !.headers = e]) :
                      c[n] = <<H!Last(parts[i][n])>>
    BY <1>11, <1>12, <1>13
<1> QED BY <1>9, <1>10, <1>14, <1>15 DEF sent

\* What Debug shows of a client's configuration, and what it does not.
ConfigShown(config) == config.agent \union NamesIn(config.headers) \union UNION {p.except : p \in H!ToSet(config.proxies)}
TextsIn(values) == UNION {v.text : v \in H!ToSet(values)}
ProxyParts(config) == UNION {p.url \union p.auth : p \in H!ToSet(config.proxies)}
ConfigHidden(config) == (UNION {TextsIn(config.headers[i].values) : i \in DOMAIN config.headers}) \union ProxyParts(config)

\* Configurations of any headers and proxies, where nobody gives a header's value, a proxy's
\* address or its credentials as a name.
THEOREM ConfigHidesCorrect ==
    ASSUME NEW N, NEW V, NEW config, config.headers \in Entries(N, V), config.noProxy \in BOOLEAN, ConfigShown(config) \cap ConfigHidden(config) = {}
    PROVE  H!ConfigHides(config)
<1> DEFINE values == UNION {H!HeadersJson(h) : h \in H!ToHeaders(config.headers)}
           proxies == UNION {p.url \union p.auth : p \in H!ToSet(config.proxies)}
<1> SUFFICES /\ H!ConfigDebug(config) \cap (values \union proxies) = {}
             /\ \A b \in H!Builder(config) : b.proxies # config.proxies => config.noProxy /\ b.proxies = <<>>
    BY Zenon DEF H!ConfigHides
<1>1. H!ConfigDebug(config) = ConfigShown(config)
    BY DEF H!ConfigDebug, H!HeadersDebug, H!ProxyDebug, ConfigShown, NamesIn
<1>2. values \subseteq ConfigHidden(config)
    <2> SUFFICES ASSUME NEW h \in H!ToHeaders(config.headers), NEW x \in H!HeadersJson(h) PROVE x \in ConfigHidden(config)
        OBVIOUS
    <2>1. PICK n \in DOMAIN h : x \in UNION {v.text : v \in H!ToSet(h[n])}
        BY DEF H!HeadersJson
    <2>2. PICK v \in H!ToSet(h[n]) : x \in v.text
        BY <2>1
    <2>3. h[n] = H!ValuesOf(config.headers, n)
        BY ToHeadersIs
    <2>4. PICK i \in 1 .. Len(config.headers) : v \in H!ToSet(config.headers[i].values)
        BY <2>3, ValuesFrom
    <2>5. i \in DOMAIN config.headers
        BY EntriesAre
    <2>6. x \in TextsIn(config.headers[i].values)
        BY <2>2, <2>4 DEF TextsIn
    <2> QED BY <2>5, <2>6 DEF ConfigHidden
<1>3. proxies \subseteq ConfigHidden(config)
    <2>1. proxies = ProxyParts(config)
        BY DEF ProxyParts
    <2> HIDE DEF proxies
    <2> QED BY <2>1 DEF ConfigHidden
<1> HIDE DEF values, proxies
<1>4. H!ConfigDebug(config) \cap (values \union proxies) = {}
    BY <1>1, <1>2, <1>3
<1>5. ASSUME NEW b \in H!Builder(config), b.proxies # config.proxies PROVE config.noProxy /\ b.proxies = <<>>
    <2>1. b.proxies = IF config.noProxy THEN <<>> ELSE config.proxies
        BY DEF H!Builder
    <2> QED BY <1>5, <2>1
<1> QED BY <1>4, <1>5

\* What a call is made of: what anybody may read, and what nobody may.
NamesOf(body) == UNION {p.name \union p.file : p \in body.parts}
FilesOf(body) == UNION {p.content : p \in body.parts}
Credentials(cfg) == UNION {a.text \ Control : a \in cfg.auth}
OpenTexts(cfg, resp) == cfg.url \union NamesOf(cfg.body) \union {cfg.body.type} \union H!ContentType(cfg.body) \union resp.type
SecretTexts(cfg) == H!HeadersJson(cfg.headers) \union Credentials(cfg) \union FilesOf(cfg.body)
IsJson(body) == body.kind \in {"json", "form"}

\* Where a piece of text comes from can be told: from an address, a header, a body, a response.
TextsApart(cfg, resp) ==
    /\ SecretTexts(cfg) \cap (OpenTexts(cfg, resp) \union cfg.params \union cfg.body.content \union resp.body) = {}
    /\ cfg.params \cap (OpenTexts(cfg, resp) \union cfg.body.content \union resp.body) = {}
    /\ resp.body \cap OpenTexts(cfg, resp) = {}
    /\ Marked \cap cfg.body.content \cap (OpenTexts(cfg, resp) \union resp.body) = {}
    /\ \A a \in cfg.auth : ({a.scheme} \union a.user) \cap a.text = {}
\* Control characters are in raw bodies, the names and contents of parts, credentials and
\* responses only: an address and its parameters, JSON and forms are encoded, a header's value is
\* legal.
TextsLegal(cfg, resp) ==
    /\ Control \cap (cfg.url \union {cfg.body.type} \union H!ContentType(cfg.body) \union resp.type) = {}
    /\ Control \cap (cfg.params \union H!HeadersJson(cfg.headers)) = {}
    /\ IsJson(cfg.body) => Control \cap cfg.body.content = {}
IsAttempt(cfg, decoder, resp) ==
    /\ IsCall(cfg) /\ DOMAIN cfg.headers \cap H!Reserved = {} /\ cfg.logging \in BOOLEAN
    /\ decoder.kind \in {"bytes", "text", "unit", "stream", "json"}
    /\ resp.broken \in BOOLEAN /\ resp.success \in BOOLEAN /\ resp.json \in BOOLEAN
    /\ TextsApart(cfg, resp) /\ TextsLegal(cfg, resp)

\* What is read in the headers that are sent.
LEMMA HeadersFrom ==
    ASSUME NEW cfg, IsCall(cfg), DOMAIN cfg.headers \cap H!Reserved = {}, NEW r \in H!IntoRequest(cfg), NEW x \in H!HeadersJson(r.headers)
    PROVE  x \in H!HeadersJson(cfg.headers) \/ x \in Credentials(cfg) \/ x \in H!ContentType(cfg.body)
<1>1. PICK n \in DOMAIN r.headers : x \in UNION {v.text : v \in H!ToSet(r.headers[n])}
    BY DEF H!HeadersJson
<1>2. Requested(cfg, r.headers)
    BY RequestIs
<1>3. CASE n \in DOMAIN cfg.headers
    <2>1. r.headers[n] = cfg.headers[n]
        BY <1>2, <1>3 DEF Requested
    <2> QED BY <1>1, <1>3, <2>1 DEF H!HeadersJson
<1>4. PICK v \in H!ToSet(r.headers[n]) : x \in v.text
    BY <1>1
<1>5. CASE n = "content-type"
    <2>1. cfg.body.kind # "none" /\ cfg.body.kind \in Kinds
        BY <1>2, <1>5 DEF Requested, IsCall
    <2>2. PICK t : H!ContentType(cfg.body) = {t}
        BY <2>1, OneType
    <2>3. r.headers[n] = <<[text |-> {t}, sensitive |-> FALSE]>>
        BY <1>2, <1>5, <2>2 DEF Requested
    <2>4. v = [text |-> {t}, sensitive |-> FALSE]
        BY <1>4, <2>3 DEF H!ToSet
    <2> QED BY <1>4, <2>2, <2>4
<1>6. CASE n = "authorization"
    <2>1. PICK a \in cfg.auth : TRUE
        BY <1>2, <1>6 DEF Requested
    <2>2. PICK w \in H!AuthValue(a) : r.headers[n] = <<w>>
        BY <1>2, <1>6 DEF Requested
    <2>3. v = w
        BY <1>4, <2>2 DEF H!ToSet
    <2>4. w.text \subseteq a.text /\ w.text \cap Control = {}
        BY <2>2, AuthSensitive
    <2>5. x \in a.text \ Control
        BY <1>4, <2>3, <2>4
    <2> QED BY <2>5 DEF Credentials
<1> QED BY <1>2, <1>3, <1>5, <1>6 DEF Requested

\* What is read in a preview of a body.
LEMMA PreviewFrom ==
    ASSUME NEW body, body.kind \in Kinds, NEW x \in UNION H!Preview(body)
    PROVE  IF IsJson(body) THEN x \in body.content \ Marked
           ELSE x \in body.content \ Control \/ x = body.type \/ x \in NamesOf(body)
<1>1. PICK text \in H!Preview(body) : x \in text
    OBVIOUS
<1>2. CASE IsJson(body)
    <2>1. H!Preview(body) = {H!Redacted(body.content)}
        BY <1>2 DEF H!Preview, IsJson
    <2> QED BY <1>1, <1>2, <2>1 DEF H!Redacted
<1>3. x \in H!RawPreview(body) => x \in body.content \ Control \/ x = body.type
    BY DEF H!RawPreview, H!OneLine
<1>4. CASE body.kind = "raw"
    <2>1. H!Preview(body) = {H!RawPreview(body)}
        BY <1>4 DEF H!Preview
    <2> QED BY <1>1, <1>3, <1>4, <2>1 DEF IsJson
<1>5. CASE body.kind = "stream"
    <2>1. H!Preview(body) = {IF body.inMemory THEN H!RawPreview(body) ELSE {}}
        BY <1>5 DEF H!Preview
    <2> QED BY <1>1, <1>3, <1>5, <2>1 DEF IsJson
<1>6. CASE body.kind = "multipart"
    <2>1. H!Preview(body) = {NamesOf(body)}
        BY <1>6 DEF H!Preview, NamesOf
    <2> QED BY <1>1, <1>6, <2>1 DEF IsJson
<1>7. CASE body.kind = "native"
    <2>1. H!Preview(body) = {{}}
        BY <1>7 DEF H!Preview
    <2> QED BY <1>1, <2>1
<1>8. CASE body.kind = "none"
    <2>1. H!Preview(body) = {}
        BY <1>8 DEF H!Preview
    <2> QED BY <1>1, <2>1
<1> QED BY <1>2, <1>4, <1>5, <1>6, <1>7, <1>8 DEF Kinds, IsJson

\* What is read in the text of a response, and in what a decoder made of it.
LEMMA BodyTextFrom ==
    ASSUME NEW resp, NEW x \in H!BodyText(resp)
    PROVE  x \in resp.body \union resp.type
BY DEF H!BodyText

\* What is shown of a decoded response was in its body, and of JSON nothing that is marked.
LEMMA DecodedFrom ==
    ASSUME NEW decoder, decoder.kind \in {"bytes", "text", "unit", "stream", "json"}, NEW resp,
           NEW o \in H!FromBytes(decoder, resp), NEW x \in UNION H!DecodedPreview(decoder, o)
    PROVE  x \in resp.body /\ (decoder.kind = "json" => x \notin Marked)
<1>1. CASE decoder.kind = "text"
    <2>1. o = resp.body /\ H!DecodedPreview(decoder, o) = {o}
        BY <1>1 DEF H!FromBytes, H!DecodedPreview
    <2> QED BY <1>1, <2>1
<1>2. CASE decoder.kind = "json"
    <2>1. o \in {resp.body \cap decoder.fields : once \in {TRUE} \cap {resp.json}}
        BY <1>2 DEF H!FromBytes
    <2>2. H!DecodedPreview(decoder, o) = {H!Redacted(o)}
        BY <1>2 DEF H!DecodedPreview
    <2> QED BY <2>1, <2>2 DEF H!Redacted
<1>3. CASE decoder.kind \in {"bytes", "unit", "stream"}
    <2>1. H!DecodedPreview(decoder, o) = {}
        BY <1>3 DEF H!DecodedPreview
    <2> QED BY <2>1
<1> QED BY <1>1, <1>2, <1>3

\* What is read of a call in its records: nothing that is secret, nothing that is marked, and no
\* control character but those of the names of parts.
LEMMA CallShown ==
    ASSUME NEW cfg, NEW decoder, NEW resp, IsAttempt(cfg, decoder, resp), NEW x \in H!UrlShown(cfg) \union H!ReqPreview(cfg)
    PROVE  /\ x \notin SecretTexts(cfg) /\ (x \in Control => x \in NamesOf(cfg.body))
           /\ ~(x \in Marked /\ x \in cfg.params) /\ ~(x \in Marked /\ IsJson(cfg.body) /\ x \in cfg.body.content)
           /\ ~(x \in Marked /\ x \in resp.body)
<1>1. /\ TextsApart(cfg, resp) /\ TextsLegal(cfg, resp) /\ cfg.body.kind \in Kinds
    BY DEF IsAttempt, IsCall
<1>2. x \in cfg.url \/ x \in cfg.params \ Marked \/ x \in UNION H!Preview(cfg.body)
    BY DEF H!UrlShown, H!ReqPreview, H!Redacted
<1>3. CASE x \in cfg.url
    <2>1. x \in OpenTexts(cfg, resp)
        BY <1>3 DEF OpenTexts
    <2> QED BY <1>1, <1>3, <2>1 DEF TextsApart, TextsLegal
<1>4. CASE x \in cfg.params \ Marked
    BY <1>1, <1>4 DEF TextsApart, TextsLegal
<1>5. CASE x \in UNION H!Preview(cfg.body)
    <2>1. IF IsJson(cfg.body) THEN x \in cfg.body.content \ Marked
          ELSE x \in cfg.body.content \ Control \/ x = cfg.body.type \/ x \in NamesOf(cfg.body)
        BY <1>1, <1>5, PreviewFrom
    <2>2. CASE x = cfg.body.type \/ x \in NamesOf(cfg.body)
        <3>1. x \in OpenTexts(cfg, resp)
            BY <2>2 DEF OpenTexts
        <3> QED BY <1>1, <2>2, <3>1 DEF TextsApart, TextsLegal
    <2>3. CASE IsJson(cfg.body) /\ x \in cfg.body.content \ Marked
        BY <1>1, <2>3 DEF TextsApart, TextsLegal
    <2>4. CASE ~IsJson(cfg.body) /\ x \in cfg.body.content \ Control
        BY <1>1, <2>4 DEF TextsApart, TextsLegal
    <2> QED BY <2>1, <2>2, <2>3, <2>4
<1> QED BY <1>2, <1>3, <1>4, <1>5

\* What is read of a response that is shown on one line.
LEMMA ResponseShown ==
    ASSUME NEW cfg, NEW decoder, NEW resp, IsAttempt(cfg, decoder, resp), NEW x \in resp.body \union resp.type
    PROVE  /\ x \notin SecretTexts(cfg) /\ x \notin cfg.params
           /\ ~(x \in Marked /\ x \in cfg.body.content)
<1>1. TextsApart(cfg, resp)
    BY DEF IsAttempt
<1>2. CASE x \in resp.body
    BY <1>1, <1>2 DEF TextsApart
<1>3. CASE x \in resp.type
    <2>1. x \in OpenTexts(cfg, resp)
        BY <1>3 DEF OpenTexts
    <2> QED BY <1>1, <2>1 DEF TextsApart
<1> QED BY <1>2, <1>3

\* What a decoder that understood a response shows of it.
Understood(decoder, resp) == IF decoder.kind = "json" /\ H!Outcome(decoder, resp) = "success" THEN Marked \cap resp.body ELSE {}

EndsAs(o, resp) == o \in {"failed", "non-2xx", "decode failed", "success"} /\ (o = "failed" <=> resp.broken)

\* An attempt has one of four outcomes; it failed exactly if the connection broke.
LEMMA OutcomeIs ==
    ASSUME NEW decoder, NEW resp, resp.broken \in BOOLEAN, resp.success \in BOOLEAN
    PROVE  EndsAs(H!Outcome(decoder, resp), resp)
<1>1. CASE resp.broken
    BY <1>1 DEF H!Outcome, EndsAs
<1>2. CASE ~resp.broken /\ ~resp.success
    BY <1>2 DEF H!Outcome, EndsAs
<1>3. CASE ~resp.broken /\ resp.success
    BY <1>3 DEF H!Outcome, EndsAs
<1> QED BY <1>1, <1>2, <1>3

\* The records of an attempt: what is read in them.
LEMMA LineFrom ==
    ASSUME NEW cfg, NEW decoder, NEW resp, IsAttempt(cfg, decoder, resp), NEW line \in H!NormalLog(cfg, decoder, resp), NEW x \in line
    PROVE  \/ x \in H!UrlShown(cfg) \union H!ReqPreview(cfg)
           \/ x \in (resp.body \union resp.type) \ Control /\ x \notin Understood(decoder, resp)
<1> DEFINE both == H!UrlShown(cfg) \union H!ReqPreview(cfg)
           o == H!Outcome(decoder, resp)
           output == UNION UNION {H!DecodedPreview(decoder, b) : b \in H!FromBytes(decoder, resp)}
<1>1. /\ o \in {"failed", "non-2xx", "decode failed", "success"}
      /\ decoder.kind \in {"bytes", "text", "unit", "stream", "json"}
    <2>1. resp.broken \in BOOLEAN /\ resp.success \in BOOLEAN /\ decoder.kind \in {"bytes", "text", "unit", "stream", "json"}
        BY DEF IsAttempt
    <2>2. EndsAs(H!Outcome(decoder, resp), resp)
        BY <2>1, OutcomeIs
    <2>3. H!Outcome(decoder, resp) \in {"failed", "non-2xx", "decode failed", "success"}
        BY <2>2 DEF EndsAs
    <2> QED BY <2>1, <2>3
<1>2. \/ line = both
      \/ o \in {"non-2xx", "decode failed"} /\ line = both \union H!BodyPreview(resp)
      \/ o = "success" /\ line = both \union H!OneLine(output)
    <2>1. H!NormalLog(cfg, decoder, resp) = {both : once \in {TRUE} \cap {cfg.logging}} \union
              CASE o = "failed" -> {both}
                [] o \in {"non-2xx", "decode failed"} -> {both \union H!BodyPreview(resp)}
                [] o = "success" -> {both \union H!OneLine(output) : once \in {TRUE} \cap {cfg.logging}}
        BY DEF H!NormalLog
    <2> HIDE DEF both, o, output
    <2>2. CASE o = "failed"
        BY <2>1, <2>2
    <2>3. CASE o \in {"non-2xx", "decode failed"}
        BY <2>1, <2>3
    <2>4. CASE o = "success"
        BY <2>1, <2>4
    <2> QED BY <1>1, <2>2, <2>3, <2>4
<1>3. ASSUME o \in {"non-2xx", "decode failed"}, x \in H!BodyPreview(resp)
      PROVE  x \in (resp.body \union resp.type) \ Control /\ x \notin Understood(decoder, resp)
    <2>1. x \in H!BodyText(resp) /\ x \notin Control
        BY <1>3 DEF H!BodyPreview, H!OneLine
    <2>2. x \in resp.body \union resp.type
        BY <2>1, BodyTextFrom
    <2> QED BY <1>3, <2>1, <2>2 DEF Understood
<1>4. ASSUME o = "success", x \in H!OneLine(output)
      PROVE  x \in (resp.body \union resp.type) \ Control /\ x \notin Understood(decoder, resp)
    <2>1. x \in output /\ x \notin Control
        BY <1>4 DEF H!OneLine
    <2>2. PICK b \in H!FromBytes(decoder, resp) : x \in UNION H!DecodedPreview(decoder, b)
        BY <2>1
    <2>3. x \in resp.body /\ (decoder.kind = "json" => x \notin Marked)
        <3>1. decoder.kind \in {"bytes", "text", "unit", "stream", "json"}
            BY <1>1
        <3> QED BY ONLY <2>2, <3>1, DecodedFrom
    <2> QED BY <2>1, <2>3 DEF Understood
<1> QED BY <1>2, <1>3, <1>4

\* An attempt with any call, any decoder and any response.
THEOREM TextsRightCorrect ==
    ASSUME NEW cfg, NEW decoder, NEW resp, IsAttempt(cfg, decoder, resp)
    PROVE  H!TextsRight(cfg, decoder, resp)
<1> SUFFICES ASSUME NEW request \in H!IntoRequest(cfg)
             PROVE  LET content == IF cfg.body.kind \in {"json", "form"} THEN cfg.body.content ELSE {}
                        marked == Marked \cap (cfg.params \union content)
                        headers == H!HeadersJson(request.headers) \ UNION {H!ContentType(cfg.body), {cfg.body.type}}
                        files == UNION {p.content : p \in cfg.body.parts}
                        names == UNION {p.name \union p.file : p \in cfg.body.parts}
                        secrets == marked \union headers \union files
                        understood == IF decoder.kind = "json" /\ H!Outcome(decoder, resp) = "success" THEN Marked \cap resp.body ELSE {}
                    IN  /\ \A line \in H!NormalLog(cfg, decoder, resp) :
                               line \cap (secrets \union understood) = {} /\ line \cap Control \subseteq names
                        /\ H!Outcome(decoder, resp) # "success" => \E line \in H!NormalLog(cfg, decoder, resp) : H!OneLine(H!BodyText(resp)) \subseteq line \/ resp.broken
                        /\ \A e \in H!HttpError(cfg, decoder, resp) : e.all \cap secrets = {} /\ e.message \cap resp.body = {}
                        /\ \A r \in H!Response(cfg, decoder, resp) : r.url \cap secrets = {}
                        /\ \A a \in cfg.auth : H!AuthDebug(a) \cap a.text = {}
                        /\ cfg.params \union cfg.body.content \union files \subseteq request.url \union request.body
                        /\ \A line \in H!DebugLog(cfg, request, decoder, resp) :
                               cfg.params \union content \union H!HeadersJson(request.headers) \subseteq line /\ ~H!Illegal(line)
    BY Zenon DEF H!TextsRight
<1> DEFINE content == IF cfg.body.kind \in {"json", "form"} THEN cfg.body.content ELSE {}
           marked == Marked \cap (cfg.params \union content)
           headers == H!HeadersJson(request.headers) \ UNION {H!ContentType(cfg.body), {cfg.body.type}}
           files == UNION {p.content : p \in cfg.body.parts}
           names == UNION {p.name \union p.file : p \in cfg.body.parts}
           secrets == marked \union headers \union files
           understood == IF decoder.kind = "json" /\ H!Outcome(decoder, resp) = "success" THEN Marked \cap resp.body ELSE {}
           both == H!UrlShown(cfg) \union H!ReqPreview(cfg)
           o == H!Outcome(decoder, resp)
<1>1. /\ TextsApart(cfg, resp) /\ TextsLegal(cfg, resp) /\ IsCall(cfg) /\ DOMAIN cfg.headers \cap H!Reserved = {} /\ cfg.body.kind \in Kinds
    BY DEF IsAttempt, IsCall
<1>2. H!HeadersJson(request.headers) \subseteq H!HeadersJson(cfg.headers) \union Credentials(cfg) \union H!ContentType(cfg.body)
    BY <1>1, HeadersFrom
<1>3. /\ secrets \subseteq SecretTexts(cfg) \union (Marked \cap cfg.params) \union (IF IsJson(cfg.body) THEN Marked \cap cfg.body.content ELSE {})
      /\ understood = Understood(decoder, resp)
    <2>1. headers \subseteq SecretTexts(cfg) /\ files \subseteq SecretTexts(cfg)
        BY <1>2 DEF SecretTexts, FilesOf
    <2>2. marked \subseteq (Marked \cap cfg.params) \union (IF IsJson(cfg.body) THEN Marked \cap cfg.body.content ELSE {})
        BY DEF IsJson
    <2> HIDE DEF headers, files, marked
    <2> QED BY <2>1, <2>2 DEF Understood
<1>4. /\ o \in {"failed", "non-2xx", "decode failed", "success"} /\ (o = "failed" <=> resp.broken)
    <2>1. resp.broken \in BOOLEAN /\ resp.success \in BOOLEAN
        BY DEF IsAttempt
    <2>2. EndsAs(o, resp)
        BY <2>1, OutcomeIs
    <2> HIDE DEF o
    <2> QED BY <2>2 DEF EndsAs
<1>0. names = NamesOf(cfg.body)
    BY DEF NamesOf
<1> HIDE DEF names
<1>5. \A x \in both : x \notin secrets /\ (x \in Control => x \in names) /\ ~(x \in Marked /\ x \in resp.body)
    <2> SUFFICES ASSUME NEW x \in both PROVE x \notin secrets /\ (x \in Control => x \in names) /\ ~(x \in Marked /\ x \in resp.body)
        OBVIOUS
    <2> HIDE DEF secrets
    <2>1. /\ x \notin SecretTexts(cfg) /\ (x \in Control => x \in NamesOf(cfg.body))
          /\ ~(x \in Marked /\ x \in cfg.params) /\ ~(x \in Marked /\ IsJson(cfg.body) /\ x \in cfg.body.content)
          /\ ~(x \in Marked /\ x \in resp.body)
        BY CallShown
    <2> QED BY <1>0, <1>3, <2>1
<1>6. \A x \in resp.body \union resp.type : x \notin secrets
    <2> SUFFICES ASSUME NEW x \in resp.body \union resp.type PROVE x \notin secrets
        OBVIOUS
    <2> HIDE DEF secrets
    <2>1. x \notin SecretTexts(cfg) /\ x \notin cfg.params /\ ~(x \in Marked /\ x \in cfg.body.content)
        BY ResponseShown
    <2> QED BY <1>3, <2>1
<1> HIDE DEF secrets, understood, both
<1>7. ASSUME NEW line \in H!NormalLog(cfg, decoder, resp)
      PROVE  line \cap (secrets \union understood) = {} /\ line \cap Control \subseteq names
    <2>1. ASSUME NEW x \in line PROVE x \notin secrets /\ x \notin understood /\ (x \in Control => x \in names)
        <3>1. \/ x \in both
              \/ x \in (resp.body \union resp.type) \ Control /\ x \notin Understood(decoder, resp)
            BY <2>1, LineFrom DEF both
        <3>2. x \in understood => x \in Marked /\ x \in resp.body
            BY DEF understood
        <3> QED BY <1>3, <1>5, <1>6, <3>1, <3>2
    <2> QED BY <2>1
<1>8. o # "success" => \E line \in H!NormalLog(cfg, decoder, resp) : H!OneLine(H!BodyText(resp)) \subseteq line \/ resp.broken
    <2> DEFINE output == UNION UNION {H!DecodedPreview(decoder, b) : b \in H!FromBytes(decoder, resp)}
    <2>1. H!NormalLog(cfg, decoder, resp) = {both : once \in {TRUE} \cap {cfg.logging}} \union
              CASE o = "failed" -> {both}
                [] o \in {"non-2xx", "decode failed"} -> {both \union H!BodyPreview(resp)}
                [] o = "success" -> {both \union H!OneLine(output) : once \in {TRUE} \cap {cfg.logging}}
        BY DEF H!NormalLog, both
    <2> HIDE DEF o, output
    <2>2. CASE o = "failed"
        <3>1. both \in H!NormalLog(cfg, decoder, resp)
            BY <2>1, <2>2
        <3> QED BY <1>4, <2>2, <3>1
    <2>3. CASE o \in {"non-2xx", "decode failed"}
        <3>1. both \union H!BodyPreview(resp) \in H!NormalLog(cfg, decoder, resp)
            BY <2>1, <2>3
        <3>2. H!OneLine(H!BodyText(resp)) \subseteq both \union H!BodyPreview(resp)
            BY DEF H!BodyPreview
        <3> QED BY <3>1, <3>2
    <2> QED BY <1>4, <2>2, <2>3
<1>9. H!UrlShown(cfg) \subseteq both /\ H!UrlShown(cfg) \cap resp.body = {}
    <2>1. H!UrlShown(cfg) \subseteq OpenTexts(cfg, resp) \union cfg.params
        BY DEF H!UrlShown, H!Redacted, OpenTexts
    <2> QED BY <1>1, <2>1 DEF both, TextsApart
<1>10. ASSUME NEW e \in H!HttpError(cfg, decoder, resp) PROVE e.all \cap secrets = {} /\ e.message \cap resp.body = {}
    <2> DEFINE url == H!UrlShown(cfg)
               told == H!BodyText(resp)
    <2>1. \A x \in told : x \in resp.body \union resp.type
        BY BodyTextFrom
    <2>2. H!HttpError(cfg, decoder, resp) = CASE o \in {"non-2xx", "decode failed"} -> {[message |-> url, all |-> url \union told]}
                                              [] o = "failed" -> {[message |-> url, all |-> url]}
                                              [] o = "success" -> {}
        BY DEF H!HttpError
    <2> HIDE DEF url, told, o
    <2>3. e.message = url /\ e.all \subseteq url \union told
        <3>1. CASE o = "failed"
            BY <1>10, <2>2, <3>1
        <3>2. CASE o \in {"non-2xx", "decode failed"}
            <4>1. H!HttpError(cfg, decoder, resp) = {[message |-> url, all |-> url \union told]}
                BY <2>2, <3>2
            <4>2. e = [message |-> url, all |-> url \union told]
                BY <1>10, <4>1
            <4> QED BY ONLY <4>2
        <3>3. CASE o = "success"
            BY <1>10, <2>2, <3>3
        <3> QED BY <1>4, <3>1, <3>2, <3>3
    <2>4. url \subseteq both /\ url \cap resp.body = {}
        BY <1>9 DEF url
    <2> QED BY <1>5, <1>6, <2>1, <2>3, <2>4
<1>11. ASSUME NEW r \in H!Response(cfg, decoder, resp) PROVE r.url \cap secrets = {}
    <2>1. r.url = H!UrlShown(cfg)
        BY <1>11 DEF H!Response
    <2> QED BY <1>5, <1>9, <2>1
<1>12. ASSUME NEW a \in cfg.auth PROVE H!AuthDebug(a) \cap a.text = {}
    BY <1>1, <1>12 DEF TextsApart, H!AuthDebug
<1>13. cfg.params \union cfg.body.content \union files \subseteq request.url \union request.body
    <2>1. request.url = cfg.url \union cfg.params /\ request.body = H!Content(cfg.body)
        BY <1>1, RequestIs
    <2>2. cfg.body.content \union files \subseteq H!Content(cfg.body)
        BY DEF H!Content
    <2> HIDE DEF files
    <2> QED BY <2>1, <2>2
<1>14. ASSUME NEW line \in H!DebugLog(cfg, request, decoder, resp)
       PROVE  cfg.params \union content \union H!HeadersJson(request.headers) \subseteq line /\ ~H!Illegal(line)
    <2> DEFINE all == request.url \union H!HeadersJson(request.headers) \union cfg.params \union UNION H!DebugPreview(cfg.body)
               answer == H!HeadersJson(resp.headers) \union (IF decoder.kind = "stream" /\ o = "success" THEN {} ELSE H!BodyText(resp))
    <2>1. H!DebugLog(cfg, request, decoder, resp) = {H!OneLine(all), H!OneLine(IF resp.broken THEN all ELSE all \union answer)}
        BY DEF H!DebugLog
    <2>2. content \subseteq all
        <3>1. IsJson(cfg.body) => H!DebugPreview(cfg.body) = {cfg.body.content}
            BY DEF H!DebugPreview, IsJson
        <3> QED BY <3>1 DEF IsJson
    <2>3. Control \cap (cfg.params \union content \union H!HeadersJson(request.headers)) = {}
        <3>1. Control \cap cfg.params = {} /\ Control \cap content = {}
            BY <1>1 DEF TextsLegal, IsJson
        <3>2. Control \cap H!HeadersJson(cfg.headers) = {} /\ Control \cap H!ContentType(cfg.body) = {}
            BY <1>1 DEF TextsLegal
        <3>3. Control \cap Credentials(cfg) = {}
            BY DEF Credentials
        <3> HIDE DEF content
        <3> QED BY <1>2, <3>1, <3>2, <3>3
    <2>4. cfg.params \union H!HeadersJson(request.headers) \subseteq all
        OBVIOUS
    <2> HIDE DEF all, answer, content
    <2>5. line = H!OneLine(all) \/ line = H!OneLine(all \union answer)
        BY <1>14, <2>1
    <2> QED BY <2>2, <2>3, <2>4, <2>5 DEF H!OneLine, H!Illegal
<1> QED BY <1>7, <1>8, <1>10, <1>11, <1>12, <1>13, <1>14 DEF secrets, understood, names

----------------------------------------------------------------------------
(* The calls of redaction, messages, HTTP and servers.                      *)

\* The depth of previews tells whether a trace is nested.
LEMMA NestedWhen ==
    ASSUME NEW events \in Seq(Event), NEW d \in [0 .. Len(events) -> Nat], d[0] = 0,
           \A k \in 1 .. Len(events) : d[k] = R!Change(d[k - 1], events[k])
    PROVE  NestedEvents(events)
<1> DEFINE n == Len(events)
<1>1. n \in Nat /\ d \in [0 .. n -> Int]
    OBVIOUS
<1>2. ASSUME NEW k \in 0 .. n
      PROVE  Cardinality(Starts(events, 1, k)) >= Cardinality(Ends(events, 1, k))
    <2>1. 1 \in 1 .. n + 1 /\ k \in 1 - 1 .. n
        BY <1>1
    <2>2. /\ Cardinality(Starts(events, 1, k)) \in Nat /\ Cardinality(Ends(events, 1, k)) \in Nat
          /\ d[k] - d[1 - 1] = Cardinality(Starts(events, 1, k)) - Cardinality(Ends(events, 1, k))
        <3> HIDE DEF n
        <3>1. \A j \in 1 .. n : d[j] = R!Change(d[j - 1], events[j])
            BY DEF n
        <3> QED BY <1>1, <2>1, <3>1, DepthBetween
    <2>3. d[k] \in Nat
        OBVIOUS
    <2> HIDE DEF n
    <2> QED BY <2>2, <2>3
<1> QED BY <1>2 DEF NestedEvents

\* The traces of the calls are nested: no preview ends before it starts.
LEMMA SomeTracesAre == \A events \in Traces : NestedEvents(events)
<1> DEFINE S(t) == t \in Seq(Event)
<1>1. NestedEvents(<<>>)
    <2> DEFINE d == [k \in 0 .. 0 |-> 0]
    <2>1. <<>> \in Seq(Event) /\ Len(<<>>) = 0 /\ d \in [0 .. 0 -> Nat] /\ d[0] = 0
        OBVIOUS
    <2> HIDE DEF d
    <2> QED BY <2>1, NestedWhen
<1>2. NestedEvents(<<"enter">>)
    <2> DEFINE t == <<"enter">>
               d == [k \in 0 .. 1 |-> k]
    <2>1. t \in Seq(Event) /\ Len(t) = 1 /\ t[1] = "enter"
        BY DEF Event
    <2>2. d \in [0 .. 1 -> Nat] /\ d[0] = 0 /\ d[1] = 1
        OBVIOUS
    <2> HIDE DEF t, d
    <2>3. \A k \in 1 .. 1 : d[k] = R!Change(d[k - 1], t[k])
        BY <2>1, <2>2 DEF R!Change
    <2>4. NestedEvents(t)
        BY <2>1, <2>2, <2>3, NestedWhen
    <2> QED BY <2>4 DEF t
<1>3. ASSUME NEW e \in {"return", "panic"} PROVE NestedEvents(<<"enter", e>>)
    <2> DEFINE t == <<"enter", e>>
               d == [k \in 0 .. 2 |-> IF k = 1 THEN 1 ELSE 0]
    <2>1. t \in Seq(Event) /\ Len(t) = 2 /\ t[1] = "enter" /\ t[2] # "enter"
        BY DEF Event
    <2>2. d \in [0 .. 2 -> Nat] /\ d[0] = 0 /\ d[1] = 1 /\ d[2] = 0
        OBVIOUS
    <2> HIDE DEF t, d
    <2>3. \A k \in 1 .. 2 : d[k] = R!Change(d[k - 1], t[k])
        BY <2>1, <2>2 DEF R!Change
    <2>4. NestedEvents(t)
        BY <2>1, <2>2, <2>3, NestedWhen
    <2> QED BY <2>4 DEF t
<1>4. ASSUME NEW e \in {"return", "panic"} PROVE NestedEvents(<<"enter", "enter", e>>)
    <2> DEFINE t == <<"enter", "enter", e>>
               d == [k \in 0 .. 3 |-> IF k = 2 THEN 2 ELSE IF k = 0 THEN 0 ELSE 1]
    <2>1. t \in Seq(Event) /\ Len(t) = 3 /\ t[1] = "enter" /\ t[2] = "enter" /\ t[3] # "enter"
        BY DEF Event
    <2>2. d \in [0 .. 3 -> Nat] /\ d[0] = 0 /\ d[1] = 1 /\ d[2] = 2 /\ d[3] = 1
        OBVIOUS
    <2> HIDE DEF t, d
    <2>3. \A k \in 1 .. 3 : d[k] = R!Change(d[k - 1], t[k])
        BY <2>1, <2>2 DEF R!Change
    <2>4. NestedEvents(t)
        BY <2>1, <2>2, <2>3, NestedWhen
    <2> QED BY <2>4 DEF t
<1>5. NestedEvents(<<"enter", "enter", "panic", "return">>)
    <2> DEFINE t == <<"enter", "enter", "panic", "return">>
               d == [k \in 0 .. 4 |-> IF k = 2 THEN 2 ELSE IF k \in {1, 3} THEN 1 ELSE 0]
    <2>1. t \in Seq(Event) /\ Len(t) = 4 /\ t[1] = "enter" /\ t[2] = "enter" /\ t[3] # "enter" /\ t[4] # "enter"
        BY DEF Event
    <2>2. d \in [0 .. 4 -> Nat] /\ d[0] = 0 /\ d[1] = 1 /\ d[2] = 2 /\ d[3] = 1 /\ d[4] = 0
        OBVIOUS
    <2> HIDE DEF t, d
    <2>3. \A k \in 1 .. 4 : d[k] = R!Change(d[k - 1], t[k])
        BY <2>1, <2>2 DEF R!Change
    <2>4. NestedEvents(t)
        BY <2>1, <2>2, <2>3, NestedWhen
    <2> QED BY <2>4 DEF t
<1>6. NestedEvents(<<"enter", "return", "enter">>)
    <2> DEFINE t == <<"enter", "return", "enter">>
               d == [k \in 0 .. 3 |-> IF k \in {1, 3} THEN 1 ELSE 0]
    <2>1. t \in Seq(Event) /\ Len(t) = 3 /\ t[1] = "enter" /\ t[2] # "enter" /\ t[3] = "enter"
        BY DEF Event
    <2>2. d \in [0 .. 3 -> Nat] /\ d[0] = 0 /\ d[1] = 1 /\ d[2] = 0 /\ d[3] = 1
        OBVIOUS
    <2> HIDE DEF t, d
    <2>3. \A k \in 1 .. 3 : d[k] = R!Change(d[k - 1], t[k])
        BY <2>1, <2>2 DEF R!Change
    <2>4. NestedEvents(t)
        BY <2>1, <2>2, <2>3, NestedWhen
    <2> QED BY <2>4 DEF t
<1> QED BY <1>1, <1>2, <1>3, <1>4, <1>5, <1>6 DEF Traces

\* The fields of the calls compile but for their markers.
LEMMA SomeRedactedAre ==
    ASSUME RedactCalls
    PROVE  call.of = "redact" /\ R!OnlyLogsRedacted(call.path, call.events)
<1>1. PICK f \in SomeFields, e \in Traces : \E p \in {<<f>>} \union {<<o, f>> : o \in {x \in Outer : x.marks # <<"mask", "skip">>}} :
          call = [of |-> "redact", path |-> p, events |-> e]
    BY DEF RedactCalls
<1>2. PICK p \in {<<f>>} \union {<<o, f>> : o \in {x \in Outer : x.marks # <<"mask", "skip">>}} : call = [of |-> "redact", path |-> p, events |-> e]
    BY <1>1
<1>3. \A g \in SomeFields : IsField(g)
    <2> SUFFICES ASSUME NEW g \in SomeFields PROVE IsField(g)
        OBVIOUS
    <2>1. /\ g.derives \in BOOLEAN /\ g.into \in BOOLEAN /\ g.omits \in BOOLEAN /\ g.serde \in Serdes
          /\ g.marks \in {<<>>, <<"mask">>, <<"skip">>, <<"mask", "skip">>}
        BY DEF SomeFields
    <2>2. g.serde = [a \in DOMAIN g.serde |-> "user"]
        BY <2>1 DEF Serdes
    <2> QED BY <2>1, <2>2 DEF IsField
<1>4. p \in Seq(SomeFields)
    <2>1. \A o \in Outer : o \in SomeFields
        BY DEF Outer
    <2> HIDE DEF SomeFields, Outer
    <2>2. CASE p = <<f>>
        BY <2>2
    <2>3. ASSUME NEW o \in Outer, p = <<o, f>> PROVE p \in Seq(SomeFields)
        <3>1. o \in SomeFields
            BY <2>1
        <3> QED BY <2>3, <3>1
    <2> QED BY <2>2, <2>3
<1>5. R!OnlyLogsRedacted(p, e)
    BY <1>3, <1>4, SomeTracesAre, OnlyLogsRedactedCorrect
<1> QED BY <1>2, <1>5

\* The messages of the calls.
LEMMA SomeMessagesAre ==
    ASSUME CodeCalls, call.of = "message"
    PROVE  C!MessagesRight(call.vars, call.args, call.causes)
<1>1. PICK v \in SUBSET {"x", "y"}, a \in SomeArgs, n \in 0 .. 2 : call = [of |-> "message", vars |-> v, args |-> a, causes |-> n]
    BY DEF CodeCalls
<1>2. a.how \in {"bare", "value", "keys"} /\ a.literal \in BOOLEAN
    BY DEF SomeArgs
<1>3. C!MessagesRight(v, a, n)
    BY <1>2, MessagesRightCorrect
<1> QED BY <1>1, <1>3

\* The bodies and the credentials of the calls.
SomeBody(b) ==
    /\ b.kind \in Kinds /\ b.type \in Types /\ b.content \subseteq {"plain", "secret", "raw", "newline", "bytes"}
    /\ IsJson(b) => b.content \subseteq {"plain", "secret"}
    /\ NamesOf(b) \subseteq {"name", "return", "file"} /\ FilesOf(b) \subseteq {"bytes"} /\ (FilesOf(b) # {} => b.content = {})
    /\ H!ContentType(b) \subseteq Types

\* The bodies of the calls are made of these pieces.
LEMMA SomeBodiesAre == \A b \in Bodies : SomeBody(b)
<1> SUFFICES ASSUME NEW b \in Bodies PROVE SomeBody(b)
    OBVIOUS
<1>1. H!ContentType(b) \subseteq {"application/json", "application/x-www-form-urlencoded", "multipart/form-data", b.type}
    <2>1. b.kind \in Kinds
        BY DEF Bodies, Body, Kinds
    <2>2. CASE b.kind = "none"
        BY <2>2 DEF H!ContentType
    <2>3. CASE b.kind = "json"
        BY <2>3 DEF H!ContentType
    <2>4. CASE b.kind = "form"
        BY <2>4 DEF H!ContentType
    <2>5. CASE b.kind \in {"raw", "stream"}
        BY <2>5 DEF H!ContentType
    <2>6. CASE b.kind \in {"multipart", "native"}
        BY <2>6 DEF H!ContentType
    <2> QED BY <2>1, <2>2, <2>3, <2>4, <2>5, <2>6 DEF Kinds
<1> DEFINE B1 == {Body("none", "untyped", {}, TRUE, {})}
           B2 == {Body(k, "untyped", {"plain", "secret"}, TRUE, {}) : k \in {"json", "form"}}
           B3 == {Body(k, t, {"raw", "newline"}, m, {}) : k \in {"raw", "stream"}, t \in {"text/csv", "application/x-protobuf"}, m \in BOOLEAN}
           B4 == {Body("multipart", "untyped", {}, TRUE, {Part(l)}) : l \in BOOLEAN}
           B5 == {Body("native", "untyped", {"bytes"}, FALSE, {})}
<1>2. CASE b \in B1
    BY <1>1, <1>2 DEF Body, SomeBody, Kinds, Types, IsJson, NamesOf, FilesOf
<1>3. CASE b \in B2
    <2>1. PICK k \in {"json", "form"} : b = Body(k, "untyped", {"plain", "secret"}, TRUE, {})
        BY <1>3
    <2>2. b.kind = k /\ b.type = "untyped" /\ b.content = {"plain", "secret"} /\ b.parts = {}
        BY <2>1 DEF Body
    <2>3. NamesOf(b) = {} /\ FilesOf(b) = {}
        BY <2>2 DEF NamesOf, FilesOf
    <2> QED BY <1>1, <2>2, <2>3 DEF SomeBody, Kinds, Types
<1>4. CASE b \in B3
    <2>1. PICK k \in {"raw", "stream"}, t \in {"text/csv", "application/x-protobuf"}, m \in BOOLEAN : b = Body(k, t, {"raw", "newline"}, m, {})
        BY <1>4
    <2>2. b.kind = k /\ b.type = t /\ b.content = {"raw", "newline"} /\ b.parts = {}
        BY <2>1 DEF Body
    <2>3. NamesOf(b) = {} /\ FilesOf(b) = {}
        BY <2>2 DEF NamesOf, FilesOf
    <2> QED BY <1>1, <2>2, <2>3 DEF SomeBody, Kinds, Types, IsJson
<1>5. CASE b \in B4
    <2>1. PICK l \in BOOLEAN : b = Body("multipart", "untyped", {}, TRUE, {Part(l)})
        BY <1>5
    <2>2. b.kind = "multipart" /\ b.type = "untyped" /\ b.content = {} /\ b.parts = {Part(l)}
        BY <2>1 DEF Body
    <2>3. NamesOf(b) = {"name", "return", "file"} /\ FilesOf(b) = {"bytes"}
        BY <2>2 DEF NamesOf, FilesOf, Part
    <2> QED BY <1>1, <2>2, <2>3 DEF SomeBody, Kinds, Types
<1>6. CASE b \in B5
    BY <1>1, <1>6 DEF Body, SomeBody, Kinds, Types, IsJson, NamesOf, FilesOf
<1>7. Bodies = B1 \union B2 \union B3 \union B4 \union B5
    BY DEF Bodies
<1> HIDE DEF B1, B2, B3, B4, B5
<1> QED BY <1>2, <1>3, <1>4, <1>5, <1>6, <1>7

\* At most one authorization, with credentials that are no user's name.
LEMMA SomeAuthsAre ==
    ASSUME NEW auth \in Auths
    PROVE  /\ \A a, b \in auth : a = b
           /\ \A a \in auth : a.scheme \in {"Basic", "Bearer"} /\ a.user \subseteq {"user"} /\ a.text \subseteq {"token", "newline"}
BY DEF Auths, Opt

\* The attempts of the calls.
LEMMA SomeAttemptsAre ==
    ASSUME NEW b \in Bodies, NEW a \in Auths, NEW l \in BOOLEAN, NEW d \in Decoders, NEW r \in Responses
    PROVE  IsAttempt(Request(b, a, [session |-> <<Value("v1")>>], l), d, r)
<1> DEFINE own == [session |-> <<Value("v1")>>]
           cfg == Request(b, a, own, l)
<1>1. /\ cfg.url = {"query"} /\ cfg.params = {"param", "hidden"} /\ cfg.headers = own /\ cfg.auth = a /\ cfg.body = b /\ cfg.logging = l
      /\ {"url", "params", "headers", "auth", "body"} \subseteq DOMAIN cfg
    BY DEF Request
<1>2. DOMAIN own = {"session"} /\ H!HeadersJson(own) = {"v1"}
    BY DEF H!HeadersJson, H!ToSet, Value
<1> HIDE DEF own, cfg
<1>3. SomeBody(b)
    BY SomeBodiesAre
<1>4. /\ \A x, y \in a : x = y
      /\ \A x \in a : x.scheme \in {"Basic", "Bearer"} /\ x.user \subseteq {"user"} /\ x.text \subseteq {"token", "newline"}
    BY SomeAuthsAre
<1>5. IsCall(cfg) /\ DOMAIN cfg.headers \cap H!Reserved = {} /\ cfg.logging \in BOOLEAN
    BY <1>1, <1>2, <1>3, <1>4 DEF IsCall, SomeBody, H!Reserved
<1>6. /\ r.broken \in BOOLEAN /\ r.success \in BOOLEAN /\ r.json \in BOOLEAN /\ r.body = {"answer", "private", "newline"}
      /\ r.type \subseteq {"application/json", "image/png"}
    BY DEF Responses, Opt
<1>7. d.kind \in {"bytes", "text", "unit", "stream", "json"}
    BY DEF Decoders
<1>8. "newline" \in Control /\ {"newline", "return"} \cap Marked = {} /\ Control \cap Pieces = {}
    BY PiecesAssumption
<1>9. OpenTexts(cfg, r) \subseteq {"query", "name", "return", "file"} \union Types
    BY <1>1, <1>3, <1>6 DEF OpenTexts, SomeBody, Types
<1>10. Credentials(cfg) \subseteq {"token"}
    BY <1>1, <1>4, <1>8 DEF Credentials
<1>11. /\ SecretTexts(cfg) \subseteq {"v1", "token", "bytes"} /\ ("bytes" \in SecretTexts(cfg) => cfg.body.content = {})
    BY <1>1, <1>2, <1>3, <1>10 DEF SecretTexts, SomeBody
<1>12. cfg.body.content \subseteq {"plain", "secret", "raw", "newline", "bytes"} /\ (IsJson(cfg.body) => cfg.body.content \subseteq {"plain", "secret"})
    BY <1>1, <1>3 DEF SomeBody
<1>13. TextsApart(cfg, r)
    <2>1. SecretTexts(cfg) \cap (OpenTexts(cfg, r) \union cfg.params \union cfg.body.content \union r.body) = {}
        <3>1. SecretTexts(cfg) \cap OpenTexts(cfg, r) = {}
            BY <1>9, <1>11 DEF Types
        <3>2. SecretTexts(cfg) \cap cfg.params = {} /\ SecretTexts(cfg) \cap r.body = {}
            BY <1>1, <1>6, <1>11
        <3>3. SecretTexts(cfg) \cap cfg.body.content = {}
            BY <1>11, <1>12
        <3> QED BY <3>1, <3>2, <3>3
    <2>2. cfg.params \cap (OpenTexts(cfg, r) \union cfg.body.content \union r.body) = {}
        BY <1>1, <1>6, <1>9, <1>12 DEF Types
    <2>3. r.body \cap OpenTexts(cfg, r) = {}
        BY <1>6, <1>9 DEF Types
    <2>4. Marked \cap cfg.body.content \cap (OpenTexts(cfg, r) \union r.body) = {}
        BY <1>6, <1>8, <1>9, <1>12 DEF Types
    <2>5. \A x \in cfg.auth : ({x.scheme} \union x.user) \cap x.text = {}
        BY <1>1, <1>4
    <2> QED BY <2>1, <2>2, <2>3, <2>4, <2>5 DEF TextsApart
<1>14. TextsLegal(cfg, r)
    <2>1. /\ Control \cap (cfg.url \union {cfg.body.type} \union H!ContentType(cfg.body) \union r.type) = {}
          /\ Control \cap (cfg.params \union H!HeadersJson(cfg.headers)) = {}
        <3>1. {"query", "param", "hidden", "v1"} \subseteq Pieces /\ Types \subseteq Pieces
            BY DEF Pieces
        <3>2. cfg.body.type \in Types /\ H!ContentType(cfg.body) \subseteq Types
            BY <1>1, <1>3 DEF SomeBody
        <3>3. r.type \subseteq Types
            BY <1>6 DEF Types
        <3> HIDE DEF Types, Pieces
        <3> QED BY <1>1, <1>2, <1>8, <3>1, <3>2, <3>3
    <2>2. IsJson(cfg.body) => Control \cap cfg.body.content = {}
        BY <1>8, <1>12 DEF Pieces
    <2> QED BY <2>1, <2>2 DEF TextsLegal
<1>15. IsAttempt(cfg, d, r)
    BY <1>5, <1>6, <1>7, <1>13, <1>14 DEF IsAttempt
<1> QED BY <1>15 DEF cfg, own

\* The headers and the clients of the calls.
SomeNames == {"session", "host", "authorization"}
SomeTexts == {"v1", "v2", "v3", "v4", "v5", "v6", "v7", "newline"}
SomeValues == {Value(t) : t \in SomeTexts}

\* One header is a map of headers.
LEMMA OneHeader ==
    ASSUME NEW name \in SomeNames, NEW values \in Seq(SomeValues), NEW h, h = [n \in {name} |-> values]
    PROVE  h \in HeaderMaps(SomeNames, SomeValues)
<1>1. DOMAIN h = {name} /\ h[name] = values /\ h = [n \in DOMAIN h |-> h[n]]
    OBVIOUS
<1>2. IsFiniteSet(DOMAIN h)
    BY <1>1, FS_Singleton
<1>3. DOMAIN h \subseteq SomeNames /\ \A n \in DOMAIN h : h[n] \in Seq(SomeValues)
    BY <1>1
<1> HIDE DEF SomeValues
<1> QED BY <1>1, <1>2, <1>3, HeaderMapOf

\* Records of one field are functions.
LEMMA OneField ==
    ASSUME NEW v
    PROVE  /\ [session |-> v] = [n \in {"session"} |-> v] /\ [host |-> v] = [n \in {"host"} |-> v]
           /\ [authorization |-> v] = [n \in {"authorization"} |-> v]
OBVIOUS

\* One value and two, and their texts.
LEMMA ValuesIn ==
    ASSUME NEW t \in SomeTexts, NEW u \in SomeTexts
    PROVE  /\ <<Value(t)>> \in Seq(SomeValues) /\ <<Value(t), Value(u)>> \in Seq(SomeValues)
           /\ TextsIn(<<Value(t)>>) = {t} /\ TextsIn(<<Value(t), Value(u)>>) = {t, u}
<1> DEFINE x == Value(t)
           y == Value(u)
<1>1. x \in SomeValues /\ y \in SomeValues
    BY DEF SomeValues
<1>2. x.text = {t} /\ y.text = {u}
    BY DEF Value
<1> HIDE DEF x, y
<1>3. <<x>> \in Seq(SomeValues) /\ <<x, y>> \in Seq(SomeValues)
    BY <1>1
<1>4. H!ToSet(<<x>>) = {x} /\ H!ToSet(<<x, y>>) = {x, y}
    BY DEF H!ToSet
<1>5. TextsIn(<<x>>) = {t} /\ TextsIn(<<x, y>>) = {t, u}
    BY <1>2, <1>4 DEF TextsIn
<1> QED BY <1>3, <1>5 DEF x, y

\* The headers of the calls, by parts.
LEMMA SomePartsAre == \A parts \in HeaderParts : parts \in Seq(HeaderMaps(SomeNames, SomeValues))
<1> DEFINE M == HeaderMaps(SomeNames, SomeValues)
           two == [session |-> <<Value("v1"), Value("v2")>>]
           other == [session |-> <<Value("v3")>>]
           host == [host |-> <<Value("v1")>>]
           auth == [authorization |-> <<Value("v2")>>]
<1>1. <<Value("v1"), Value("v2")>> \in Seq(SomeValues) /\ <<Value("v3")>> \in Seq(SomeValues) /\ <<Value("v1")>> \in Seq(SomeValues) /\ <<Value("v2")>> \in Seq(SomeValues)
    <2>1. {"v1", "v2", "v3"} \subseteq SomeTexts
        BY DEF SomeTexts
    <2> QED BY <2>1, ValuesIn
<1>2. /\ two = [n \in {"session"} |-> <<Value("v1"), Value("v2")>>] /\ other = [n \in {"session"} |-> <<Value("v3")>>]
      /\ host = [n \in {"host"} |-> <<Value("v1")>>] /\ auth = [n \in {"authorization"} |-> <<Value("v2")>>]
    BY OneField
<1>3. "session" \in SomeNames /\ "host" \in SomeNames /\ "authorization" \in SomeNames
    BY DEF SomeNames
<1> HIDE DEF two, other, host, auth
<1>4. two \in M /\ other \in M /\ host \in M /\ auth \in M
    BY <1>1, <1>2, <1>3, OneHeader
<1> HIDE DEF M
<1>5. <<>> \in Seq(M) /\ <<two>> \in Seq(M) /\ <<two, other>> \in Seq(M) /\ <<host, auth>> \in Seq(M)
    BY <1>4
<1>6. HeaderParts = {<<>>, <<two>>, <<two, other>>, <<host, auth>>}
    BY DEF HeaderParts, two, other, host, auth
<1> QED BY <1>5, <1>6 DEF M

\* The headers of the files.
LEMMA SomeEntriesAre ==
    ASSUME NEW h \in FileHeaders
    PROVE  /\ h \in Entries(SomeNames, SomeValues)
           /\ \A i \in DOMAIN h : h[i].name \in {"session", "authorization"}
           /\ \A i \in DOMAIN h : TextsIn(h[i].values) \subseteq {"v4", "v5", "v6", "v7", "newline"}
<1> DEFINE E == [name : SomeNames, values : Seq(SomeValues)]
           S == {e \in E : e.name \in {"session", "authorization"} /\ TextsIn(e.values) \subseteq {"v4", "v5", "v6", "v7", "newline"}}
           Entry(name, values) == [name |-> name, values |-> values]
           a == Entry("session", <<Value("v4"), Value("v5")>>)
           b == Entry("session", <<Value("v4")>>)
           c == Entry("authorization", <<Value("v6")>>)
           d == Entry("session", <<Value("v7")>>)
           e == Entry("session", <<Value("newline")>>)
<1>1. ASSUME NEW name \in {"session", "authorization"}, NEW values \in Seq(SomeValues), TextsIn(values) \subseteq {"v4", "v5", "v6", "v7", "newline"}
      PROVE  Entry(name, values) \in S
    <2>1. Entry(name, values) \in E /\ Entry(name, values).name = name /\ Entry(name, values).values = values
        BY DEF SomeNames
    <2> HIDE DEF Entry, E
    <2> QED BY <1>1, <2>1
<1>2. h \in {<<>>, <<a>>, <<b, c, d>>, <<e>>}
    BY DEF FileHeaders
<1> HIDE DEF S, Entry
<1>3. a \in S
    <2>1. <<Value("v4"), Value("v5")>> \in Seq(SomeValues) /\ TextsIn(<<Value("v4"), Value("v5")>>) = {"v4", "v5"}
        <3>1. "v4" \in SomeTexts /\ "v5" \in SomeTexts
            BY DEF SomeTexts
        <3> QED BY <3>1, ValuesIn
    <2> QED BY <1>1, <2>1
<1>4. ASSUME NEW name \in {"session", "authorization"}, NEW t \in {"v4", "v6", "v7", "newline"} PROVE Entry(name, <<Value(t)>>) \in S
    <2>1. <<Value(t)>> \in Seq(SomeValues) /\ TextsIn(<<Value(t)>>) = {t}
        <3>1. t \in SomeTexts
            BY DEF SomeTexts
        <3> QED BY <3>1, ValuesIn
    <2> QED BY <1>1, <2>1
<1>5. b \in S /\ c \in S /\ d \in S /\ e \in S
    BY <1>4
<1> HIDE DEF a, b, c, d, e
<1>6. <<>> \in Seq(S) /\ <<a>> \in Seq(S) /\ <<b, c, d>> \in Seq(S) /\ <<e>> \in Seq(S)
    BY <1>3, <1>5
<1>7. h \in Seq(S)
    BY <1>2, <1>6
<1>8. \A i \in DOMAIN h : h[i] \in S
    BY <1>7
<1>9. S \subseteq E
    BY DEF S
<1> HIDE DEF E
<1>10. h \in Seq(E)
    BY <1>7, <1>9, WiderSeq
<1> QED BY <1>8, <1>10 DEF S, E, Entries

\* The clients of the calls: no name of a header is the value of one.
LEMMA SomeConfigsAre ==
    ASSUME NEW c \in Configs
    PROVE  /\ "headers" \in DOMAIN c /\ c.headers \in Entries(SomeNames, SomeValues) /\ c.noProxy \in BOOLEAN
           /\ ConfigShown(c) \cap ConfigHidden(c) = {}
<1>1. PICK h \in FileHeaders, n \in BOOLEAN, p \in SomeProxies :
          c = [agent |-> {"agent"}, headers |-> h, redirects |-> 10, compresses |-> TRUE, noProxy |-> n, proxies |-> p]
    BY DEF Configs
<1>2. "headers" \in DOMAIN c /\ c.headers = h /\ c.noProxy = n /\ c.proxies = p /\ c.agent = {"agent"}
    BY <1>1
<1>3. \A q \in H!ToSet(p) : q.url = {"proxy"} /\ q.auth = {"password"} /\ q.except = {"local"}
    BY DEF SomeProxies, H!ToSet
<1>4. /\ h \in Entries(SomeNames, SomeValues)
      /\ \A i \in DOMAIN h : h[i].name \in {"session", "authorization"}
      /\ \A i \in DOMAIN h : TextsIn(h[i].values) \subseteq {"v4", "v5", "v6", "v7", "newline"}
    BY SomeEntriesAre
<1>5. ConfigShown(c) \subseteq {"agent", "session", "authorization", "local"}
    BY <1>2, <1>3, <1>4 DEF ConfigShown, NamesIn
<1>6. ConfigHidden(c) \subseteq {"v4", "v5", "v6", "v7", "newline", "proxy", "password"}
    BY <1>2, <1>3, <1>4 DEF ConfigHidden, ProxyParts
<1> QED BY <1>2, <1>4, <1>5, <1>6

\* The calls of the HTTP client.
LEMMA SomeHttpAre ==
    ASSUME HttpCalls
    PROVE  /\ call.of = "headers" => H!HeadersRight(call.cfg, call.parts, call.config) /\ H!ConfigHides(call.config)
           /\ call.of = "texts" => H!TextsRight(call.cfg, call.decoder, call.resp)
           /\ call.of = "write" => H!WriteRight(call.chunks, call.room)
<1>1. \/ \E b \in Bodies, a \in Auths, h \in HeaderParts, c \in Configs :
             call = [of |-> "headers", cfg |-> Request(b, a, <<>>, TRUE), parts |-> h, config |-> c]
      \/ \E b \in Bodies, a \in Auths, l \in BOOLEAN, d \in Decoders, r \in Responses :
             call = [of |-> "texts", cfg |-> Request(b, a, [session |-> <<Value("v1")>>], l), decoder |-> d, resp |-> r]
      \/ \E n \in 0 .. 3 : \E chunks \in [1 .. n -> [bytes : 1 .. 2, broken : BOOLEAN]], room \in 0 .. 6 : call = [of |-> "write", chunks |-> chunks, room |-> room]
    BY Zenon DEF HttpCalls
<1>2. ASSUME NEW b \in Bodies, NEW a \in Auths, NEW h \in HeaderParts, NEW c \in Configs,
             call = [of |-> "headers", cfg |-> Request(b, a, <<>>, TRUE), parts |-> h, config |-> c]
      PROVE  call.of = "headers" /\ H!HeadersRight(call.cfg, call.parts, call.config) /\ H!ConfigHides(call.config)
    <2> DEFINE cfg == Request(b, a, <<>>, TRUE)
    <2>1. cfg.auth = a /\ cfg.body = b /\ {"url", "params", "headers", "auth", "body"} \subseteq DOMAIN cfg
        BY DEF Request
    <2> HIDE DEF cfg
    <2>2. b.kind \in Kinds /\ \A x, y \in a : x = y
        BY SomeBodiesAre, SomeAuthsAre DEF SomeBody
    <2>3. IsCall(cfg)
        BY <2>1, <2>2 DEF IsCall
    <2>4. /\ "headers" \in DOMAIN c /\ c.headers \in Entries(SomeNames, SomeValues) /\ c.noProxy \in BOOLEAN
          /\ ConfigShown(c) \cap ConfigHidden(c) = {}
        BY SomeConfigsAre
    <2>5. h \in Seq(HeaderMaps(SomeNames, SomeValues))
        BY SomePartsAre
    <2>6. H!HeadersRight(cfg, h, c)
        BY <2>3, <2>4, <2>5, HeadersRightCorrect
    <2>7. H!ConfigHides(c)
        BY <2>4, ConfigHidesCorrect
    <2>8. call = [of |-> "headers", cfg |-> cfg, parts |-> h, config |-> c]
        BY <1>2 DEF cfg
    <2> QED BY <2>6, <2>7, <2>8
<1>3. ASSUME NEW b \in Bodies, NEW a \in Auths, NEW l \in BOOLEAN, NEW d \in Decoders, NEW r \in Responses,
             call = [of |-> "texts", cfg |-> Request(b, a, [session |-> <<Value("v1")>>], l), decoder |-> d, resp |-> r]
      PROVE  call.of = "texts" /\ H!TextsRight(call.cfg, call.decoder, call.resp)
    <2> DEFINE cfg == Request(b, a, [session |-> <<Value("v1")>>], l)
    <2>1. IsAttempt(cfg, d, r)
        BY SomeAttemptsAre
    <2>2. call = [of |-> "texts", cfg |-> cfg, decoder |-> d, resp |-> r]
        BY <1>3
    <2> HIDE DEF cfg
    <2>3. H!TextsRight(cfg, d, r)
        BY <2>1, TextsRightCorrect
    <2> QED BY <2>2, <2>3
<1>4. ASSUME NEW n \in 0 .. 3, NEW chunks \in [1 .. n -> [bytes : 1 .. 2, broken : BOOLEAN]], NEW room \in 0 .. 6,
             call = [of |-> "write", chunks |-> chunks, room |-> room]
      PROVE  call.of = "write" /\ H!WriteRight(call.chunks, call.room)
    <2>1. chunks \in [1 .. n -> Chunk] /\ n \in Nat /\ room \in Nat
        BY DEF Chunk
    <2>2. chunks \in Seq(Chunk)
        BY <2>1, SeqDef
    <2>3. H!WriteRight(chunks, room)
        BY <2>1, <2>2, WriteRightCorrect
    <2> QED BY <1>4, <2>3
<1>5. CASE \E b \in Bodies, a \in Auths, h \in HeaderParts, c \in Configs :
               call = [of |-> "headers", cfg |-> Request(b, a, <<>>, TRUE), parts |-> h, config |-> c]
    <2>1. call.of = "headers" /\ H!HeadersRight(call.cfg, call.parts, call.config) /\ H!ConfigHides(call.config)
        BY <1>2, <1>5, Zenon
    <2>2. call.of # "texts" /\ call.of # "write"
        BY <2>1
    <2> QED BY <2>1, <2>2, Zenon
<1>6. CASE \E b \in Bodies, a \in Auths, l \in BOOLEAN, d \in Decoders, r \in Responses :
               call = [of |-> "texts", cfg |-> Request(b, a, [session |-> <<Value("v1")>>], l), decoder |-> d, resp |-> r]
    <2>1. call.of = "texts" /\ H!TextsRight(call.cfg, call.decoder, call.resp)
        BY <1>3, <1>6, Zenon
    <2>2. call.of # "headers" /\ call.of # "write"
        BY <2>1
    <2> QED BY <2>1, <2>2, Zenon
<1>7. CASE \E n \in 0 .. 3 : \E chunks \in [1 .. n -> [bytes : 1 .. 2, broken : BOOLEAN]], room \in 0 .. 6 : call = [of |-> "write", chunks |-> chunks, room |-> room]
    <2>1. call.of = "write" /\ H!WriteRight(call.chunks, call.room)
        BY <1>4, <1>7, Zenon
    <2>2. call.of # "headers" /\ call.of # "texts"
        BY <2>1
    <2> QED BY <2>1, <2>2, Zenon
<1> QED BY <1>1, <1>5, <1>6, <1>7, Zenon

\* The answers of the calls.
LEMMA SomeAnswersAre ==
    ASSUME ServiceCalls, call.of = "request"
    PROVE  X!AnswersHide(call.cfg, call.request)
<1>1. \/ \E a, b : call = [of |-> "redis", first |-> a, second |-> b]
      \/ \E a, b : call = [of |-> "servers", first |-> a, second |-> b]
      \/ \E cfg : call = [of |-> "s3", cfg |-> cfg]
      \/ \E kind, calls : call = [of |-> "server", kind |-> kind, calls |-> calls]
      \/ \E o \in Outcomes : \E cfg, size, secs, d, r :
             call = [of |-> "request", cfg |-> cfg, request |-> [size |-> size, secs |-> secs, declared |-> d, reads |-> r, outcome |-> o]]
    BY Zenon DEF ServiceCalls
<1>2. /\ ~\E a, b : call = [of |-> "redis", first |-> a, second |-> b]
      /\ ~\E a, b : call = [of |-> "servers", first |-> a, second |-> b]
      /\ ~\E cfg : call = [of |-> "s3", cfg |-> cfg]
      /\ ~\E kind, calls : call = [of |-> "server", kind |-> kind, calls |-> calls]
    OBVIOUS
<1>3. PICK o \in Outcomes : \E cfg, size, secs, d, r :
          call = [of |-> "request", cfg |-> cfg, request |-> [size |-> size, secs |-> secs, declared |-> d, reads |-> r, outcome |-> o]]
    BY <1>1, <1>2, Zenon
<1>4. PICK cfg, size, secs, d, r :
          call = [of |-> "request", cfg |-> cfg, request |-> [size |-> size, secs |-> secs, declared |-> d, reads |-> r, outcome |-> o]]
    BY <1>3, Zenon
<1> DEFINE request == [size |-> size, secs |-> secs, declared |-> d, reads |-> r, outcome |-> o]
           Own == [kind : {"hy"}, framework : BOOLEAN, code : {"00000001"}, message : {{"text"}}, causes : Opt({"private"})]
           Other == [kind : {"other"}, framework : {FALSE}, code : {""}, message : {{"secret"}}, causes : {{}}]
<1>5. o = [ok |-> TRUE, data |-> {"answer"}, error |-> {}] \/ \E e \in Own \union Other : o = [ok |-> FALSE, data |-> {}, error |-> e]
    BY Zenon DEF Outcomes
<1>6. \A e \in Own : IsFault(e)
    BY DEF IsFault, Opt
<1>7. \A e \in Other : IsFault(e)
    <2> SUFFICES ASSUME NEW e \in Other PROVE IsFault(e)
        OBVIOUS
    <2>1. "" # "00000000"
        BY Zenon
    <2> DEFINE none == ""
    <2>2. none # "00000000" /\ Other = [kind : {"other"}, framework : {FALSE}, code : {none}, message : {{"secret"}}, causes : {{}}]
        BY <2>1, Zenon
    <2> HIDE DEF none, Other
    <2>3. e.kind = "other" /\ e.framework = FALSE /\ e.code = none /\ e.message = {"secret"} /\ e.causes = {}
        BY <2>2
    <2> QED BY <2>2, <2>3 DEF IsFault
<1> HIDE DEF Own, Other
<1>8. o.ok \in BOOLEAN /\ (~o.ok => IsFault(o.error))
    <2>1. CASE o = [ok |-> TRUE, data |-> {"answer"}, error |-> {}]
        BY <2>1
    <2>2. ASSUME NEW e \in Own \union Other, o = [ok |-> FALSE, data |-> {}, error |-> e] PROVE o.ok = FALSE /\ IsFault(o.error)
        <3>1. o.ok = FALSE /\ o.error = e
            BY <2>2
        <3> QED BY <1>6, <1>7, <3>1
    <2> QED BY <1>5, <2>1, <2>2
<1>9. request.outcome = o
    OBVIOUS
<1> HIDE DEF request
<1>10. X!AnswersHide(cfg, request)
    BY <1>8, <1>9, AnswersHideCorrect
<1>11. call = [of |-> "request", cfg |-> cfg, request |-> request]
    BY <1>4, Zenon DEF request
<1> QED BY <1>10, <1>11

\* Logs and errors: whatever is called, nothing that is marked, no header, no credentials and no
\* file is read in them, and nothing is masked or lost that is sent, stored or returned.
THEOREM NothingLeaksCorrect == Spec => []NothingLeaks
<1>1. Init => NothingLeaks
    <2>1. CASE DateCalls \/ DbCalls \/ AppCalls \/ LogCalls \/ KeyCalls
        <3>1. call.of \notin {"redact", "message", "headers", "texts", "write", "request"}
            BY <2>1, WhatIsCalled
        <3> QED BY <3>1 DEF NothingLeaks
    <2>2. CASE CodeCalls
        <3>1. call.of \notin {"redact", "headers", "texts", "write", "request"}
            BY <2>2, WhatIsCalled
        <3>2. call.of = "message" => C!MessagesRight(call.vars, call.args, call.causes)
            BY <2>2, SomeMessagesAre
        <3> QED BY <3>1, <3>2, Zenon DEF NothingLeaks
    <2>3. CASE RedactCalls
        <3>1. call.of = "redact" /\ R!OnlyLogsRedacted(call.path, call.events)
            BY <2>3, SomeRedactedAre
        <3> QED BY <3>1 DEF NothingLeaks
    <2>4. CASE HttpCalls
        <3>1. call.of \notin {"redact", "message", "request"}
            BY <2>4, WhatIsCalled
        <3>2. /\ call.of = "headers" => H!HeadersRight(call.cfg, call.parts, call.config) /\ H!ConfigHides(call.config)
              /\ call.of = "texts" => H!TextsRight(call.cfg, call.decoder, call.resp)
              /\ call.of = "write" => H!WriteRight(call.chunks, call.room)
            BY <2>4, SomeHttpAre
        <3> QED BY <3>1, <3>2, Zenon DEF NothingLeaks
    <2>5. CASE ServiceCalls
        <3>1. call.of \notin {"redact", "message", "headers", "texts", "write"}
            BY <2>5, WhatIsCalled
        <3>2. call.of = "request" => X!AnswersHide(call.cfg, call.request)
            BY <2>5, SomeAnswersAre
        <3> QED BY <3>1, <3>2, Zenon DEF NothingLeaks
    <2> QED BY <2>1, <2>2, <2>3, <2>4, <2>5 DEF Init
<1>2. NothingLeaks /\ [Next]_vars => NothingLeaks'
    <2>1. [Next]_vars => UNCHANGED call
        BY DEF Next, Return, vars
    <2> QED BY <2>1 DEF NothingLeaks
<1> QED BY <1>1, <1>2, PTL DEF Spec
=============================================================================
