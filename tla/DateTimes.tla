----------------------------- MODULE DateTimes -----------------------------
(***************************************************************************)
(* hygiea-core, datetime: instants, the edges of their day, week, month    *)
(* and year in UTC and in the system's time zone, the formats, and the     *)
(* ranges that serde writes and reads.                                     *)
(*                                                                         *)
(* An instant is a number of ticks; the last tick of a day is Time::MAX.   *)
(* What may fail with DateError is a set: the value, or nothing.  A clock  *)
(* reading resolves to the set of instants at which the zone's clocks show *)
(* it (OffsetResult): none, one or two.                                    *)
(***************************************************************************)
EXTENDS Integers, Sequences, FiniteSets

CONSTANTS TicksPerSecond, TicksPerMinute, TicksPerHour, TicksPerDay

ASSUME TicksAssumption ==
    /\ {TicksPerSecond, TicksPerMinute, TicksPerHour, TicksPerDay} \subseteq Nat \ {0}
    /\ TicksPerMinute % TicksPerSecond = 0 /\ TicksPerHour % TicksPerMinute = 0 /\ TicksPerDay % TicksPerHour = 0

Units == {"day", "week", "month", "year"}

----------------------------------------------------------------------------
(* The calendar (the time crate): day 0 is Monday, 0001-01-01.              *)

MinYear == -9999
MaxYear == 9999
IsLeap(y) == y % 4 = 0 /\ (y % 100 # 0 \/ y % 400 = 0)
NewYear(y) == 365 * (y - 1) + (y - 1) \div 4 - (y - 1) \div 100 + (y - 1) \div 400
Before == <<0, 31, 59, 90, 120, 151, 181, 212, 243, 273, 304, 334, 365>>
FirstOf(y, m) == NewYear(y) + Before[m] + (IF m > 2 /\ IsLeap(y) THEN 1 ELSE 0)
Days == NewYear(MinYear) .. NewYear(MaxYear + 1) - 1
Year(d) == LET y == d \div 365 IN CHOOSE x \in y - 8 .. y + 9 : NewYear(x) <= d /\ d < NewYear(x + 1)
FirstOfMonth(d) == FirstOf(Year(d), CHOOSE m \in 1 .. 12 : FirstOf(Year(d), m) <= d /\ d < FirstOf(Year(d), m + 1))

DayOf(t) == t \div TicksPerDay
Midnight(d) == d * TicksPerDay
LastTick(d) == Midnight(d) + TicksPerDay - 1
Known(t) == DayOf(t) \in Days
Checked(t) == {x \in {t} : Known(x)}
Midnights(ds) == {Midnight(d) : d \in ds \cap Days}

----------------------------------------------------------------------------
(* The edges of the unit a UTC date is in.                                  *)

Edges(start, end, next) == [start |-> start, end |-> end, next |-> next]

DayEdges(d) == Edges({Midnight(d)}, {LastTick(d)}, Midnights({d + 1}))

WeekEdges(d) ==
    LET start == Midnights({d - (d % 7)}) IN
    Edges(start,
          UNION {Checked(t + 7 * TicksPerDay - 1) : t \in start},
          UNION {Checked(t + 7 * TicksPerDay) : t \in start})

\* A bug: 30 days from the first of a month are not always in the next month.
NextMonthIn30(d) == {FirstOfMonth(n) : n \in {FirstOfMonth(d) + 30} \cap Days}

\* The first of the month that is 31 days after the first of this one.
NextMonth(d) == {FirstOfMonth(n) : n \in {FirstOfMonth(d) + 31} \cap Days}

MonthEdges(d) == Edges({Midnight(FirstOfMonth(d))},
                       {t - 1 : t \in Midnights(NextMonth(d))},
                       Midnights(NextMonth(d)))

YearEdges(d) == LET next == Midnights({NewYear(Year(d) + 1)}) IN
                Edges({Midnight(NewYear(Year(d)))}, {t - 1 : t \in next}, next)

UtcEdges(unit, d) == CASE unit = "day" -> DayEdges(d)
                       [] unit = "week" -> WeekEdges(d)
                       [] unit = "month" -> MonthEdges(d)
                       [] unit = "year" -> YearEdges(d)

FromTimestamp(n, perUnit) == Checked(n * perUnit)
Shift(t, duration) == Checked(t + duration)

----------------------------------------------------------------------------
(* The system's zone: its clocks run ahead of UTC by one offset until they  *)
(* are changed, and by another one from then on.                            *)

Offset(zone, t) == IF t < zone.at THEN zone.before ELSE zone.after

\* to_local: the reading of the zone's clocks at an instant, if there is such a date.
ToLocal(zone, t) == Checked(t + Offset(zone, t))

\* resolve_local: the instants at which the zone's clocks show a reading.
Resolve(zone, clock) == {t \in {clock - zone.before, clock - zone.after} : t + Offset(zone, t) = clock}

LocalDay(d) == Edges({Midnight(d)}, {LastTick(d)}, Midnights({d + 1}))
LocalWeek(d) == Edges(Midnights({d - (d % 7)}),
                      {LastTick(n) : n \in {d + (6 - (d % 7))} \cap Days},
                      Midnights({d + (7 - (d % 7))}))
LocalMonth(d) == MonthEdges(d)
LocalYear(d) == YearEdges(d)

\* Each edge: a failure, or what the clock reading resolves to.
LocalEdges(zone, unit, t) ==
    LET On(d) == CASE unit = "day" -> LocalDay(d)
                   [] unit = "week" -> LocalWeek(d)
                   [] unit = "month" -> LocalMonth(d)
                   [] unit = "year" -> LocalYear(d)
    IN  [edge \in {"start", "end", "next"} |->
             UNION {{Resolve(zone, r) : r \in On(DayOf(clock))[edge]} : clock \in ToLocal(zone, t)}]

ShiftLocal(zone, t, duration) == UNION {ToLocal(zone, s) : s \in Checked(t + duration)}

----------------------------------------------------------------------------
(* Formats, and the ranges they are stored in.                              *)

\* What a format writes of a clock reading and its offset: `unit` is its last digit.
DateFormats == [YmdHMS |-> TicksPerSecond, YmdHMS3F |-> 1, YmdHMSnosep |-> TicksPerSecond]
TimeFormats == [HMS |-> TicksPerSecond, HMSnosep |-> TicksPerSecond, HM |-> TicksPerMinute,
                HMnosep |-> TicksPerMinute, H |-> TicksPerHour]

Floor(n, unit) == n - (n % unit)

\* An offset is written with hours and minutes.
WithOffset(unit, t, offset) == [clock |-> Floor(t + offset, unit), offset |-> Floor(offset, TicksPerMinute)]

WriteOffset(unit, t, offset) == WithOffset(unit, t, offset)
ParseOffset(text) == text.clock - text.offset

\* A clock reading that has no offset, in the system's zone.
ParseLocal(zone, text) == Resolve(zone, text.clock)

\* A pair read back is refused when it starts after it ends.
Ordered(start, end) == {r \in {<<start, end>>} : r[1] <= r[2]}

WriteUtc(unit, range) == [i \in 1 .. 2 |-> WriteOffset(unit, range[i], 0)]

\* Both ends go through to_local, which fails when the zone's clocks are beyond the calendar.
WriteLocal(zone, unit, range) ==
    {[i \in 1 .. 2 |-> WriteOffset(unit, range[i], Offset(zone, range[i]))] :
        clocks \in ToLocal(zone, range[1]) \X ToLocal(zone, range[2])}

\* Read as instants in UTC (to_utc panics when there is no such date), or in the zone.
ReadRange(text) == {r \in Ordered(ParseOffset(text[1]), ParseOffset(text[2])) : Known(r[1]) /\ Known(r[2])}
ReadLocal(zone, text) ==
    {r \in Ordered(ParseOffset(text[1]), ParseOffset(text[2])) : ToLocal(zone, r[1]) # {} /\ ToLocal(zone, r[2]) # {}}

WriteTimes(unit, range) == [i \in 1 .. 2 |-> Floor(range[i], unit)]
ReadTimes(text) == Ordered(text[1], text[2])

----------------------------------------------------------------------------
(* What they promise.                                                       *)

StartsUnit(unit, d) == CASE unit = "day" -> TRUE
                         [] unit = "week" -> d % 7 = 0
                         [] unit = "month" -> d = FirstOfMonth(d)
                         [] unit = "year" -> d = NewYear(Year(d))
Longest(unit) == CASE unit = "day" -> 1 [] unit = "week" -> 7 [] unit = "month" -> 31 [] unit = "year" -> 366

\* UTC edges: the unit starts at the last first day there is up to the date, the next one at
\* the first one after it, and it ends on the tick before; an edge is refused only when the
\* unit, up to the start of the next, does not fit between the years -9999 and 9999.
EdgesRight(unit, d) ==
    LET first == {n \in d - Longest(unit) + 1 .. d : StartsUnit(unit, n) /\ \A k \in n + 1 .. d : ~StartsUnit(unit, k)}
        next == {n \in d + 1 .. d + Longest(unit) : StartsUnit(unit, n) /\ \A k \in d + 1 .. n - 1 : ~StartsUnit(unit, k)}
        e == UtcEdges(unit, d)
    IN  /\ e.start = Midnights(first)
        /\ e.next \subseteq Midnights(next) /\ e.end \subseteq {Midnight(n) - 1 : n \in next}
        /\ first \union next \subseteq Days => e.next # {} /\ e.end # {}

\* Local edges: when the zone's clocks leave no doubt, the unit's start is not after the
\* instant, the next start is after it and the end is between the two.
LocalRight(zone, unit, t) ==
    LET e == LocalEdges(zone, unit, t)
        Sure(edge) == {x : x \in UNION {r \in e[edge] : Cardinality(r) = 1}}
    IN  /\ \A s \in Sure("start") : s <= t
        /\ \A n \in Sure("next") : t < n /\ \A m \in Sure("end") : m < n
        /\ \A m \in Sure("end") : t <= m

\* What is written can be read back, over a change of the clocks too, and has lost only what is
\* below the format's last digit: ranges in order (others are refused), readings without an
\* offset, timestamps; and a duration added can be taken off again.  Writing by the zone's clocks
\* is refused only for an instant that is nearer to an end of the calendar than their offset.
RangesRight(zone, range) ==
    LET Time(i) == range[i] % TicksPerDay IN
    /\ \A f \in DOMAIN DateFormats :
           LET kept == [i \in 1 .. 2 |-> Floor(range[i], DateFormats[f])]
               text == WriteLocal(zone, DateFormats[f], range)
           IN
           /\ ReadRange(WriteUtc(DateFormats[f], range)) = {kept}
           /\ \A x \in text : ReadRange(x) = {kept} /\ ReadLocal(zone, x) = {kept}
           /\ text = {} => \E i \in 1 .. 2, offset \in {zone.before, zone.after} : ~Known(range[i] + offset)
           /\ kept[1] < kept[2] =>
                 \A x \in WriteLocal(zone, DateFormats[f], <<range[2], range[1]>>) : ReadRange(x) = {} /\ ReadLocal(zone, x) = {}
           /\ \A clock \in ToLocal(zone, range[1]) :
                 kept[1] \in ParseLocal(zone, WriteOffset(DateFormats[f], range[1], Offset(zone, range[1])))
           /\ FromTimestamp(range[1] \div DateFormats[f], DateFormats[f]) = {kept[1]}
    /\ \A f \in DOMAIN TimeFormats : Time(1) <= Time(2) =>
           ReadTimes(WriteTimes(TimeFormats[f], <<Time(1), Time(2)>>)) = {<<Floor(Time(1), TimeFormats[f]), Floor(Time(2), TimeFormats[f])>>}
    /\ UNION {Shift(t, range[1] - range[2]) : t \in Shift(range[1], range[2] - range[1])} = {range[1]}
    /\ \A c \in ShiftLocal(zone, range[1], range[2] - range[1]) : range[2] \in Resolve(zone, c)
=============================================================================
