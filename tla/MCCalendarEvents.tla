-------------------------- MODULE MCCalendarEvents --------------------------
(* A calendar of five short years of two months and weeks of three days,   *)
(* days of four slots, a zone on each side of UTC with two summers, and    *)
(* rules of every frequency.                                               *)
EXTENDS CalendarEvents, TLC
CONSTANTS r1, r2

\* Months of three and two days; the last of the second year has three.
MCMonthOf ==
    [d \in 0 .. 25 |->
        <<0, 0, 0, 1, 1,  2, 2, 2, 3, 3, 3,  4, 4, 4, 5, 5,
          6, 6, 6, 7, 7,  8, 8, 8, 9, 9>>[d + 1]]

\* The summers of the second and the fourth year.
MCSummers == {[gap |-> 22, back |-> 38], [gap |-> 66, back |-> 82]}
MCZones == [utc  |-> [std |-> 0,  summers |-> {}],
            west |-> [std |-> -2, summers |-> MCSummers],
            east |-> [std |-> 1,  summers |-> MCSummers]]

Rule(freq, interval, weekStart, byDay, byMonthDay, byMonth) ==
    [freq |-> freq, interval |-> interval, weekStart |-> weekStart, byDay |-> byDay,
     byMonthDay |-> byMonthDay, byMonth |-> byMonth, count |-> Null, until |-> Null]
MCRules ==
    UNION {
        {Rule("DAILY", n, 0, by[1], {}, by[2]) :
            by \in {<<{}, {}>>, <<{0}, {}>>, <<{}, {2}>>}} \cup
        {Rule("WEEKLY", n, w, by, {}, {}) : w \in {0, 2}, by \in {{}, {1}, {0, 2}}} \cup
        {Rule("MONTHLY", n, 0, by[1], by[2], {}) :
            by \in {<<{}, {}>>, <<{}, {3}>>, <<{}, {1, 3}>>, <<{1}, {}>>}} \cup
        {Rule("YEARLY", n, 0, {}, by[1], by[2]) :
            by \in {<<{}, {}>>, <<{}, {2}>>, <<{1}, {}>>, <<{3}, {2}>>}}
    : n \in {1, 2}}
Bounded(rule) == {rule, [rule EXCEPT !.count = 3], [rule EXCEPT !.until = 42]}

EventRow(at, length, zone, allDay, rule, exdates) ==
    [at |-> at, length |-> length, zone |-> zone, allDay |-> allDay,
     rule |-> rule, exdates |-> exdates]

\* A short event at the time of day each zone skips and repeats, one a slot
\* later, and an all-day one of two days.
Timed(at, zone, rule) == EventRow(at, 2, zone, FALSE, rule, {})
AllDay(day, rule) == EventRow(day * SlotsPerDay, 2 * SlotsPerDay, "utc", TRUE, rule, {})
Shapes(rule) == {Timed(4, "utc", rule), Timed(6, "west", rule), Timed(6, "east", rule),
                 Timed(7, "east", rule), AllDay(2, rule)}

Daily == Rule("DAILY", 1, 0, {}, {}, {})
Weekly == Rule("WEEKLY", 1, 0, {0, 2}, {}, {})
MCPlans ==
    [event : UNION {Shapes(rule) : rule \in UNION {Bounded(r) : r \in MCRules}}, requests : {1}]
    \cup [event : Shapes(Null), requests : {2}]
    \cup [event : {AllDay(2, Daily)}, requests : {2}]
    \cup [event : {Timed(4, "utc", Weekly)}, requests : {3}]
MCNewRules == {Null, Weekly}
MCShifts == {Null, 1, 4}
MCNamed == {8, 12}
MCRanges == {[start |-> s, end |-> s + n] : s \in {0, 21, 37, 61}, n \in {1, 30}}
Symmetry == Permutations(EventRequests)
=============================================================================
