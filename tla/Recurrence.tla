----------------------------- MODULE Recurrence -----------------------------
(***************************************************************************)
(* Which occurrences of a stored calendar event a range query shows.       *)
(*                                                                         *)
(* Time is counted in slots of UTC from the first slot of day 0.  The      *)
(* calendar of JavaScript's Date and the zones of Intl.DateTimeFormat are  *)
(* constants: the lengths of day and week, the month every day lies in,    *)
(* and for every zone its standard offset and its summers, the instants at *)
(* which its clocks go one slot forward and back again.  A wall-clock      *)
(* reading is the number of slots a clock in that zone shows, as           *)
(* wallClockToUtcNaive counts them.                                        *)
(*                                                                         *)
(* An all-day event is an event at the first slot of its day in UTC, of    *)
(* whole days, and a date stands for that slot (buildOccurrence).          *)
(***************************************************************************)
EXTENDS Integers, FiniteSets, FiniteSetsExt

CONSTANTS
    SlotsPerDay,     \* DAY_MS
    DaysPerWeek,     \* 7
    MonthsPerYear,   \* 12
    MonthOf,         \* for every day the number of its month since day 0
    Zones,           \* for every zone [std, summers], its summers a set of [gap, back]
    MaxOccurrences,  \* MAX_OCCURRENCES_PER_EVENT
    Null             \* an absent field

ASSUME RecurrenceAssumption ==
    /\ {SlotsPerDay, DaysPerWeek, MonthsPerYear, MaxOccurrences} \subseteq Nat \ {0}
    /\ SlotsPerDay > 1
    /\ Null \notin Int

Days == DOMAIN MonthOf

\* Days from 0 on, months one after the other.
ASSUME CalendarAssumption ==
    /\ Days \subseteq Nat /\ \E last \in Days : Days = 0 .. last
    /\ \A d \in Days : MonthOf[d] \in Nat
    /\ \A d, e \in Days : d <= e => MonthOf[d] <= MonthOf[e]
    /\ \A m \in 0 .. MonthOf[Max(Days)] : \E d \in Days : MonthOf[d] = m

\* Clocks are at most a day off UTC, and do not change twice within a day.
ASSUME ZonesAssumption ==
    \A z \in DOMAIN Zones :
        /\ Zones[z].std \in Int
        /\ -SlotsPerDay <= Zones[z].std /\ Zones[z].std < SlotsPerDay
        /\ Zones[z].summers \subseteq [gap : Int, back : Int]
        /\ \A s \in Zones[z].summers : s.gap + SlotsPerDay <= s.back
        /\ \A s, w \in Zones[z].summers :
               \/ s = w
               \/ s.back + SlotsPerDay <= w.gap
               \/ w.back + SlotsPerDay <= s.gap

---------------------------------------------------------------------------
(* The calendar and the clocks. *)

FirstOfMonth == [m \in {MonthOf[d] : d \in Days} |-> Min({d \in Days : MonthOf[d] = m})]
DayOfMonth == [d \in Days |-> d - FirstOfMonth[MonthOf[d]] + 1]
MonthOfYear(d) == (MonthOf[d] % MonthsPerYear) + 1
Year(d) == MonthOf[d] \div MonthsPerYear
Weekday(d) == d % DaysPerWeek
LongestMonth == Max({DayOfMonth[d] : d \in Days})
LongestYear == Max({d - FirstOfMonth[Year(d) * MonthsPerYear] + 1 : d \in Days})

InSummer(t, z) == \E s \in Zones[z].summers : s.gap <= t /\ t < s.back
Offset(t, z) == Zones[z].std + (IF InSummer(t, z) THEN 1 ELSE 0)

\* What a clock in the zone shows at an instant.
Reading(t, z) == t + Offset(t, z)

\* The instant at which a clock in the zone shows the reading: the candidate
\* unless the other guess reads the same, or neither does.
Revised(naive, z, earlier, candidate) ==
    IF Reading(candidate, z) # naive THEN candidate + (naive - Reading(candidate, z))
    ELSE IF earlier < candidate /\ Reading(earlier, z) = naive THEN earlier
    ELSE candidate
Corrected(naive, z, guess) == Revised(naive, z, guess, naive - Offset(guess, z))
WallClockToUtc(naive, z) == Corrected(naive, z, naive - Offset(naive, z))

---------------------------------------------------------------------------
(* The rows: rules, series (or single events), and the overrides.          *)

Rules ==
    [freq : {"DAILY", "WEEKLY", "MONTHLY", "YEARLY"}, interval : Nat \ {0},
     weekStart : Int, byDay : SUBSET Int, byMonthDay : SUBSET Int, byMonth : SUBSET Int,
     count : Nat \cup {Null}, until : Int \cup {Null}]

EventRows ==
    [at : Int, length : Nat, zone : DOMAIN Zones, allDay : BOOLEAN,
     rule : Rules \cup {Null}, exdates : SUBSET Int]

OverrideRows ==
    [id : Nat, of : Int, at : Int, length : Nat, zone : DOMAIN Zones,
     rule : {Null}, exdates : {{}}]

---------------------------------------------------------------------------
(* Events.  A row's day and time of day are those its zone shows at its    *)
(* start; an occurrence lasts as long as the row.                          *)

SeedDay(e) == Reading(e.at, e.zone) \div SlotsPerDay
WallTime(e) == Reading(e.at, e.zone) % SlotsPerDay

\* buildOccurrence: the occurrence on a day.
StartOn(e, d) == WallClockToUtc(d * SlotsPerDay + WallTime(e), e.zone)

\* The first day of a day's week.
WeekOf(d, weekStart) == d - ((Weekday(d) - weekStart) % DaysPerWeek)

\* How many of the rule's periods lie between the seed and a day.
Periods(rule, seed, d) ==
    CASE rule.freq = "DAILY"   -> d - seed
      [] rule.freq = "WEEKLY"  ->
            (WeekOf(d, rule.weekStart) - WeekOf(seed, rule.weekStart)) \div DaysPerWeek
      [] rule.freq = "MONTHLY" -> MonthOf[d] - MonthOf[seed]
      [] rule.freq = "YEARLY"  -> Year(d) - Year(seed)

IntervalFits(rule, seed, d) ==
    Periods(rule, seed, d) >= 0 /\ Periods(rule, seed, d) % rule.interval = 0

MatchesByRules(rule, d) ==
    /\ rule.byMonth # {} => MonthOfYear(d) \in rule.byMonth
    /\ rule.byMonthDay # {} => DayOfMonth[d] \in rule.byMonthDay
    /\ rule.byDay # {} => Weekday(d) \in rule.byDay

\* Without a BYDAY or BYMONTHDAY a day must be the seed's day of its period.
MatchesFrequencyAnchor(rule, seed, d) ==
    LET sameDay == rule.byDay # {} \/ rule.byMonthDay # {} \/ DayOfMonth[d] = DayOfMonth[seed]
    IN  CASE rule.freq = "DAILY"   -> TRUE
          [] rule.freq = "WEEKLY"  -> rule.byDay # {} \/ Weekday(d) = Weekday(seed)
          [] rule.freq = "MONTHLY" -> sameDay
          [] rule.freq = "YEARLY"  ->
                sameDay /\ (rule.byMonth # {} \/ MonthOfYear(d) = MonthOfYear(seed))

Matches(rule, seed, d) ==
    /\ IntervalFits(rule, seed, d)
    /\ MatchesByRules(rule, d)
    /\ MatchesFrequencyAnchor(rule, seed, d)

---------------------------------------------------------------------------
(* expandOccurrences. *)

\* The walk's first day: the last period's boundary at or before the target.
Aligned(n, step) == (n \div step) * step
MonthStart(seed, months) == IF months <= 0 THEN seed ELSE FirstOfMonth[MonthOf[seed] + months]
FastForward(rule, seed, target) ==
    IF target <= seed * SlotsPerDay THEN seed ELSE
    CASE rule.freq = "DAILY"  -> seed + Aligned(target \div SlotsPerDay - seed, rule.interval)
      [] rule.freq = "WEEKLY" -> seed + DaysPerWeek *
            Aligned((target \div SlotsPerDay - seed) \div DaysPerWeek, rule.interval)
      [] OTHER -> MonthStart(seed, Aligned(MonthOf[target \div SlotsPerDay] - MonthOf[seed],
            rule.interval * (IF rule.freq = "MONTHLY" THEN 1 ELSE MonthsPerYear)))

\* Fault: the jump lands on the range's first day.
FirstDayOfRange(e, range) ==
    IF e.rule.count # Null THEN SeedDay(e)
    ELSE FastForward(e.rule, SeedDay(e), range.start)
FirstDay(e, range) ==
    IF e.rule.count # Null THEN SeedDay(e)
    ELSE FastForward(e.rule, SeedDay(e), range.start - e.length - 2 * SlotsPerDay)

\* No occurrence past the range's end or UNTIL matters.
WalkLimit(rule, range) ==
    IF rule.until # Null /\ rule.until < range.end THEN rule.until ELSE range.end

PeriodDays(rule) ==
    (rule.interval + 1) * (CASE rule.freq = "DAILY"   -> 1
                             [] rule.freq = "WEEKLY"  -> DaysPerWeek
                             [] rule.freq = "MONTHLY" -> LongestMonth
                             [] rule.freq = "YEARLY"  -> LongestYear)

\* The days the loop has steps for.
Reach(rule, first, limit) ==
    {d \in Days : first <= d /\ d < first + PeriodDays(rule) + 5
                     + Max({0, (limit - first * SlotsPerDay + SlotsPerDay - 1) \div SlotsPerDay})}

Found(e, days) ==
    {d \in days : Matches(e.rule, SeedDay(e), d)
                    /\ StartOn(e, d) >= (SeedDay(e) - 1) * SlotsPerDay}

\* The days at which the loop would break ...
Breaks(e, days, found, limit) ==
    {d \in days :
        \/ (d - 1) * SlotsPerDay > limit
        \/ e.rule.count # Null /\ Cardinality({b \in found : b < d}) >= e.rule.count
        \/ e.rule.until # Null /\ d \in found /\ StartOn(e, d) > e.rule.until}

\* ... and the days it finds an occurrence on until the first of them.
Walked(e, range) ==
    LET limit == WalkLimit(e.rule, range)
        days == Reach(e.rule, FirstDay(e, range), limit)
        found == Found(e, days)
        breaks == Breaks(e, days, found, limit)
    IN  {d \in found : \A b \in breaks : d < b}

Overlaps(start, end, range) == start < range.end /\ end > range.start

\* The days of the occurrences in the range, at most so many, and whether
\* more were cut off.
FirstFew(S, n) == {s \in S : Cardinality({t \in S : t < s}) < n}
Cut(days, most) == [days |-> FirstFew(days, most), truncated |-> Cardinality(days) > most]
Visible(e, range, start) ==
    Overlaps(start, start + e.length, range) /\ start \notin e.exdates
Expansion(e, range, most) ==
    Cut({d \in IF e.rule = Null THEN {SeedDay(e)} ELSE Walked(e, range) :
            Visible(e, range, StartOn(e, d))}, most)

---------------------------------------------------------------------------
(* createListEventsInRangeUseCase over one master and its overrides.  A    *)
(* view tells which occurrence it is, when it is, and what showed it.      *)

\* The rows the query returns.
IsCandidate(e, range) ==
    IF e.rule = Null THEN Overlaps(e.at, e.at + e.length, range)
    ELSE /\ e.at < range.end
         /\ e.rule.until # Null => e.rule.until + e.length > range.start

View(of, start, length, from) ==
    [of |-> of, start |-> start, end |-> start + length, from |-> from]
OwnStart(e) == StartOn(e, SeedDay(e))
InRange(view, range) == Overlaps(view.start, view.end, range)
OwnView(o, from) == View(o.of, OwnStart(o), o.length, from)

\* The master's occurrences ...
Listed(master, range, most) ==
    IF IsCandidate(master, range) THEN Expansion(master, range, most)
    ELSE [days |-> {}, truncated |-> FALSE]

\* ... some of them replaced by their overrides (applyOverrides), which may
\* have moved out of the range, beside overrides that moved into it.
Substituted(starts, known) == {o \in known : o.of \in starts}
Views(master, starts, substituted, overrides, range) ==
    {View(s, s, master.length, "series") : s \in starts \ {o.of : o \in substituted}}
    \cup {v \in {OwnView(o, "in place") : o \in substituted} : InRange(v, range)}
    \cup {OwnView(o, "moved in") :
            o \in {s \in overrides \ substituted :
                    IsCandidate(s, range) /\ Visible(s, range, OwnStart(s))}}
Listing(master, overrides, range, expand) ==
    LET folded == ~expand /\ master.rule # Null
        known == IF folded \/ master.rule = Null THEN {} ELSE overrides
        listed == Listed(master, range, IF folded THEN 1 ELSE MaxOccurrences)
        starts == {StartOn(master, d) : d \in listed.days}
    IN  [views |-> Views(master, starts, Substituted(starts, known), overrides, range),
         truncated |-> ~folded /\ listed.truncated]
=============================================================================
